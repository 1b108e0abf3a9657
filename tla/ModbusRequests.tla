--------------------------- MODULE ModbusRequests ---------------------------
(***************************************************************************)
(* What the Modbus adapter does with the requests of the broker            *)
(* (QueryRequest.cpp, SetRequest.cpp, ProbeSetRequest.cpp,                 *)
(* ProbeQueryRequest.cpp), next to the sampler's QuerySample and to        *)
(* crashes and restarts (ModbusAdapter.cpp). The callbacks run one after   *)
(* the other and answer from the model in memory, which is the model file  *)
(* as it was at the start; Probe/Set writes the file only.                 *)
(*                                                                         *)
(* Values are versions. On the wire a value is the sequence of its bytes,  *)
(* <<id, version, position>> with position 1 for the most significant one, *)
(* so that a conversion is the permutation of positions it performs. They  *)
(* fit the width of their item (a coil is given 0 or 1, a float needs no   *)
(* more than the six decimals a read keeps), and two ids have no register  *)
(* in common. A call of the device answers or fails as a whole here;       *)
(* ModbusLink looks inside.                                                *)
(***************************************************************************)
EXTENDS Integers, Sequences, SequencesExt

CONSTANTS
  Ids,          \* the ids a model file may know
  Models,       \* the model files that Probe/Set sends
  Item,         \* Item[m][id]: what model m says of id, or NoItem
  SampleIds,    \* the ids of the sample channel, in order
  SetEntries, QueryEntries,   \* the items a Set or a Query may have
  MaxItems,     \* bound: items of a request
  MaxVersion,   \* bound: values set
  MaxProbes,    \* bound: requests of Probe/Set
  MaxStarts,    \* bound: starts of the process
  NoItem, Torn, Null

\* regs is the registers of a value, 0 for a coil; values, how many of them
\* "number" covers; funcs, the function codes of the write methods, in order;
\* missing, what the read method lacks, "address" standing for a number or a
\* function code as well.
ItemRecord == [methods : BOOLEAN, dict : BOOLEAN, setable : BOOLEAN,
               little : BOOLEAN, regs : {0, 1, 2, 4}, values : 1..8,
               missing : {"nothing", "registertype", "address"},
               funcs : Seq({5, 6, 15, 16})]

\* The addresses of an id, hence its width, are those of the device, the same in
\* all its methods; codes 5 and 15 write coils and 6 writes one register, as the
\* shipped model has it.
ASSUME ItemAssumption ==
  /\ Item \in [Models -> [Ids -> ItemRecord \cup {NoItem}]]
  /\ NoItem \notin ItemRecord
  /\ \A m \in Models, id \in Ids : Item[m][id] # NoItem =>
       \A k \in DOMAIN Item[m][id].funcs :
         /\ Item[m][id].funcs[k] \in {5, 15} => Item[m][id].regs = 0
         /\ Item[m][id].funcs[k] = 6 => Item[m][id].regs = 1
  /\ \A m, n \in Models, id \in Ids : NoItem \notin {Item[m][id], Item[n][id]} =>
       /\ Item[m][id].regs = Item[n][id].regs
       /\ Item[m][id].values = Item[n][id].values
ASSUME RequestAssumption ==
  /\ SampleIds \in Seq(Ids) /\ Len(SampleIds) > 0
  /\ \A e \in SetEntries : e.op \in {"set", "add", "other"}
  /\ \A e \in QueryEntries : e.op \in {"get_value", "get_attributes", "other"}
  /\ Torn \notin Models \cup {Null} /\ Null \notin Models
  /\ {MaxItems, MaxVersion, MaxProbes, MaxStarts} \subseteq Nat

VARIABLES
  file,      \* ModbusModel.json: a model, Null, or Torn: no JSON text
  memory,    \* model and idPathMap, of the last start
  up,        \* the process runs and has started
  cb,        \* the callback: "wait", "probe", "set" or "query"
  probe,     \* requestJsonData["probe"] of the Probe/Set that runs
  request,   \* the items of the Set or Query that runs
  reply,     \* its answers so far
  retCode, error,   \* of the Set: retCode and resultJson["error"], 0 without
                    \* one; "reason" and "params" go with it
  registers, \* the device: the bytes of each value of each id
  row, dest, \* QuerySample: its data, its buffer
  next,      \* the position in SampleIds it reads next
  probes, starts, version,   \* counters of requests, starts and values
  answered,  \* history: the probe answered OK last, at first the file
  unstored,  \* history: a later Probe/Set did not get its text into the file
  written,   \* history: version and item of the last write the device took
  misread    \* history: a read of this row failed

model == <<file, memory, up, starts>>
callback == <<cb, probe, request, reply, retCode, error>>
sampler == <<row, dest, next, misread>>
storing == <<answered, unstored, probes>>
device == <<registers, written, version>>
vars == <<model, callback, sampler, storing, device>>

ItemOf(id) == IF memory \in Models /\ id \in Ids THEN Item[memory][id] ELSE NoItem

-----------------------------------------------------------------------------
(* Bytes on the wire. *)

Width(regs) == IF regs = 0 THEN 1 ELSE 2 * regs
Number(id, v, regs) == [p \in 1..Width(regs) |-> <<id, v, p>>]
Junk == << <<Null, 0, 0>> >>
Zero == << <<Null, 0, 1>> >>

\* The values of the device before anything is written.
Zeroed(id) ==
  LET item == CHOOSE i \in {Item[m][id] : m \in Models} : i # NoItem
  IN  [k \in 1..item.values |-> Number(id, 0, item.regs)]

InRegisterSwapped(bytes) ==
  [p \in DOMAIN bytes |-> bytes[IF p % 2 = 1 THEN p + 1 ELSE p - 1]]

\* Faulty variant: a number starts with its low register.
EncodeLowFirst(item, bytes) ==
  IF item.regs >= 2 THEN InRegisterSwapped(Reverse(bytes)) ELSE bytes

\* A little-endian number of several registers is written with the bytes of each
\* register exchanged, everything else from the most significant byte on.
Encode(item, bytes) ==
  IF item.regs >= 2 /\ item.little THEN InRegisterSwapped(bytes) ELSE bytes

\* The conversions of a read take all bytes of a little-endian number in reverse.
Decode(item, bytes) ==
  IF item.little /\ item.regs > 0 THEN Reverse(bytes) ELSE bytes

-----------------------------------------------------------------------------
(* The code an item of a Set ends with; carried is the code of the item before
   it, which retCode still holds.                                            *)

DictCode(e) ==
  LET item == ItemOf(e.id) IN
    IF item = NoItem THEN 401 ELSE IF item.dict THEN 410 ELSE 405

\* setList looks for the index in the answer, where there is none.
ListCode(e) == IF ItemOf(e.id) = NoItem THEN 401 ELSE 405

\* setValue goes through the write methods of an id. One of code 16 with a type
\* of a single register returns 202 and leaves those after it alone.
Refuses(item, k) == item.funcs[k] = 16 /\ item.regs < 2
Reached(item) == {k \in DOMAIN item.funcs : \A j \in 1..(k - 1) : ~Refuses(item, j)}
Written(item) == item # NoItem /\ item.methods /\ item.setable

\* An item that is not setable is answered OK and not written.
ValueCode(e) ==
  LET item == ItemOf(e.id) IN
    IF item = NoItem THEN 401
    ELSE IF Written(item) /\ \E k \in Reached(item) : Refuses(item, k) THEN 202 ELSE 0

KeyCode(e, carried) ==
  IF e.key THEN DictCode(e) ELSE IF e.op = "add" THEN 403 ELSE carried

PlaceCode(e, carried) ==
  IF e.index THEN ListCode(e)
  ELSE IF e.offset THEN 402 ELSE KeyCode(e, carried)

\* Faulty variant: a set_value without a number keeps the code it finds.
EntryCodeKept(e, carried) ==
  IF e.op = "set" /\ e.number THEN ValueCode(e) ELSE PlaceCode(e, carried)

EntryCode(e, carried) ==
  IF e.op = "set" THEN (IF e.number THEN ValueCode(e) ELSE 102)
  ELSE PlaceCode(e, carried)

\* Faulty variant: a method looks at the data type after its write.
WritesFirst(e) ==
  LET item == ItemOf(e.id) IN
    /\ ~e.nested /\ e.op = "set" /\ e.number /\ Written(item)
    /\ \E k \in Reached(item) : item.funcs[k] # 15

\* setValue hands the number to the device, once for each method that takes it.
\* Code 15 wants an array, which is not a number, and writes nothing.
Writes(e) ==
  LET item == ItemOf(e.id) IN
    /\ ~e.nested /\ e.op = "set" /\ e.number /\ Written(item)
    /\ \E k \in Reached(item) : item.funcs[k] # 15 /\ ~Refuses(item, k)

-----------------------------------------------------------------------------
(* Start, crash, and the end by an uncaught exception. *)

Forgotten ==
  /\ cb' = "wait" /\ probe' = Null /\ request' = <<>> /\ reply' = <<>>
  /\ retCode' = 0 /\ error' = 0
  /\ row' = <<>> /\ dest' = <<>> /\ next' = 1 /\ misread' = FALSE

\* In the middle of a Probe/Set its text may have reached the file.
Ends ==
  /\ up' = FALSE /\ memory' = Null
  /\ Forgotten
  /\ file' \in IF cb = "probe" /\ file = Torn THEN {Torn, probe} ELSE {file}
  /\ unstored' = (unstored \/ cb = "probe")
  /\ UNCHANGED <<starts, answered, probes, device>>

\* A file that is not JSON text ends the start by an exception.
Start ==
  /\ ~up /\ starts < MaxStarts
  /\ starts' = starts + 1
  /\ up' = (file # Torn)
  /\ memory' = IF file = Torn THEN Null ELSE file
  /\ UNCHANGED <<file, callback, sampler, storing, device>>

Crash == up /\ Ends

-----------------------------------------------------------------------------
(* Probe/Set: the file is truncated when it is opened and written at the
   latest when it is closed. Neither the opening nor the writing is checked.
   A request that cannot be parsed gives a probe of null.                    *)

ProbeOpen(p) ==
  /\ up /\ cb = "wait" /\ probes < MaxProbes
  /\ cb' = "probe" /\ probe' = p
  /\ probes' = probes + 1
  /\ \/ file' = Torn /\ UNCHANGED unstored
     \/ UNCHANGED file /\ unstored' = TRUE      \* the file cannot be opened
  /\ UNCHANGED <<memory, up, starts, request, reply, retCode, error, sampler,
                 answered, device>>

\* Faulty variant: the file is not closed, its text stays in a buffer.
ProbeCloseUnflushed ==
  /\ up /\ cb = "probe"
  /\ cb' = "wait" /\ probe' = Null
  /\ answered' = probe
  /\ UNCHANGED <<model, request, reply, retCode, error, sampler, unstored,
                 probes, device>>

ProbeClose ==
  /\ up /\ cb = "probe"
  /\ cb' = "wait" /\ probe' = Null
  /\ answered' = probe
  /\ \/ file = Torn /\ file' = probe /\ unstored' = FALSE
     \/ file = Torn /\ UNCHANGED file /\ unstored' = TRUE  \* the write fails
     \/ file # Torn /\ UNCHANGED <<file, unstored>>        \* it was not opened
  /\ UNCHANGED <<memory, up, starts, request, reply, retCode, error, sampler,
                 probes, device>>

\* Probe/Query and Probe/Version parse the file and answer from it; when that
\* fails, the process ends.
ProbeQuery ==
  /\ up /\ cb = "wait" /\ file = Torn
  /\ Ends

\* So it does when one of these, a Set or a Query is no JSON text or lacks what
\* its handler takes for granted, at once or at the item that lacks it.
Malformed ==
  /\ up /\ cb # "probe"
  /\ Ends

-----------------------------------------------------------------------------
(* Set: the items in order; retCode and resultJson live across them. *)

Receive(kind, items) ==
  /\ up /\ cb = "wait"
  /\ cb' = kind /\ request' = items
  /\ UNCHANGED <<model, probe, reply, retCode, error, sampler, storing, device>>

\* An item whose own "values" has an "id" where the item stands in the request
\* is echoed, without a code; retCode and resultJson say 401 for the items after.
Echo ==
  /\ up /\ cb = "set" /\ Len(reply) < Len(request)
  /\ LET e == request[Len(reply) + 1]
     IN  /\ e.nested
         /\ reply' = Append(reply, [id |-> e.id, code |-> "none", error |-> 0])
  /\ retCode' = 401 /\ error' = 401
  /\ UNCHANGED <<model, cb, probe, request, sampler, storing, device>>

\* The answer is resultJson, with the error of the last item that was refused,
\* if this one is or not. A write may fail at the device; setValue does not look
\* at its result.
SetItem ==
  /\ up /\ cb = "set" /\ Len(reply) < Len(request)
  /\ LET e == request[Len(reply) + 1]
         code == EntryCode(e, retCode)
         item == ItemOf(e.id)
     IN  /\ ~e.nested
         /\ Writes(e) => version < MaxVersion
         /\ retCode' = code
         /\ error' = IF code = 0 THEN error ELSE code
         /\ reply' = Append(reply, [id |-> e.id, code |-> IF code = 0 THEN "OK" ELSE "NG",
                                    error |-> error'])
         /\ \/ /\ Writes(e)
               /\ version' = version + 1
               /\ registers' = [registers EXCEPT ![e.id][1] =
                    Encode(item, Number(e.id, version', item.regs))]
               /\ written' = [written EXCEPT ![e.id] =
                    [version |-> version', item |-> item]]
            \/ UNCHANGED device
  /\ UNCHANGED <<model, cb, probe, request, sampler, storing>>

-----------------------------------------------------------------------------
(* Query: every id is read by its first method; an id without methods gets no
   answer. A failed read leaves dest zero and the conversion's array as it is. *)

\* A read covers the values of the id, one behind the other.
Bytes(id) ==
  LET width == Len(registers[id][1]) IN
    [n \in 1..(width * Len(registers[id])) |->
       registers[id][(n - 1) \div width + 1][((n - 1) % width) + 1]]

Values(item, id, ok) ==
  IF item.regs = 0
  THEN <<IF ok THEN Bytes(id) ELSE [k \in 1..item.values |-> Zero[1]]>>
  ELSE [k \in 1..item.values |->
          IF ok THEN Decode(item, registers[id][k]) ELSE Junk]

Answer(e, ok) ==
  LET item == ItemOf(e.id)
      unread == [id |-> e.id, ok |-> item # NoItem, read |-> FALSE, values |-> <<>>]
  IN  IF item # NoItem /\ ~item.methods THEN Null
      ELSE IF item # NoItem /\ item.missing = "nothing" /\ e.op = "get_value"
      THEN [unread EXCEPT !.read = ok, !.values = Values(item, e.id, ok)]
      ELSE unread

\* QueryValue leaves a result, which makes an object of the request's resultJson.
Yields(e) ==
  LET item == ItemOf(e.id) IN
    /\ item # NoItem /\ item.methods
    /\ item.missing = "nothing" /\ e.op \in {"get_value", "get_attributes"}

\* Without a result for an item, and before the first, what is inserted in the
\* answer is no object, and that is an exception.
Throws(k) ==
  /\ ItemOf(request[k].id) # NoItem /\ ItemOf(request[k].id).methods
  /\ \A j \in 1..k : ~Yields(request[j])

QueryItem ==
  /\ up /\ cb = "query" /\ Len(reply) < Len(request)
  /\ ~Throws(Len(reply) + 1)
  /\ \E ok \in BOOLEAN : reply' = Append(reply, Answer(request[Len(reply) + 1], ok))
  /\ UNCHANGED <<model, cb, probe, request, retCode, error, sampler, storing, device>>

QueryThrows ==
  /\ up /\ cb = "query" /\ Len(reply) < Len(request)
  /\ Throws(Len(reply) + 1)
  /\ Ends

Reply ==
  /\ up /\ cb \in {"set", "query"} /\ Len(reply) = Len(request)
  /\ cb' = "wait" /\ request' = <<>> /\ reply' = <<>>
  /\ retCode' = 0 /\ error' = 0
  /\ UNCHANGED <<model, probe, sampler, storing, device>>

-----------------------------------------------------------------------------
(* QuerySample, an id at a time; its result is the row of Sample.cpp. *)

\* dest is one buffer for all ids: a read overwrites its beginning, a read that
\* fails leaves what is there, which a coil then takes for its bits.
Buffer(id, ok) ==
  IF ok THEN Bytes(id) \o SubSeq(dest, Len(Bytes(id)) + 1, Len(dest)) ELSE dest

\* Faulty variant: a read that failed adds nothing to the row.
ColumnsRead(item, id, ok) == IF ok THEN Values(item, id, ok) ELSE <<>>

Columns(item, id, ok) ==
  IF item.regs = 0
  THEN LET buffer == Buffer(id, ok)
       IN  <<[k \in 1..item.values |->
                IF k \in DOMAIN buffer THEN buffer[k] ELSE Zero[1]]>>
  ELSE Values(item, id, ok)

Sample ==
  /\ up /\ next <= Len(SampleIds)
  /\ next' = next + 1
  /\ LET id == SampleIds[next]
         item == ItemOf(id)
     IN  IF item = NoItem \/ ~item.methods
         THEN UNCHANGED <<row, dest, misread>>
         ELSE /\ item.missing # "address"
              /\ \E ok \in BOOLEAN :
                   /\ dest' = Buffer(id, ok)
                   /\ misread' = (misread \/ ~ok)
                   /\ row' = row \o Columns(item, id, ok)
  /\ UNCHANGED <<model, callback, storing, device>>

\* A read method without an address is an exception of the sampler's thread.
SampleThrows ==
  /\ up /\ next <= Len(SampleIds)
  /\ LET item == ItemOf(SampleIds[next])
     IN  item # NoItem /\ item.methods /\ item.missing = "address"
  /\ Ends

\* The row goes to Sample.cpp (module SampleChannel) and the next one begins.
RowDone ==
  /\ up /\ next > Len(SampleIds)
  /\ next' = 1 /\ row' = <<>> /\ dest' = <<>> /\ misread' = FALSE
  /\ UNCHANGED <<model, callback, storing, device>>

-----------------------------------------------------------------------------
Requests(entries) == UNION {[1..n -> entries] : n \in 1..MaxItems}

Init ==
  /\ file \in Models /\ answered = file /\ unstored = FALSE
  /\ up = FALSE /\ memory = Null
  /\ cb = "wait" /\ probe = Null /\ request = <<>> /\ reply = <<>>
  /\ retCode = 0 /\ error = 0
  /\ registers = [id \in Ids |-> Zeroed(id)]
  /\ written = [id \in Ids |-> [version |-> 0, item |-> NoItem]]
  /\ row = <<>> /\ dest = <<>> /\ next = 1 /\ misread = FALSE
  /\ probes = 0 /\ starts = 0 /\ version = 0

Next ==
  \/ Start \/ Crash
  \/ \E p \in Models \cup {Null} : ProbeOpen(p)
  \/ ProbeClose \/ ProbeQuery \/ Malformed
  \/ \E items \in Requests(SetEntries) : Receive("set", items)
  \/ \E items \in Requests(QueryEntries) : Receive("query", items)
  \/ Echo \/ SetItem \/ QueryItem \/ QueryThrows \/ Reply
  \/ Sample \/ SampleThrows \/ RowDone

Spec == Init /\ [][Next]_vars

-----------------------------------------------------------------------------
(* Properties *)

\* What an item of a Set is answered follows from the request alone, although
\* retCode and resultJson live across the items (SetRequest.cpp:27-78). An item
\* decides its own code, unless it is an operation other than set_value, add and
\* delete without key, index and offset: that one is answered with the code of
\* the last item before it that decided one, 0 if none did. The error shown, on
\* an answer OK too, is the one of the last item refused so far.
Decides(e) == e.nested \/ e.op # "other" \/ e.key \/ e.index \/ e.offset
OwnCode(e) == IF e.nested THEN 401 ELSE EntryCode(e, 0)
CodeAt(k, code) ==
  \/ code = 0 /\ \A j \in 1..k : ~Decides(request[j])
  \/ \E j \in 1..k : /\ Decides(request[j]) /\ code = OwnCode(request[j])
                     /\ \A i \in (j + 1)..k : ~Decides(request[i])
ErrorAt(k, shown) ==
  \/ shown = 0 /\ \A j \in 1..k : CodeAt(j, 0)
  \/ \E j \in 1..k : /\ shown # 0 /\ CodeAt(j, shown)
                     /\ \A i \in (j + 1)..k : CodeAt(i, 0)
CodesFollow ==
  cb = "set" => \A k \in DOMAIN reply :
    IF request[k].nested THEN reply[k].code = "none"
    ELSE /\ reply[k].code = "OK" <=> CodeAt(k, 0)
         /\ reply[k].code \in {"OK", "NG"} /\ ErrorAt(k, reply[k].error)

\* An item of a Set that is refused or echoed leaves the registers as they are,
\* but for one case: a method that refuses its data type, 202, behind another
\* method of the item that has written already (SetRequest.cpp:33-77, 163-194).
RefusedUnwritten ==
  [][\A k \in DOMAIN reply' \ DOMAIN reply :
       cb = "set" /\ reply'[k].code # "OK" /\ registers' # registers =>
         /\ reply'[k].error = 202
         /\ LET funcs == ItemOf(request[k].id).funcs
            IN  \E i, j \in DOMAIN funcs : i < j /\ funcs[i] \in {5, 6} /\ funcs[j] = 16]_vars

\* A Query that reads a big-endian item gets the value the device took last for
\* it, through SetRequest's and Utils.cpp's byte orders, requests that failed, a
\* crash and a restart with another model in between, as long as the item was
\* described alike when the value was written.
ReadsBack ==
  cb = "query" => \A k \in DOMAIN reply :
    LET a == reply[k] IN
      (a # Null /\ a.read /\ written[a.id].item = ItemOf(a.id) /\ ~ItemOf(a.id).little) =>
        LET value == Number(a.id, written[a.id].version, ItemOf(a.id).regs) IN
          IF ItemOf(a.id).regs = 0 THEN a.values[1][1] = value[1]
          ELSE a.values[1] = value

\* Between two requests the model file is the probe answered OK last, whatever
\* crashes and restarts came, unless a Probe/Set after it was cut off or met an
\* error of the file: then only may a start fail (ProbeSetRequest.cpp:23-36).
AnsweredIsStored == cb # "probe" /\ ~unstored => file = answered

\* A row has one value per id of the channel, in their order and each its own,
\* if the model knows each with a first read method that covers one value; only
\* a failed read may put something else in a value's place, and it leaves the
\* others where they belong (QueryRequest.cpp:210-315, Sample.cpp:86-90).
Plain(id) ==
  LET item == ItemOf(id) IN
    item # NoItem /\ item.methods /\ (item.regs = 0 \/ item.values = 1)
RowsAligned ==
  (up /\ next > Len(SampleIds) /\ \A k \in DOMAIN SampleIds : Plain(SampleIds[k])) =>
    /\ Len(row) = Len(SampleIds)
    /\ ~misread => \A k \in DOMAIN row : \A p \in DOMAIN row[k] :
         row[k][p][1] = SampleIds[k]
=============================================================================
