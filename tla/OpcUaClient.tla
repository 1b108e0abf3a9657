----------------------------- MODULE OpcUaClient -----------------------------
(***************************************************************************)
(* The OPC-UA side of its adapter (OPCUAAdapter.cpp, OPCUAInterface.cpp,   *)
(* QueryRequest.cpp). At the start every sample node is given a monitored  *)
(* item and read once. Then three threads share the client, the map of     *)
(* samples and no lock: the main loop, whose iterations deliver the        *)
(* notifications, the sampler, which publishes the map entry by entry, and *)
(* the MQTT callback, which reads the nodes a query names.                 *)
(*                                                                         *)
(* A value is the number of changes the server made to that node. The      *)
(* server samples a monitored item at its own pace into a queue of one.    *)
(*                                                                         *)
(* An entry of a query names its node in one of four ways: by the id alone *)
(* ("own"), which the model file maps to an identifier and its type; by    *)
(* identifier, namespace and a type, which is String or Int32 ("named") or *)
(* another one ("other"); or without an id, or with a field that has not   *)
(* the type it should have ("faulty").                                     *)
(***************************************************************************)
EXTENDS Integers, Sequences

CONSTANTS
  SampleIds,   \* MonitorNodeMap: the nodes that are sampled, in order
  Numeric,     \* those of them whose IdentifierType is Int32
  Strangers,   \* other ids: the model file does not know them, or gives them an
               \* IdentifierType that is neither String nor Int32
  Entries,     \* the entries a request may have
  MaxChanges,  \* bound: changes the server makes
  MaxIds,      \* bound: ids in a request
  NoNode, None, Untyped

RangeOf(seq) == {seq[k] : k \in DOMAIN seq}
Nodes == RangeOf(SampleIds)

ASSUME NamesAssumption ==
  /\ NoNode \notin Nodes /\ Strangers \cap (Nodes \cup {NoNode}) = {}
  /\ None \notin Int /\ Untyped \notin Int
ASSUME SampleIdsAssumption == SampleIds \in Seq(Nodes) /\ Numeric \subseteq Nodes
ASSUME BoundsAssumption == MaxChanges \in Nat /\ MaxIds \in Nat

VARIABLES
  value,     \* the value of each node
  seen,      \* the value its item sampled last, or None
  sampled,   \* the value that waits in the queue of its item, or None
  todo,      \* nodes the start has not come to, in order
  current,   \* the node whose item was created and is read next, or NoNode
  map,       \* SampleTestmap: its nodes in the order of sampleDriverNum
  typed,     \* the entry has a type that can be published
  held,      \* the entry's value
  running,   \* the adapter has started
  alive,     \* the process runs
  cursor, msg,       \* the sampler: its entry, the message it makes
  cpc, request,      \* the callback: what it does, the entries it still has to answer
  opcreturn, \* the last read of a query
  reply,     \* the answers of the request, so far, until it is published
  first,     \* history: the value of the read at the start, or None
  last,      \* history: the value last published for each node
  before     \* history: last, when the request arrived

server == <<value, seen, sampled>>
start == <<todo, current, map, typed, first, running>>
sampler == <<cursor, msg, last>>
callback == <<cpc, request, opcreturn, reply, before>>
vars == <<server, start, held, alive, sampler, callback>>

Values == 0..MaxChanges
Ids == Nodes \cup Strangers
Entry == [id : Ids, way : {"own", "named", "other", "faulty"}]
ASSUME EntriesAssumption == Entries \subseteq Entry
Requests == UNION {[1..m -> Entries] : m \in 1..MaxIds}
Return == [typed : BOOLEAN, node : Nodes \cup {NoNode}, value : Values]
NoReturn == [typed |-> FALSE, node |-> NoNode, value |-> 0]
Answer == [entry : Entries, ok : BOOLEAN, node : Nodes \cup {NoNode}, value : Values]

TypeOK ==
  /\ value \in [Nodes -> Values]
  /\ seen \in [Nodes -> Values \cup {None}]
  /\ sampled \in [Nodes -> Values \cup {None}]
  /\ todo \in Seq(Nodes)
  /\ current \in Nodes \cup {NoNode}
  /\ map \in Seq(Nodes)
  /\ typed \in [Nodes -> BOOLEAN]
  /\ held \in [Nodes -> Values]
  /\ running \in BOOLEAN /\ alive \in BOOLEAN
  /\ cursor \in 1..(Len(map) + 1)
  /\ msg \in [Nodes -> Values \cup {None, Untyped}]
  /\ cpc \in {"wait", "next", "reading"}
  /\ request \in Seq(Entries)
  /\ opcreturn \in Return
  /\ reply \in Seq(Answer)
  /\ first \in [Nodes -> Values \cup {None}]
  /\ last \in [Nodes -> Values \cup {None, Untyped}]
  /\ before \in [Nodes -> Values \cup {None, Untyped}]

Nothing == [n \in Nodes |-> None]

Init ==
  /\ value = [n \in Nodes |-> 0] /\ seen = Nothing /\ sampled = Nothing
  /\ todo = SampleIds /\ current = NoNode /\ map = <<>>
  /\ typed = [n \in Nodes |-> FALSE] /\ held = [n \in Nodes |-> 0]
  /\ running = FALSE /\ alive = TRUE
  /\ cursor = 1 /\ msg = Nothing
  /\ cpc = "wait" /\ request = <<>> /\ opcreturn = NoReturn /\ reply = <<>>
  /\ first = Nothing /\ last = Nothing /\ before = Nothing

-----------------------------------------------------------------------------
(* The server *)

Change(n) ==
  /\ alive /\ value[n] < MaxChanges
  /\ value' = [value EXCEPT ![n] = @ + 1]
  /\ UNCHANGED <<seen, sampled, start, held, alive, sampler, callback>>

\* The item samples its node: a new value takes the place of one that waits.
SampleItem(n) ==
  /\ alive /\ seen[n] # None /\ seen[n] # value[n]
  /\ seen' = [seen EXCEPT ![n] = value[n]]
  /\ sampled' = [sampled EXCEPT ![n] = value[n]]
  /\ UNCHANGED <<value, start, held, alive, sampler, callback>>

-----------------------------------------------------------------------------
(* Faulty variants of the definitions that follow. *)

\* The end of the map is looked for too late.
FillTooFar ==
  /\ alive /\ running /\ cursor <= Len(map) + 1
  /\ IF cursor <= Len(map)
     THEN LET n == map[cursor] IN
            msg' = [msg EXCEPT ![n] = IF typed[n] THEN held[n] ELSE Untyped]
     ELSE UNCHANGED msg
  /\ cursor' = cursor + 1
  /\ UNCHANGED <<server, start, held, alive, last, callback>>

\* A notification is for every entry.
DeliverToAll(n) ==
  /\ alive /\ running /\ sampled[n] # None
  /\ held' = [m \in Nodes |-> sampled[n]]
  /\ sampled' = [sampled EXCEPT ![n] = None]
  /\ UNCHANGED <<value, seen, start, alive, sampler, callback>>

\* An entry that has been published is left out.
PublishOnce ==
  /\ alive /\ running /\ cursor > Len(map)
  /\ last' = [n \in Nodes |-> IF last[n] = None THEN msg[n] ELSE last[n]]
  /\ cursor' = 1 /\ msg' = Nothing
  /\ UNCHANGED <<server, start, held, alive, callback>>

-----------------------------------------------------------------------------
(* The start *)

\* addMonitoredItemToVariable: an item that is not created is left out.
Monitor ==
  /\ todo # <<>> /\ current = NoNode
  /\ LET n == Head(todo) IN
       \/ /\ seen' = [seen EXCEPT ![n] = value[n]]
          /\ sampled' = [sampled EXCEPT ![n] = value[n]]
          /\ current' = n
       \/ UNCHANGED <<seen, sampled, current>>
  /\ todo' = Tail(todo)
  /\ UNCHANGED <<value, map, typed, first, running, held, alive, sampler, callback>>

\* The entry takes its type from this read, which may fail.
FirstRead ==
  /\ current # NoNode
  /\ map' = Append(map, current)
  /\ \/ /\ typed' = [typed EXCEPT ![current] = TRUE]
        /\ held' = [held EXCEPT ![current] = value[current]]
        /\ first' = [first EXCEPT ![current] = value[current]]
     \/ UNCHANGED <<typed, held, first>>
  /\ current' = NoNode
  /\ UNCHANGED <<server, todo, running, alive, sampler, callback>>

\* The client is connected to the broker, and the threads start.
Start ==
  /\ todo = <<>> /\ current = NoNode /\ ~running
  /\ running' = TRUE
  /\ UNCHANGED <<server, todo, current, map, typed, first, held, alive, sampler, callback>>

-----------------------------------------------------------------------------
(* The main loop *)

\* handler_DataChanged: the value changes, the type does not.
Deliver(n) ==
  /\ alive /\ running /\ sampled[n] # None
  /\ held' = IF n \in RangeOf(map) THEN [held EXCEPT ![n] = sampled[n]] ELSE held
  /\ sampled' = [sampled EXCEPT ![n] = None]
  /\ UNCHANGED <<value, seen, start, alive, sampler, callback>>

-----------------------------------------------------------------------------
(* The sampler *)

FillEntry ==
  /\ alive /\ running /\ cursor <= Len(map)
  /\ LET n == map[cursor] IN
       msg' = [msg EXCEPT ![n] = IF typed[n] THEN held[n] ELSE Untyped]
  /\ cursor' = cursor + 1
  /\ UNCHANGED <<server, start, held, alive, last, callback>>

Publish ==
  /\ alive /\ running /\ cursor > Len(map)
  /\ last' = [n \in Nodes |-> IF msg[n] = None THEN last[n] ELSE msg[n]]
  /\ cursor' = 1 /\ msg' = Nothing
  /\ UNCHANGED <<server, start, held, alive, callback>>

\* publish throws while the client is not connected to the broker.
PublishThrows ==
  /\ alive /\ running /\ cursor > Len(map)
  /\ alive' = FALSE
  /\ UNCHANGED <<server, start, held, sampler, callback>>

-----------------------------------------------------------------------------
(* Queries *)

Ask(entries) ==
  /\ alive /\ running /\ cpc = "wait"
  /\ request' = entries /\ before' = last
  /\ cpc' = "next"
  /\ UNCHANGED <<server, start, held, alive, sampler, opcreturn, reply>>

\* A read is done for an entry that names a readable type, and for the id alone of
\* a node with one.
Readable(e) == e.way = "named" \/ (e.way = "own" /\ e.id \in Nodes \ Numeric)

\* A json exception. The model file gives the identifier of a sampled node as a
\* string (OPCUAAdapter.cpp:164), which is no number.
Throws(e) == e.way = "faulty" \/ (e.way = "own" /\ e.id \in Numeric)

\* The answer to an entry is made from opcreturn.
AnswerFrom(e, read) == [entry |-> e, ok |-> read.typed, node |-> read.node, value |-> read.value]

\* Faulty variant: opcreturn is only assigned by a read that succeeds.
EndReadKeeps ==
  /\ alive /\ cpc = "reading"
  /\ LET e == Head(request) IN
       /\ \/ /\ e.id \in Nodes
             /\ opcreturn' = [typed |-> TRUE, node |-> e.id, value |-> value[e.id]]
          \/ opcreturn' = opcreturn
       /\ reply' = Append(reply, AnswerFrom(e, opcreturn'))
  /\ request' = Tail(request) /\ cpc' = "next"
  /\ UNCHANGED <<server, start, held, alive, sampler, before>>

\* Faulty variant: the read is answered from SampleTestmap.
EndReadFromMap ==
  /\ alive /\ cpc = "reading"
  /\ LET e == Head(request) IN
       /\ opcreturn' = IF e.id \in Nodes
                        THEN [typed |-> typed[e.id], node |-> e.id, value |-> held[e.id]]
                        ELSE NoReturn
       /\ reply' = Append(reply, AnswerFrom(e, opcreturn'))
  /\ request' = Tail(request) /\ cpc' = "next"
  /\ UNCHANGED <<server, start, held, alive, sampler, before>>

BeginRead ==
  /\ alive /\ cpc = "next" /\ request # <<>> /\ Readable(Head(request))
  /\ cpc' = "reading"
  /\ UNCHANGED <<server, start, held, alive, sampler, request, opcreturn, reply, before>>

\* readFunction returns the value, or an empty opcreturn on an error, as for a
\* node that does not exist.
EndRead ==
  /\ alive /\ cpc = "reading"
  /\ LET e == Head(request) IN
       /\ \/ /\ e.id \in Nodes
             /\ opcreturn' = [typed |-> TRUE, node |-> e.id, value |-> value[e.id]]
          \/ opcreturn' = NoReturn
       /\ reply' = Append(reply, AnswerFrom(e, opcreturn'))
  /\ request' = Tail(request) /\ cpc' = "next"
  /\ UNCHANGED <<server, start, held, alive, sampler, before>>

\* Nothing is read for an id without an identity, or for a type that is neither
\* String nor Int32, and opcreturn is not reset.
SkipRead ==
  /\ alive /\ cpc = "next" /\ request # <<>>
  /\ ~Readable(Head(request)) /\ ~Throws(Head(request))
  /\ reply' = Append(reply, AnswerFrom(Head(request), opcreturn))
  /\ request' = Tail(request) /\ cpc' = cpc
  /\ UNCHANGED <<server, start, held, alive, sampler, opcreturn, before>>

\* An exception is caught, and the whole request is answered with error_return.
Refuse ==
  /\ alive /\ cpc = "next" /\ request # <<>> /\ Throws(Head(request))
  /\ cpc' = "wait" /\ request' = <<>>
  /\ reply' = <<>> /\ before' = Nothing
  /\ UNCHANGED <<server, start, held, alive, sampler, opcreturn>>

Reply ==
  /\ alive /\ cpc = "next" /\ request = <<>>
  /\ cpc' = "wait"
  /\ reply' = <<>> /\ before' = Nothing
  /\ UNCHANGED <<server, start, held, alive, sampler, request, opcreturn>>

\* The client is built without multithreading: a read while the main loop
\* takes a notification from it may corrupt it.
ClientRace ==
  /\ alive /\ cpc = "reading" /\ \E n \in Nodes : sampled[n] # None
  /\ alive' = FALSE
  /\ UNCHANGED <<server, start, held, sampler, callback>>

-----------------------------------------------------------------------------
Server == \E n \in Nodes : Change(n) \/ SampleItem(n)
StartUp == Monitor \/ FirstRead \/ Start
MainLoop == \E n \in Nodes : Deliver(n)
Sampler == FillEntry \/ Publish \/ PublishThrows
Callback == BeginRead \/ EndRead \/ SkipRead \/ Refuse \/ Reply \/ ClientRace

Next == Server \/ StartUp \/ MainLoop \/ Sampler \/ Callback \/ \E entries \in Requests : Ask(entries)

Spec == Init /\ [][Next]_vars

\* The main loop and the sampler go round for ever, the server samples.
FairSpec ==
  /\ Spec
  /\ WF_vars(MainLoop) /\ WF_vars(Sampler)
  /\ \A n \in Nodes : WF_vars(SampleItem(n))

-----------------------------------------------------------------------------
(* Properties *)

\* The samples published of a node only go back where the read at the start
\* was ahead of its item: no notification is applied out of order or to the
\* entry of another node (handler_DataChanged, sample).
SamplesInOrder ==
  [][\A n \in Nodes : last[n] \in Values /\ last'[n] \in Values =>
       last'[n] >= last[n] \/ last[n] = first[n]]_vars

\* A node whose first read succeeded is published with its newest value, unless
\* it changes again or the process ends (handler_DataChanged, sample).
SamplesCatchUp ==
  \A n \in Nodes, v \in Values :
    (running /\ typed[n] /\ value[n] = v) ~> (last[n] = v \/ value[n] # v \/ ~alive)

\* An entry that is read is answered with the value of the node it names, or
\* refused, whatever was read before it, in this request or an earlier one: the
\* global opcreturn does not outlive a read that fails. What an entry that is not
\* read is answered with, UnreadRefused says (QueryRequest::process).
AnswersOwnNode == \A k \in DOMAIN reply :
  reply[k].ok /\ Readable(reply[k].entry) => reply[k].node = reply[k].entry.id

\* The answer to an entry that is read is never older than what had been published
\* of its node when the request arrived (QueryRequest::process, sample).
AnswersNotBehindSamples == \A k \in DOMAIN reply :
  LET n == reply[k].entry.id IN
    reply[k].ok /\ Readable(reply[k].entry) /\ n \in Nodes /\ before[n] \in Values =>
      reply[k].value >= before[n]

\* An id that is not found, and so not read, is refused (QueryRequest::process, its
\* default case).
UnreadRefused == \A k \in DOMAIN reply : reply[k].ok => Readable(reply[k].entry)
=============================================================================
