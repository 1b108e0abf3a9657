--------------------------- MODULE OpcUaClientProofs ---------------------------
(***************************************************************************)
(* Proofs about OpcUaClient, for any nodes, any number of changes and      *)
(* requests of any length: its types, the order of the samples published,  *)
(* and what queries are answered with.                                     *)
(***************************************************************************)
EXTENDS OpcUaClient, TLAPS

-----------------------------------------------------------------------------
(* The parts of the inductive invariant *)

\* A read is under way for the first entry of the request, which is readable.
CallbackInv ==
  /\ cpc = "reading" => request # <<>> /\ Readable(Head(request))
  /\ cpc = "wait" => reply = <<>>

\* Nothing is published before the adapter has started, and nothing is added to
\* the map afterwards.
StartInv ==
  /\ running => todo = <<>> /\ current = NoNode
  /\ ~running => cursor = 1 /\ msg = Nothing /\ last = Nothing /\ cpc = "wait"

Types == TypeOK /\ CallbackInv /\ StartInv

\* Value a of node n is not ahead of b, or it is that of the first read, which
\* alone may be ahead of the item.
NotAhead(n, a, b) == a \in Values /\ b \in Values => a = first[n] \/ a <= b

\* No value is from the future.
FromPast(n) ==
  \A v \in Values : v \in {seen[n], sampled[n], held[n], msg[n], last[n], before[n]} => v <= value[n]

\* A value on its way to the broker is ahead of none that is behind it.
Pipeline(n) ==
  /\ NotAhead(n, held[n], sampled[n])
  /\ NotAhead(n, msg[n], sampled[n]) /\ NotAhead(n, msg[n], held[n])
  /\ NotAhead(n, last[n], sampled[n]) /\ NotAhead(n, last[n], held[n])
  /\ NotAhead(n, last[n], msg[n])

FlowInv == \A n \in Nodes : FromPast(n) /\ Pipeline(n)

Answers == AnswersOwnNode /\ AnswersNotBehindSamples

-----------------------------------------------------------------------------
(* Each part is preserved. *)

\* A request is a sequence of entries.
LEMMA RequestsTyped == \A entries \in Requests : entries \in Seq(Entries)
  BY BoundsAssumption DEF Requests

\* The values.
LEMMA ValuesTyped ==
  /\ 0 \in Values
  /\ \A v \in Values : v < MaxChanges => v + 1 \in Values
  BY BoundsAssumption DEF Values

\* A read returns a typed value of its node, or nothing.
LEMMA ReturnsTyped ==
  /\ NoReturn \in Return
  /\ \A n \in Nodes, v \in Values : [typed |-> TRUE, node |-> n, value |-> v] \in Return
  BY ValuesTyped DEF Return, NoReturn

\* The types.
LEMMA TypeStep == Types /\ [Next]_vars => Types'
<1> SUFFICES ASSUME Types, [Next]_vars PROVE Types'
  OBVIOUS
<1> USE NamesAssumption, BoundsAssumption
    DEF Types, TypeOK, CallbackInv, StartInv, server, start, sampler, callback
<1>1. ASSUME NEW n \in Nodes, Change(n) PROVE Types'
  <2>1. value[n] + 1 \in Values
    <3>1. value[n] \in Values
      OBVIOUS
    <3>2. value[n] < MaxChanges
      BY <1>1 DEF Change
    <3>3. QED
      BY <3>1, <3>2, ValuesTyped
  <2>2. QED
    BY <1>1, <2>1 DEF Change
<1>2. ASSUME NEW n \in Nodes, SampleItem(n) PROVE Types'
  BY <1>2 DEF SampleItem
<1>3. CASE Monitor
  <2>1. Head(todo) \in Nodes /\ Tail(todo) \in Seq(Nodes)
    BY <1>3 DEF Monitor
  <2>2. ~running
    BY <1>3 DEF Monitor
  <2>3. value[Head(todo)] \in Values
    BY <2>1
  <2>4. CASE UNCHANGED <<seen, sampled, current>>
    BY <1>3, <2>1, <2>2, <2>4 DEF Monitor
  <2>5. CASE /\ seen' = [seen EXCEPT ![Head(todo)] = value[Head(todo)]]
             /\ sampled' = [sampled EXCEPT ![Head(todo)] = value[Head(todo)]]
             /\ current' = Head(todo)
    <3>1. seen' \in [Nodes -> Values \cup {None}]
      BY <2>1, <2>3, <2>5
    <3>2. sampled' \in [Nodes -> Values \cup {None}]
      BY <2>1, <2>3, <2>5
    <3>3. QED
      BY <1>3, <2>1, <2>2, <2>5, <3>1, <3>2 DEF Monitor
  <2>6. QED
    BY <1>3, <2>4, <2>5 DEF Monitor
<1>4. CASE FirstRead
  <2>1. current \in Nodes /\ ~running
    BY <1>4 DEF FirstRead
  <2>2. map' \in Seq(Nodes) /\ Len(map') = Len(map) + 1
    BY <1>4, <2>1 DEF FirstRead
  <2>3. /\ typed' \in [Nodes -> BOOLEAN] /\ held' \in [Nodes -> Values]
        /\ first' \in [Nodes -> Values \cup {None}]
    <3>1. value[current] \in Values
      BY <2>1
    <3>2. CASE UNCHANGED <<typed, held, first>>
      BY <3>2
    <3>3. CASE /\ typed' = [typed EXCEPT ![current] = TRUE]
               /\ held' = [held EXCEPT ![current] = value[current]]
               /\ first' = [first EXCEPT ![current] = value[current]]
      BY <3>1, <3>3
    <3>4. QED
      BY <1>4, <3>2, <3>3 DEF FirstRead
  <2>4. QED
    BY <1>4, <2>1, <2>2, <2>3 DEF FirstRead
<1>5. CASE Start
  BY <1>5 DEF Start
<1>6. ASSUME NEW n \in Nodes, Deliver(n) PROVE Types'
  BY <1>6 DEF Deliver
<1>7. CASE FillEntry
  BY <1>7 DEF FillEntry
<1>8. CASE Publish
  <2>1. msg' \in [Nodes -> Values \cup {None, Untyped}] /\ cursor' \in 1..(Len(map) + 1)
    BY <1>8 DEF Publish, Nothing
  <2>2. last' \in [Nodes -> Values \cup {None, Untyped}]
    BY <1>8 DEF Publish
  <2>3. QED
    BY <1>8, <2>1, <2>2 DEF Publish
<1>9. CASE PublishThrows \/ ClientRace
  <2>1. alive' \in BOOLEAN
    BY <1>9 DEF PublishThrows, ClientRace
  <2>2. QED
    BY <1>9, <2>1 DEF PublishThrows, ClientRace
<1>10. CASE BeginRead
  BY <1>10 DEF BeginRead
<1>11. CASE EndRead
  <2>1. Head(request) \in Entries /\ Tail(request) \in Seq(Entries)
    BY <1>11 DEF EndRead
  <2>2. opcreturn' \in Return
    <3>1. CASE /\ Head(request).id \in Nodes
               /\ opcreturn' = [typed |-> TRUE, node |-> Head(request).id, value |-> value[Head(request).id]]
      <4>1. value[Head(request).id] \in Values
        BY <3>1
      <4>2. QED
        BY <3>1, <4>1, ReturnsTyped
    <3>2. CASE opcreturn' = NoReturn
      BY <3>2, ReturnsTyped
    <3>3. QED
      BY <1>11, <3>1, <3>2 DEF EndRead
  <2>3. reply' \in Seq(Answer)
    <3>1. AnswerFrom(Head(request), opcreturn') \in Answer
      BY <2>1, <2>2 DEF AnswerFrom, Return, Answer
    <3>2. QED
      BY <1>11, <3>1 DEF EndRead
  <2>4. QED
    BY <1>11, <2>1, <2>2, <2>3 DEF EndRead
<1>12. CASE SkipRead
  <2>1. Head(request) \in Entries /\ Tail(request) \in Seq(Entries)
    BY <1>12 DEF SkipRead
  <2>2. reply' \in Seq(Answer)
    <3>1. AnswerFrom(Head(request), opcreturn) \in Answer
      BY <2>1 DEF AnswerFrom, Return, Answer
    <3>2. QED
      BY <1>12, <3>1 DEF SkipRead
  <2>3. QED
    BY <1>12, <2>1, <2>2 DEF SkipRead
<1>13. CASE Reply \/ Refuse
  <2>1. before' \in [Nodes -> Values \cup {None, Untyped}] /\ reply' \in Seq(Answer)
    BY <1>13 DEF Reply, Refuse, Nothing
  <2>2. QED
    BY <1>13, <2>1 DEF Reply, Refuse
<1>14. ASSUME NEW ids \in Requests, Ask(ids) PROVE Types'
  BY <1>14, RequestsTyped DEF Ask
<1>15. CASE UNCHANGED vars
  BY <1>15 DEF vars
<1>16. QED
  BY <1>1, <1>2, <1>3, <1>4, <1>5, <1>6, <1>7, <1>8, <1>9, <1>10, <1>11, <1>12, <1>13, <1>14, <1>15
  DEF Next, Server, StartUp, MainLoop, Sampler, Callback

\* A notification is never from the future, and no value overtakes another on
\* the way from item to entry to message to broker.
LEMMA FlowStep == Types /\ FlowInv /\ [Next]_vars => FlowInv'
<1> SUFFICES ASSUME Types, FlowInv, [Next]_vars, NEW m \in Nodes
             PROVE  (FromPast(m) /\ Pipeline(m))'
  BY DEF FlowInv
<1>0. /\ value[m] \in Values /\ held[m] \in Values /\ value'[m] \in Values /\ held'[m] \in Values
      /\ FromPast(m) /\ Pipeline(m)
  BY TypeStep DEF Types, TypeOK, FlowInv
<1>a. \A v \in Values : v \in Int /\ v >= 0 /\ v # None /\ v # Untyped
  BY NamesAssumption, BoundsAssumption DEF Values
<1> USE DEF FromPast, Pipeline, NotAhead, server, start, sampler, callback
<1>1. ASSUME NEW n \in Nodes, Change(n) PROVE (FromPast(m) /\ Pipeline(m))'
  <2>1. value'[m] >= value[m]
    BY <1>0, <1>1, <1>a DEF Change, Types, TypeOK
  <2>2. QED
    BY <1>0, <1>1, <1>a, <2>1 DEF Change
<1>2. ASSUME NEW n \in Nodes, SampleItem(n) PROVE (FromPast(m) /\ Pipeline(m))'
  BY <1>0, <1>2, <1>a DEF SampleItem, Types, TypeOK
<1>3. CASE Monitor
  <2>1. Head(todo) \in Nodes
    BY <1>3 DEF Monitor, Types, TypeOK
  <2>2. msg[m] = None /\ last[m] = None
    BY <1>3 DEF Monitor, Types, StartInv, Nothing
  <2>3. \/ seen'[m] = seen[m] /\ sampled'[m] = sampled[m]
        \/ seen'[m] = value[m] /\ sampled'[m] = value[m]
    BY <1>3, <2>1 DEF Monitor, Types, TypeOK
  <2>4. QED
    BY <1>0, <1>3, <1>a, <2>2, <2>3 DEF Monitor
<1>4. CASE FirstRead
  <2>1. msg[m] = None /\ last[m] = None
    BY <1>4 DEF FirstRead, Types, StartInv, Nothing
  <2>2. \/ held'[m] = held[m] /\ first'[m] = first[m]
        \/ held'[m] = value[m] /\ first'[m] = value[m]
    BY <1>4 DEF FirstRead, Types, TypeOK
  <2>3. QED
    BY <1>0, <1>4, <1>a, <2>1, <2>2 DEF FirstRead
<1>5. CASE Start
  BY <1>0, <1>5, <1>a DEF Start
<1>6. ASSUME NEW n \in Nodes, Deliver(n) PROVE (FromPast(m) /\ Pipeline(m))'
  BY <1>0, <1>6, <1>a DEF Deliver, Types, TypeOK
<1>7. CASE FillEntry
  <2>1. map[cursor] \in Nodes
    BY <1>7 DEF FillEntry, Types, TypeOK
  <2>2. msg'[m] \in {msg[m], held[m], Untyped}
    BY <1>7, <2>1 DEF FillEntry, Types, TypeOK
  <2>3. QED
    BY <1>0, <1>7, <1>a, <2>2 DEF FillEntry
<1>8. CASE Publish
  BY <1>0, <1>8, <1>a DEF Publish, Types, TypeOK, Nothing
<1>9. CASE PublishThrows \/ ClientRace \/ BeginRead \/ EndRead \/ SkipRead
  BY <1>0, <1>9, <1>a DEF PublishThrows, ClientRace, BeginRead, EndRead, SkipRead
<1>10. CASE Reply \/ Refuse
  BY <1>0, <1>10, <1>a DEF Reply, Refuse, Nothing
<1>11. ASSUME NEW ids \in Requests, Ask(ids) PROVE (FromPast(m) /\ Pipeline(m))'
  BY <1>0, <1>11, <1>a DEF Ask
<1>12. CASE UNCHANGED vars
  BY <1>0, <1>12 DEF vars
<1>13. QED
  BY <1>1, <1>2, <1>3, <1>4, <1>5, <1>6, <1>7, <1>8, <1>9, <1>10, <1>11, <1>12
  DEF Next, Server, StartUp, MainLoop, Sampler, Callback

\* The answers made so far stay as they are while more changes are counted, and
\* each new one is made from a read of its own node.
LEMMA AnswersStep == Types /\ FlowInv /\ Answers /\ [Next]_vars => Answers'
<1> SUFFICES ASSUME Types, FlowInv, Answers, [Next]_vars PROVE Answers'
  OBVIOUS
<1> USE DEF Answers, AnswersOwnNode, AnswersNotBehindSamples, server, start, sampler, callback
<1>1. CASE UNCHANGED <<reply, before>>
  BY <1>1
<1>2. CASE Reply \/ Refuse
  BY <1>2 DEF Reply, Refuse
<1>3. ASSUME NEW ids \in Requests, Ask(ids) PROVE Answers'
  BY <1>3 DEF Ask, Types, CallbackInv
<1>4. ASSUME NEW e \in Entries, NEW read, reply' = Append(reply, AnswerFrom(e, read)), before' = before,
             Readable(e) /\ read.typed => e.id \in Nodes /\ read.node = e.id /\ read.value = value[e.id]
      PROVE  Answers'
  <2>1. /\ Len(reply') = Len(reply) + 1
        /\ \A k \in 1..Len(reply) : reply'[k] = reply[k]
        /\ reply'[Len(reply')] = AnswerFrom(e, read)
    BY <1>4 DEF Types, TypeOK
  <2>2. DOMAIN reply = 1..Len(reply) /\ DOMAIN reply' = 1..Len(reply')
    BY <1>4 DEF Types, TypeOK
  <2>3. e.id \in Nodes /\ before[e.id] \in Values => before[e.id] <= value[e.id]
    BY DEF FlowInv, FromPast
  <2>4. ASSUME NEW k \in DOMAIN reply', reply'[k].ok, Readable(reply'[k].entry)
        PROVE  /\ reply'[k].node = reply'[k].entry.id
               /\ reply'[k].entry.id \in Nodes /\ before'[reply'[k].entry.id] \in Values =>
                    reply'[k].value >= before'[reply'[k].entry.id]
    <3>1. CASE k \in 1..Len(reply)
      BY <1>4, <2>1, <2>2, <2>4, <3>1
    <3>2. CASE k = Len(reply')
      <4>1. reply'[k] = AnswerFrom(e, read)
        BY <2>1, <3>2
      <4>2. read.typed /\ Readable(e) /\ e.id \in Nodes
        BY <1>4, <2>4, <4>1 DEF AnswerFrom
      <4>3. value[e.id] \in Int /\ (before[e.id] \in Values => before[e.id] \in Int)
        BY <4>2, BoundsAssumption DEF Types, TypeOK, Values
      <4>4. QED
        BY <1>4, <2>3, <4>1, <4>2, <4>3 DEF AnswerFrom
    <3>3. QED
      BY <2>1, <2>2, <2>4, <3>1, <3>2 DEF Types, TypeOK
  <2>5. \A k : Readable(reply[k].entry)' <=> Readable(reply'[k].entry)
    BY DEF Readable
  <2>6. QED
    BY <2>4, <2>5
<1>5. CASE EndRead
  <2>1. Head(request) \in Entries
    BY <1>5 DEF EndRead, Types, TypeOK, CallbackInv
  <2>2. reply' = Append(reply, AnswerFrom(Head(request), opcreturn')) /\ before' = before
    BY <1>5 DEF EndRead
  <2>3. opcreturn'.typed => /\ Head(request).id \in Nodes /\ opcreturn'.node = Head(request).id
                            /\ opcreturn'.value = value[Head(request).id]
    BY <1>5 DEF EndRead, NoReturn
  <2>4. QED
    BY <1>4, <2>1, <2>2, <2>3
<1>6. CASE SkipRead
  <2>1. Head(request) \in Entries /\ ~Readable(Head(request))
    BY <1>6 DEF SkipRead, Types, TypeOK
  <2>2. reply' = Append(reply, AnswerFrom(Head(request), opcreturn)) /\ before' = before
    BY <1>6 DEF SkipRead
  <2>3. QED
    BY <1>4, <2>1, <2>2
<1>7. CASE Server \/ StartUp \/ MainLoop \/ Sampler
  BY <1>1, <1>7 DEF Server, Change, SampleItem, StartUp, Monitor, FirstRead, Start, MainLoop, Deliver,
                    Sampler, FillEntry, Publish, PublishThrows
<1>8. CASE BeginRead \/ ClientRace \/ UNCHANGED vars
  BY <1>1, <1>8 DEF BeginRead, ClientRace, vars
<1>9. QED
  BY <1>2, <1>3, <1>5, <1>6, <1>7, <1>8 DEF Next, Callback

-----------------------------------------------------------------------------
(* The theorems *)

IInv == Types /\ FlowInv /\ Answers

\* At the start nothing is read, published or asked.
LEMMA InitHolds == Init => IInv
<1> SUFFICES ASSUME Init PROVE IInv
  OBVIOUS
<1>1. running \in BOOLEAN /\ alive \in BOOLEAN /\ typed \in [Nodes -> BOOLEAN]
  BY DEF Init
<1>2. TypeOK
  BY <1>1, SampleIdsAssumption, ValuesTyped, ReturnsTyped DEF Init, TypeOK, Nothing
<1>3. CallbackInv /\ StartInv
  BY DEF Init, CallbackInv, StartInv
<1>4. FlowInv
  BY NamesAssumption, BoundsAssumption DEF Init, FlowInv, FromPast, Pipeline, NotAhead, Nothing, Values
<1>5. Answers
  BY DEF Init, Answers, AnswersOwnNode, AnswersNotBehindSamples
<1>6. QED
  BY <1>2, <1>3, <1>4, <1>5 DEF IInv, Types

\* The parts together are inductive.
LEMMA Inductive == Spec => []IInv
<1>1. IInv /\ [Next]_vars => IInv'
  BY TypeStep, FlowStep, AnswersStep DEF IInv
<1>2. QED
  BY InitHolds, <1>1, PTL DEF Spec

\* The types, for any nodes, changes and requests.
THEOREM TypeCorrect == Spec => []TypeOK
<1>1. IInv => TypeOK
  BY DEF IInv, Types
<1>2. QED
  BY Inductive, <1>1, PTL

\* An entry that is read is answered with the value of its own node or refused,
\* whatever was read before (QueryRequest::process).
THEOREM OwnNodeAnswered == Spec => []AnswersOwnNode
<1>1. IInv => AnswersOwnNode
  BY DEF IInv, Answers
<1>2. QED
  BY Inductive, <1>1, PTL

\* The answer to an entry that is read is never older than what had been published
\* of its node when the request arrived (QueryRequest::process, sample).
THEOREM NotBehindSamples == Spec => []AnswersNotBehindSamples
<1>1. IInv => AnswersNotBehindSamples
  BY DEF IInv, Answers
<1>2. QED
  BY Inductive, <1>1, PTL

\* For any nodes and changes, the samples of a node only go back from the read at
\* the start, which may be ahead of the item (handler_DataChanged, sample).
THEOREM SamplesOrdered == Spec => SamplesInOrder
<1>1. IInv /\ [Next]_vars =>
        \A n \in Nodes : last[n] \in Values /\ last'[n] \in Values => last'[n] >= last[n] \/ last[n] = first[n]
  <2> SUFFICES ASSUME IInv, [Next]_vars, NEW n \in Nodes, last[n] \in Values, last'[n] \in Values
               PROVE  last'[n] >= last[n] \/ last[n] = first[n]
    OBVIOUS
  <2>1. \A v \in Values : v \in Int
    BY BoundsAssumption DEF Values
  <2>2. CASE Publish
    <3>1. last'[n] \in {last[n], msg[n]}
      BY <2>2 DEF Publish
    <3>2. NotAhead(n, last[n], msg[n])
      BY DEF IInv, FlowInv, Pipeline
    <3>3. QED
      BY <2>1, <3>1, <3>2 DEF NotAhead
  <2>3. CASE ~Publish
    <3>1. last' = last
      BY <2>3 DEF Next, Server, Change, SampleItem, StartUp, Monitor, FirstRead, Start, MainLoop, Deliver,
                  Sampler, FillEntry, PublishThrows, Callback, BeginRead, EndRead, SkipRead, Refuse, Reply,
                  ClientRace, Ask, vars, server, start, sampler, callback
    <3>2. QED
      BY <2>1, <3>1
  <2>4. QED
    BY <2>2, <2>3
<1>2. QED
  BY Inductive, <1>1, PTL DEF Spec, SamplesInOrder
=============================================================================
