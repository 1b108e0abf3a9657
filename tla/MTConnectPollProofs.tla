-------------------------- MODULE MTConnectPollProofs --------------------------
(***************************************************************************)
(* Proofs about MTConnectPoll, for any number of channels, queries, faults *)
(* and versions: what may end the adapter, and that a poll given up half   *)
(* way leaves the channels in order.                                       *)
(***************************************************************************)
EXTENDS MTConnectPoll, TLAPS

Steps == {"idle", "address", "get", "wait", "connect", "publish", "answer", "sleep"}
Ends == {"no", "loop", "query", "race", "session", "flows"}

TypeOK ==
  /\ pc \in [Threads -> Steps]
  /\ torn \subseteq Threads
  /\ body \in [Threads -> Nat]
  /\ next \in 1..NumChannels \/ NumChannels = 0
  /\ ended \in Ends /\ form \in {"sound", "idless"}
  /\ version \in Nat
  /\ agent \in {"ok", "error", "silent"}
  /\ link \in BOOLEAN
  /\ last \in [Channels -> Nat]
  /\ started \in BOOLEAN /\ overlapped \in BOOLEAN
  /\ unanswered \in BOOLEAN /\ malformed \in BOOLEAN

-----------------------------------------------------------------------------
(* What ends the adapter *)

\* The connection object can only be destroyed under a thread when two requests
\* overlap, only a silent agent leaves a request without a response, and only a
\* malformed request has an entry without an id.
EndInv ==
  /\ (\A t \in Threads : pc[t] \in InRequest) => overlapped
  /\ torn # {} => overlapped
  /\ agent = "silent" => unanswered
  /\ form # "sound" => malformed
  /\ At("loop", "connect") => ~started
  /\ EndsOnlyBy

-----------------------------------------------------------------------------
(* The order of the channels *)

\* The poll under way is at least as new as all that was published, and the
\* channels before the next one have it.
PollInv ==
  /\ \A t \in Threads : body[t] <= version
  /\ \A c \in Channels : last[c] <= version
  /\ At("loop", "publish") =>
       /\ next \in Channels
       /\ \A c \in Channels : last[c] <= body["loop"]
       /\ \A c \in Channels : c < next => last[c] = body["loop"]
  /\ FirstChannelsLead

-----------------------------------------------------------------------------
\* Every variable keeps its type.
LEMMA TypeStep == TypeOK /\ [Next]_vars => TypeOK'
<1> SUFFICES ASSUME TypeOK, [Next]_vars PROVE TypeOK'
  OBVIOUS
<1> USE BoundsAssumption
    DEF TypeOK, Steps, Ends, Threads, Channels, At, Goto, Ask, End, Others, process, world, history
<1>1. ASSUME NEW t \in Threads, Request(t) PROVE TypeOK'
  <2>1. CASE SetAddress(t)
    BY <2>1 DEF SetAddress
  <2>2. CASE Get(t)
    BY <2>2 DEF Get
  <2>3. CASE Fetched(t)
    BY <2>3 DEF Fetched
  <2>4. CASE Refused(t)
    BY <2>4 DEF Refused
  <2>5. CASE NoResponse(t)
    BY <2>5 DEF NoResponse
  <2>6. QED
    BY <1>1, <2>1, <2>2, <2>3, <2>4, <2>5 DEF Request
<1>2. CASE Begin \/ BeginThrows \/ Poll \/ Publish \/ PublishThrows
  <2>1. CASE Begin
    BY <2>1 DEF Begin
  <2>2. CASE BeginThrows
    BY <2>2 DEF BeginThrows
  <2>3. CASE Poll
    BY <2>3 DEF Poll
  <2>4. CASE Publish
    <3>1. last' \in [Channels -> Nat]
      BY <2>4 DEF Publish
    <3>2. next' \in 1..NumChannels \/ NumChannels = 0
      BY <2>4 DEF Publish
    <3>3. pc' \in [Threads -> Steps]
      BY <2>4 DEF Publish
    <3>4. QED
      BY <2>4, <3>1, <3>2, <3>3 DEF Publish
  <2>5. CASE PublishThrows
    BY <2>5 DEF PublishThrows
  <2>6. QED
    BY <1>2, <2>1, <2>2, <2>3, <2>4, <2>5
<1>3. CASE (\E f \in {"sound", "idless"} : Arrive(f)) \/ Unparsable \/ Answer \/ OtherThreads
  <2>1. CASE \E f \in {"sound", "idless"} : Arrive(f)
    BY <2>1 DEF Arrive
  <2>2. CASE Unparsable \/ Answer
    BY <2>2 DEF Unparsable, Answer
  <2>3. CASE OtherThreads
    BY <2>3 DEF OtherThreads, SessionEnds, FlowsEnd
  <2>4. QED
    BY <1>3, <2>1, <2>2, <2>3
<1>4. CASE World
  <2>1. CASE Change
    BY <2>1 DEF Change
  <2>2. CASE Fault
    BY <2>2 DEF Fault
  <2>3. CASE Recover
    BY <2>3 DEF Recover
  <2>4. CASE Connect
    BY <2>4 DEF Connect
  <2>5. CASE Disconnect
    BY <2>5 DEF Disconnect
  <2>6. QED
    BY <1>4, <2>1, <2>2, <2>3, <2>4, <2>5 DEF World
<1>5. CASE \E t \in Threads : RaceKills(t)
  BY <1>5 DEF RaceKills
<1>6. CASE UNCHANGED vars
  BY <1>6 DEF vars
<1>7. QED
  BY <1>1, <1>2, <1>3, <1>4, <1>5, <1>6 DEF Next, Loop, Callback

-----------------------------------------------------------------------------
\* Only what EndInv names ends the process, step by step.
LEMMA EndStep == TypeOK /\ EndInv /\ [Next]_vars => EndInv'
<1> SUFFICES ASSUME TypeOK, EndInv, [Next]_vars PROVE EndInv'
  OBVIOUS
<1> USE DEF TypeOK, EndInv, EndsOnlyBy, InRequest, Threads, At, Goto, Ask, End, alive, Others, process,
            world, history
<1>1. ASSUME NEW t \in Threads, Request(t) PROVE EndInv'
  <2>1. CASE SetAddress(t)
    BY <2>1 DEF SetAddress
  <2>2. CASE Get(t)
    BY <2>2 DEF Get
  <2>3. CASE Fetched(t)
    BY <2>3 DEF Fetched
  <2>4. CASE Refused(t)
    BY <2>4 DEF Refused
  <2>5. CASE NoResponse(t)
    BY <2>5 DEF NoResponse
  <2>6. QED
    BY <1>1, <2>1, <2>2, <2>3, <2>4, <2>5 DEF Request
<1>2. CASE Begin \/ BeginThrows \/ Poll \/ Publish \/ PublishThrows
  <2>1. CASE Begin
    BY <2>1 DEF Begin
  <2>2. CASE BeginThrows
    BY <2>2 DEF BeginThrows
  <2>3. CASE Poll
    BY <2>3 DEF Poll
  <2>4. CASE Publish
    BY <2>4 DEF Publish
  <2>5. CASE PublishThrows
    BY <2>5 DEF PublishThrows
  <2>6. QED
    BY <1>2, <2>1, <2>2, <2>3, <2>4, <2>5
<1>3. CASE (\E f \in {"sound", "idless"} : Arrive(f)) \/ Unparsable \/ Answer \/ OtherThreads
  <2>1. ASSUME NEW f \in {"sound", "idless"}, Arrive(f) PROVE EndInv'
    <3>1. /\ pc' = [pc EXCEPT !["query"] = "address"] /\ form' = f
          /\ UNCHANGED <<torn, ended, agent, link, started, unanswered>> /\ ended = "no"
      BY <2>1 DEF Arrive
    <3>2. overlapped' = (overlapped \/ \E u \in Threads \ {"query"} : pc[u] \in InRequest)
      BY <2>1 DEF Arrive
    <3>3. malformed' = (malformed \/ f # "sound")
      BY <2>1 DEF Arrive
    <3>4. (\A t \in Threads : pc'[t] \in InRequest) => overlapped'
      BY <3>1, <3>2
    <3>5. torn' # {} => overlapped'
      BY <3>1, <3>2
    <3>6. form' # "sound" => malformed'
      BY <3>1, <3>3
    <3>7. pc'["loop"] = "connect" => ~started'
      BY <3>1
    <3>8. QED
      BY <3>1, <3>4, <3>5, <3>6, <3>7
  <2>2. CASE Unparsable
    BY <2>2 DEF Unparsable
  <2>3. CASE Answer
    BY <2>3 DEF Answer
  <2>4. CASE OtherThreads
    BY <2>4 DEF OtherThreads, SessionEnds, FlowsEnd
  <2>5. QED
    BY <1>3, <2>1, <2>2, <2>3, <2>4
<1>4. CASE World
  <2>1. CASE Change \/ Recover
    BY <2>1 DEF Change, Recover
  <2>2. CASE Fault
    BY <2>2 DEF Fault
  <2>3. CASE Connect \/ Disconnect
    BY <2>3 DEF Connect, Disconnect
  <2>4. QED
    BY <1>4, <2>1, <2>2, <2>3 DEF World
<1>5. CASE \E t \in Threads : RaceKills(t)
  BY <1>5 DEF RaceKills
<1>6. CASE UNCHANGED vars
  BY <1>6 DEF vars
<1>7. QED
  BY <1>1, <1>2, <1>3, <1>4, <1>5, <1>6 DEF Next, Loop, Callback

\* A poll publishes one version on the channels in turn: step by step.
LEMMA PollStep == TypeOK /\ PollInv /\ [Next]_vars => PollInv'
<1> SUFFICES ASSUME TypeOK, PollInv, [Next]_vars PROVE PollInv'
  OBVIOUS
<1> USE BoundsAssumption
    DEF TypeOK, PollInv, FirstChannelsLead, Threads, Channels, At, Goto, Ask, End, Others, process, world,
        history
<1>1. ASSUME NEW t \in Threads, Request(t) PROVE PollInv'
  <2>1. CASE SetAddress(t)
    BY <2>1 DEF SetAddress
  <2>2. CASE Get(t)
    BY <2>2 DEF Get
  <2>3. CASE Fetched(t)
    BY <2>3 DEF Fetched
  <2>4. CASE Refused(t)
    BY <2>4 DEF Refused
  <2>5. CASE NoResponse(t)
    BY <2>5 DEF NoResponse
  <2>6. QED
    BY <1>1, <2>1, <2>2, <2>3, <2>4, <2>5 DEF Request
<1>2. CASE Publish
  <2>1. next \in Channels /\ At("loop", "publish") /\ body["loop"] \in Nat
    BY <1>2 DEF Publish
  <2>2. last' = [last EXCEPT ![next] = body["loop"]] /\ UNCHANGED <<body, version>>
    BY <1>2 DEF Publish
  <2>3. \A c \in Channels : last'[c] = IF c = next THEN body["loop"] ELSE last[c]
    BY <2>2
  <2>4. FirstChannelsLead'
    BY <2>1, <2>3
  <2>5. CASE next = NumChannels
    BY <1>2, <2>1, <2>2, <2>3, <2>4, <2>5 DEF Publish
  <2>6. CASE next # NumChannels
    <3>1. next' = next + 1 /\ next' \in Channels
      BY <1>2, <2>1, <2>6 DEF Publish
    <3>2. \A c \in Channels : c < next' => last'[c] = body["loop"]
      BY <2>1, <2>3, <3>1
    <3>3. QED
      BY <2>1, <2>2, <2>3, <2>4, <3>1, <3>2
  <2>7. QED
    BY <2>5, <2>6
<1>3. CASE Begin \/ BeginThrows \/ Poll \/ PublishThrows
  BY <1>3 DEF Begin, BeginThrows, Poll, PublishThrows
<1>4. CASE (\E f \in {"sound", "idless"} : Arrive(f)) \/ Unparsable \/ Answer \/ OtherThreads
  BY <1>4 DEF Arrive, Unparsable, Answer, OtherThreads, SessionEnds, FlowsEnd
<1>5. CASE World
  <2>1. CASE Change
    BY <2>1 DEF Change
  <2>2. CASE Fault \/ Recover \/ Connect \/ Disconnect
    BY <2>2 DEF Fault, Recover, Connect, Disconnect
  <2>3. QED
    BY <1>5, <2>1, <2>2 DEF World
<1>6. CASE \E t \in Threads : RaceKills(t)
  BY <1>6 DEF RaceKills
<1>7. CASE UNCHANGED vars
  BY <1>7 DEF vars
<1>8. QED
  BY <1>1, <1>2, <1>3, <1>4, <1>5, <1>6, <1>7 DEF Next, Loop, Callback

-----------------------------------------------------------------------------
\* All of it holds at the start.
LEMMA InitHolds == Init => TypeOK /\ EndInv /\ PollInv
<1> SUFFICES ASSUME Init PROVE TypeOK /\ EndInv /\ PollInv
  OBVIOUS
<1>1. TypeOK
  <2>1. link \in BOOLEAN /\ started \in BOOLEAN /\ overlapped \in BOOLEAN
        /\ unanswered \in BOOLEAN /\ malformed \in BOOLEAN
    BY DEF Init
  <2>2. QED
    BY <2>1, BoundsAssumption DEF Init, TypeOK, Steps, Ends, Threads, Channels
<1>2. EndInv
  BY DEF Init, EndInv, EndsOnlyBy, Threads, InRequest, At
<1>3. PollInv
  BY BoundsAssumption DEF Init, PollInv, FirstChannelsLead, Threads, Channels, At
<1>4. QED
  BY <1>1, <1>2, <1>3

\* A poll that fails after the start never ends the adapter: the loop does for
\* want of a response, the callback of a Query for that, for a malformed request
\* or for an answer that finds the link down, and both together for requests at
\* once (MTConnectAdapter.cpp:58-165, QueryRequest.cpp:10-44).
THEOREM OnlyTheseEnd == Spec => []EndsOnlyBy
<1>1. TypeOK /\ EndInv /\ [Next]_vars => TypeOK' /\ EndInv'
  BY TypeStep, EndStep
<1>2. EndInv => EndsOnlyBy
  BY DEF EndInv
<1>3. QED
  BY InitHolds, <1>1, <1>2, PTL DEF Spec

\* For any number of channels, no channel is ever ahead of one before it,
\* wherever the link is lost in a poll (MTConnectAdapter.cpp:127-165).
THEOREM ChannelsInOrder == Spec => []FirstChannelsLead
<1>1. TypeOK /\ PollInv /\ [Next]_vars => TypeOK' /\ PollInv'
  BY TypeStep, PollStep
<1>2. PollInv => FirstChannelsLead
  BY DEF PollInv
<1>3. QED
  BY InitHolds, <1>1, <1>2, PTL DEF Spec
=============================================================================
