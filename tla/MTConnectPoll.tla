----------------------------- MODULE MTConnectPoll -----------------------------
(***************************************************************************)
(* The polling of the MTConnect adapter (MTConnectAdapter.cpp): a loop     *)
(* fetches the current document of the agent and publishes it on every     *)
(* sample channel, while the MQTT callback thread answers Query requests   *)
(* (QueryRequest.cpp) with a document it fetches over the same httpClient. *)
(* The session of the callbacks and the threads of FlowCollection.cpp are  *)
(* here only as what may end the process as well.                          *)
(*                                                                         *)
(* set_address gives httpClient a new connection object and destroys the   *)
(* old one, whoever may be waiting on it; requests on one object take      *)
(* turns. A request without a response returns an empty result, which is   *)
(* dereferenced. A document is its version: the agent's data only change   *)
(* forwards.                                                               *)
(***************************************************************************)
EXTENDS Integers

CONSTANTS
  NumChannels,  \* the channels of all devices, in the order of the model
  MaxVersion,   \* bound: versions of the agent's data
  MaxQueries,   \* bound: Query requests
  MaxFaults     \* bound: faults of the agent, and losses of the link

ASSUME BoundsAssumption ==
  /\ NumChannels \in Nat /\ MaxVersion \in Nat /\ MaxQueries \in Nat /\ MaxFaults \in Nat

Threads == {"loop", "query"}
Channels == 1..NumChannels
InRequest == {"address", "get", "wait"}

VARIABLES
  pc,          \* what each thread is doing
  torn,        \* threads that wait on a connection object that was destroyed
  body,        \* the version each thread fetched; 0: the status was not 200
  next,        \* the channel the loop publishes next
  ended,       \* "no": the process runs; else what ended it, see End
  form,        \* the Query under way: "sound", or "idless": an entry has no id
  version,     \* the agent's data
  agent,       \* "ok", "error": a status other than 200, "silent": no response
  link,        \* the MQTT connection is up
  faults,      \* faults of the agent and losses of the link
  queries,     \* Query requests that arrived
  last,        \* history: the version last published on each channel
  started,     \* history: the callbacks' session and the flow threads run
  overlapped,  \* history: a request began while the other thread was in one
  unanswered,  \* history: the agent has been silent
  malformed    \* history: a request was no JSON text or lacked an id

process == <<pc, torn, body, next, ended, form>>
world == <<version, agent, link, faults>>
history == <<queries, last, started, overlapped, unanswered, malformed>>
vars == <<process, world, history>>

Init ==
  /\ pc = [t \in Threads |-> IF t = "loop" THEN "address" ELSE "idle"]
  /\ torn = {} /\ body = [t \in Threads |-> 0] /\ next = 1
  /\ ended = "no" /\ form = "sound"
  /\ version = 1 /\ agent = "ok" /\ link = FALSE /\ faults = 0
  /\ queries = 0 /\ last = [c \in Channels |-> 0]
  /\ started = FALSE /\ overlapped = FALSE /\ unanswered = FALSE /\ malformed = FALSE

At(t, step) == pc[t] = step
Goto(t, step) == pc' = [pc EXCEPT ![t] = step]
Others(t) == Threads \ {t}
alive == ended = "no"

\* The process ends in a thread, "loop" or "query", by a "race" of the two, in
\* the callbacks' "session" or in the threads of the "flows".
End(by) == ended' = by

\* A thread turns to the agent.
Ask(t) ==
  /\ Goto(t, "address")
  /\ overlapped' = (overlapped \/ \E u \in Others(t) : pc[u] \in InRequest)

-----------------------------------------------------------------------------
(* Faulty variants of the definitions that follow. *)

\* A status other than 200 ends the process, as it does at the start.
RefusedExits(t) ==
  /\ alive /\ At(t, "wait") /\ agent = "error"
  /\ End(t)
  /\ UNCHANGED <<pc, torn, body, next, form, world, history>>

\* The exception is caught for each channel.
PublishThrowsAlone ==
  /\ alive /\ At("loop", "publish") /\ ~link
  /\ next' = IF next = NumChannels THEN 1 ELSE next + 1
  /\ IF next = NumChannels THEN Goto("loop", "sleep") ELSE UNCHANGED pc
  /\ UNCHANGED <<torn, body, ended, form, world, history>>

\* The exception is caught outside of the loop.
PublishThrowsOut ==
  /\ alive /\ At("loop", "publish") /\ ~link
  /\ Goto("loop", "ended")
  /\ UNCHANGED <<torn, body, next, ended, form, world, history>>

-----------------------------------------------------------------------------
(* A request to the agent, by either thread *)

\* The connection object is replaced; the other thread may be waiting on it.
SetAddress(t) ==
  /\ alive /\ At(t, "address")
  /\ torn' = torn \cup {u \in Others(t) : At(u, "wait")}
  /\ Goto(t, "get")
  /\ UNCHANGED <<body, next, ended, form, world, history>>

\* Requests on one object take turns.
Get(t) ==
  /\ alive /\ At(t, "get")
  /\ \A u \in Others(t) : At(u, "wait") => u \in torn
  /\ Goto(t, "wait")
  /\ UNCHANGED <<torn, body, next, ended, form, world, history>>

\* A document came: the loop publishes it, the callback answers with it. The
\* first document is the model.
Fetched(t) ==
  /\ alive /\ At(t, "wait") /\ agent = "ok"
  /\ body' = [body EXCEPT ![t] = version]
  /\ torn' = torn \ {t}
  /\ Goto(t, CASE t = "query"                 -> "answer"
               [] t = "loop" /\ ~started     -> "connect"
               [] t = "loop" /\ started /\ Channels # {} -> "publish"
               [] OTHER                       -> "sleep")
  /\ next' = IF t = "loop" THEN 1 ELSE next
  /\ UNCHANGED <<ended, form, world, history>>

\* The status is not 200: the loop goes on, Query answers with nulls, and at the
\* start the process exits.
Refused(t) ==
  /\ alive /\ At(t, "wait") /\ agent = "error"
  /\ body' = [body EXCEPT ![t] = 0]
  /\ torn' = torn \ {t}
  /\ Goto(t, IF t = "query" THEN "answer" ELSE "sleep")
  /\ IF started THEN UNCHANGED ended ELSE End("loop")
  /\ UNCHANGED <<next, form, world, history>>

\* Nothing came: the empty result is dereferenced, which no handler catches.
NoResponse(t) ==
  /\ alive /\ At(t, "wait") /\ agent = "silent"
  /\ End(t)
  /\ UNCHANGED <<pc, torn, body, next, form, world, history>>

\* The object is destroyed under a thread that waits on it or is replacing it.
RaceKills(t) ==
  /\ alive
  /\ \/ t \in torn
     \/ At(t, "address") /\ \E u \in Others(t) : pc[u] \in InRequest
  /\ End("race")
  /\ UNCHANGED <<pc, torn, body, next, form, world, history>>

Request(t) == SetAddress(t) \/ Get(t) \/ Fetched(t) \/ Refused(t) \/ NoResponse(t)

-----------------------------------------------------------------------------
(* The loop *)

\* The first attempt to connect starts the session, and the flow threads after
\* it; when it throws, the process exits.
Begin ==
  /\ alive /\ At("loop", "connect")
  /\ Goto("loop", "sleep")
  /\ started' = TRUE
  /\ UNCHANGED <<torn, body, next, ended, form, world, queries, last, overlapped, unanswered,
                 malformed>>

BeginThrows ==
  /\ alive /\ At("loop", "connect")
  /\ End("loop")
  /\ UNCHANGED <<pc, torn, body, next, form, world, history>>

Poll ==
  /\ alive /\ At("loop", "sleep")
  /\ Ask("loop")
  /\ UNCHANGED <<torn, body, next, ended, form, world, queries, last, started, unanswered,
                 malformed>>

Publish ==
  /\ alive /\ At("loop", "publish") /\ link
  /\ last' = [last EXCEPT ![next] = body["loop"]]
  /\ next' = IF next = NumChannels THEN 1 ELSE next + 1
  /\ IF next = NumChannels THEN Goto("loop", "sleep") ELSE UNCHANGED pc
  /\ UNCHANGED <<torn, body, ended, form, world, queries, started, overlapped, unanswered,
                 malformed>>

\* Offline, publish throws; the rest of this poll is given up.
PublishThrows ==
  /\ alive /\ At("loop", "publish") /\ ~link
  /\ Goto("loop", "sleep")
  /\ UNCHANGED <<torn, body, next, ended, form, world, history>>

-----------------------------------------------------------------------------
(* Query *)

Arrive(f) ==
  /\ alive /\ At("query", "idle") /\ started /\ link /\ queries < MaxQueries
  /\ queries' = queries + 1
  /\ Ask("query")
  /\ form' = f
  /\ malformed' = (malformed \/ f # "sound")
  /\ UNCHANGED <<torn, body, next, ended, world, last, started, unanswered>>

\* What is no JSON text, in a Query or another request, is an exception that no
\* handler catches.
Unparsable ==
  /\ alive /\ At("query", "idle") /\ started /\ link
  /\ End("query")
  /\ malformed' = TRUE
  /\ UNCHANGED <<pc, torn, body, next, form, world, queries, last, started, overlapped,
                 unanswered>>

\* So is an entry without an id, which is found when the answer is put together,
\* and an answer that message_arrived cannot publish.
Answer ==
  /\ alive /\ At("query", "answer")
  /\ IF form = "sound" /\ link
     THEN Goto("query", "idle") /\ UNCHANGED ended
     ELSE End("query") /\ UNCHANGED pc
  /\ form' = "sound"
  /\ UNCHANGED <<torn, body, next, world, history>>

-----------------------------------------------------------------------------
(* The other threads, each of which ends the process by an exception or an exit
   of its own (MqttSession, FlowCollection)                                   *)

\* Attempts to connect that fail too often, or throw, and a subscription, or the
\* answer to a request other than Query, that finds the link lost again.
SessionEnds ==
  /\ alive /\ started /\ ~link
  /\ End("session")
  /\ UNCHANGED <<pc, torn, body, next, form, world, history>>

\* The flows' file is no JSON text, or the upload finds the link down.
FlowsEnd ==
  /\ alive /\ started
  /\ End("flows")
  /\ UNCHANGED <<pc, torn, body, next, form, world, history>>

-----------------------------------------------------------------------------
(* The agent and the broker, while the process runs *)

Change ==
  /\ alive /\ version < MaxVersion
  /\ version' = version + 1
  /\ UNCHANGED <<process, agent, link, faults, history>>

Fault ==
  /\ alive /\ agent = "ok" /\ faults < MaxFaults
  /\ faults' = faults + 1
  /\ agent' \in {"error", "silent"}
  /\ unanswered' = (unanswered \/ agent' = "silent")
  /\ UNCHANGED <<process, version, link, queries, last, started, overlapped, malformed>>

Recover ==
  /\ alive /\ agent # "ok"
  /\ agent' = "ok"
  /\ UNCHANGED <<process, version, link, faults, history>>

\* The session of the callbacks (MqttSession) connects once it is started.
Connect ==
  /\ alive /\ ~link /\ started
  /\ link' = TRUE
  /\ UNCHANGED <<process, version, agent, faults, history>>

Disconnect ==
  /\ alive /\ link /\ faults < MaxFaults
  /\ faults' = faults + 1
  /\ link' = FALSE
  /\ UNCHANGED <<process, version, agent, history>>

-----------------------------------------------------------------------------
Loop == Request("loop") \/ Begin \/ BeginThrows \/ Poll \/ Publish \/ PublishThrows
Callback ==
  Request("query") \/ (\E f \in {"sound", "idless"} : Arrive(f)) \/ Unparsable \/ Answer
World == Change \/ Fault \/ Recover \/ Connect \/ Disconnect
OtherThreads == SessionEnds \/ FlowsEnd

Next == Loop \/ Callback \/ World \/ OtherThreads \/ \E t \in Threads : RaceKills(t)

Spec == Init /\ [][Next]_vars

\* The threads go on, and a request ends: its reads have timeouts. Nothing is
\* asked of the agent and the broker.
FairSpec == Spec /\ WF_vars(Loop) /\ WF_vars(Request("query") \/ Answer)

-----------------------------------------------------------------------------
(* Properties *)

\* Neither thread ends the adapter for less than this. The loop: a request that
\* got no response, or an error before the session was started; not a poll that
\* the agent refused or that could not be published. The callback of a Query: no
\* response, a malformed request, or an answer that finds the link down. The two
\* together: requests at once (MTConnectAdapter.cpp:58-165, QueryRequest.cpp:10-44).
EndsOnlyBy ==
  /\ ended = "loop" => unanswered \/ ~started
  /\ ended = "query" => unanswered \/ malformed \/ (At("query", "answer") /\ ~link)
  /\ ended = "race" => overlapped

\* Channels are published in the order of the model, and a poll that fails is
\* given up as a whole: no channel is ever ahead of one before it, whenever the
\* link comes and goes (MTConnectAdapter.cpp:127-165).
FirstChannelsLead ==
  \A c, d \in Channels : c < d => last[c] >= last[d]

\* Once agent and link stay up, each version is published on every channel, or a
\* newer one in its place, unless the process ended.
NewestPublished ==
  <>[](agent = "ok" /\ link) =>
    \A c \in Channels, v \in 1..MaxVersion : (version = v) ~> (last[c] >= v \/ ~alive)
=============================================================================
