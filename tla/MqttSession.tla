----------------------------- MODULE MqttSession -----------------------------
(***************************************************************************)
(* The MQTT session of an adapter (CallBack.cpp): connecting, subscribing, *)
(* dispatching requests and reconnecting, next to the threads that publish *)
(* samples on a timer (Sample.cpp, FlowCollection.cpp).                    *)
(*                                                                         *)
(* The client library runs the callbacks one after the other on a thread   *)
(* of its own; publish and subscribe throw while it is not connected, and  *)
(* an exception that leaves a callback or a thread ends the process:       *)
(* connect may throw too, which the callers catch and exit. The broker     *)
(* starts every session clean: no subscription survives a loss.            *)
(*                                                                         *)
(* A request is sound, or faulty: one at which a handler that parses it    *)
(* throws, since its text is no JSON, lacks a field, has a value of        *)
(* another type, or asks for a model file that cannot be parsed. What the  *)
(* handlers do with it is in ModbusRequests, OpcUaClient and MTConnectPoll.*)
(***************************************************************************)
EXTENDS Naturals, FiniteSets

CONSTANTS
  Topics,       \* keys of subscribe_method_qos
  Handled,      \* keys of processJsonMap
  Answered,     \* keys of requestResponseTopicMap
  Parsing,      \* topics whose handler parses the request and does not catch
  Publishers,   \* threads that publish on a timer
  Guarded,      \* those that catch the exceptions of publish
  MaxRetry,     \* the 5 of on_failure
  MaxLosses,    \* bound: connections lost
  MaxRequests   \* bound: requests sent by the clients

ASSUME PublishersAssumption == Guarded \subseteq Publishers
ASSUME BoundsAssumption == MaxRetry \in Nat /\ MaxLosses \in Nat /\ MaxRequests \in Nat

VARIABLES
  status,    \* starting, running, exited (by exit), terminated (uncaught exception)
  link,      \* connecting, up, down: the client's view of the connection
  lost,      \* the library has a lost connection to report
  cb,        \* what the callback thread is doing
  todo,      \* connected(): topics it has still to subscribe to
  topic,     \* message_arrived(): the topic of the request being answered
  nretry,    \* _nretry
  topicMap,  \* full topics known to dispatch, here their prefixes
  subs,      \* broker: the topics of this session
  inbox,     \* broker: requests on their way to the client, per topic and form
  replies,   \* history: replies published, per topic
  requests,  \* history: requests that reached the client, per topic
  refusals,  \* history: attempts refused since the last success or loss
  losses,    \* history: connections lost
  asked,     \* history: requests sent
  faults,    \* history: topics of which a faulty request reached the client
  thrown     \* history: connect threw

connection == <<link, lost>>
client == <<status, cb, todo, topic, nretry, topicMap>>
broker == <<subs, inbox>>
history == <<replies, requests, refusals, losses, asked, faults, thrown>>
vars == <<client, connection, broker, history>>

NoTopic == "none"
ASSUME NoTopicAssumption == NoTopic \notin Topics
Callbacks == {"idle", "sleep", "subscribe", "register", "version", "reply"}
Forms == {"sound", "faulty"}

TypeOK ==
  /\ status \in {"starting", "running", "exited", "terminated"}
  /\ link \in {"connecting", "up", "down"}
  /\ lost \in BOOLEAN
  /\ cb \in Callbacks
  /\ todo \subseteq Topics
  /\ topic \in Topics \cup {NoTopic}
  /\ nretry \in 0..(MaxRetry + 1)
  /\ topicMap \subseteq Topics
  /\ subs \subseteq Topics
  /\ inbox \in [Topics \X Forms -> 0..MaxRequests]
  /\ replies \in [Topics -> 0..MaxRequests]
  /\ requests \in [Topics -> 0..MaxRequests]
  /\ refusals \in 0..(MaxRetry + 1)
  /\ losses \in 0..MaxLosses
  /\ asked \in 0..MaxRequests
  /\ faults \subseteq Topics
  /\ thrown \in BOOLEAN

NoRequests == [t \in Topics |-> 0]
EmptyInbox == [r \in Topics \X Forms |-> 0]

\* init() has yet to connect.
Init ==
  /\ status = "starting" /\ link = "down" /\ lost = FALSE /\ cb = "idle"
  /\ todo = {} /\ topic = NoTopic /\ nretry = 0 /\ topicMap = {}
  /\ subs = {} /\ inbox = EmptyInbox
  /\ replies = NoRequests /\ requests = NoRequests
  /\ refusals = 0 /\ losses = 0 /\ asked = 0 /\ faults = {} /\ thrown = FALSE

Running == status = "running"

\* A call of the library that needs the connection: done, or thrown.
Online(done) ==
  IF link = "up" THEN done
  ELSE status' = "terminated" /\ UNCHANGED <<cb, todo, topic, nretry, topicMap, broker, history>>

\* Dispatch on the prefix that topicMap holds for the topic: a topic it does
\* not know, or a prefix without a handler, calls a null pointer; a handler that
\* parses throws at a faulty request.
Returns(t, f) ==
  /\ t \in topicMap \cap Handled
  /\ f = "faulty" => t \notin Parsing

-----------------------------------------------------------------------------
(* Faulty variants of the definitions that follow. *)

\* connection_lost() goes on counting where it was.
ConnectionLostCounts ==
  /\ Running /\ cb = "idle" /\ lost
  /\ lost' = FALSE
  /\ cb' = "sleep"
  /\ UNCHANGED <<status, todo, topic, nretry, topicMap, link, broker, history>>

\* The subscriptions are believed to survive a loss: only new topics are sent.
AcceptedTrusting ==
  /\ Running /\ cb = "idle" /\ link = "connecting"
  /\ link' = "up" /\ subs' = {}
  /\ cb' = "subscribe" /\ todo' = Topics \ topicMap
  /\ refusals' = 0
  /\ UNCHANGED <<lost, status, topic, nretry, topicMap, inbox, replies, requests, losses, asked, faults, thrown>>

\* A request that maps to no response is answered all the same.
ArriveAnswers(t, f) ==
  /\ Running /\ cb = "idle" /\ link = "up" /\ inbox[<<t, f>>] > 0
  /\ inbox' = [inbox EXCEPT ![<<t, f>>] = @ - 1]
  /\ requests' = [requests EXCEPT ![t] = @ + 1]
  /\ faults' = IF f = "faulty" THEN faults \cup {t} ELSE faults
  /\ status' = IF Returns(t, f) THEN status ELSE "terminated"
  /\ cb' = "reply" /\ topic' = t
  /\ UNCHANGED <<todo, nretry, topicMap, connection, subs, replies, refusals, losses, asked, thrown>>

\* connected() forgets what to dispatch to.
SubscribeForgets ==
  /\ Running /\ cb = "subscribe"
  /\ Online(IF todo = {}
            THEN cb' = "register" /\ UNCHANGED <<status, todo, topic, nretry, topicMap, broker, history>>
            ELSE \E t \in todo :
                   /\ todo' = todo \ {t}
                   /\ subs' = subs \cup {t}
                   /\ UNCHANGED <<status, cb, topic, nretry, topicMap, inbox, history>>)
  /\ UNCHANGED connection

\* The number of attempts is not limited.
RefusedForever ==
  /\ Running /\ cb = "idle" /\ link = "connecting"
  /\ link' = "down"
  /\ refusals' = refusals + 1
  /\ nretry' = nretry + 1
  /\ cb' = "sleep"
  /\ UNCHANGED <<lost, status, todo, topic, topicMap, broker, replies, requests, losses, asked, faults, thrown>>

\* on_failure() counts and does not try again.
RefusedGivesUp ==
  /\ Running /\ cb = "idle" /\ link = "connecting"
  /\ link' = "down"
  /\ refusals' = refusals + 1
  /\ nretry' = nretry + 1
  /\ UNCHANGED <<lost, status, cb, todo, topic, topicMap, broker, replies, requests, losses, asked, faults, thrown>>

-----------------------------------------------------------------------------
(* Connecting *)

\* connect of the client starts an attempt and does not wait for it, or throws:
\* both callers catch that and exit.
Connect ==
  \/ link' = "connecting" /\ status' = "running" /\ UNCHANGED thrown
  \/ status' = "exited" /\ thrown' = TRUE /\ UNCHANGED link

\* init() connects; the threads that publish are created after it.
Start ==
  /\ status = "starting"
  /\ Connect
  /\ UNCHANGED <<lost, cb, todo, topic, nretry, topicMap, broker, replies, requests,
                 refusals, losses, asked, faults>>

\* The broker accepts; the library calls connected().
Accepted ==
  /\ Running /\ cb = "idle" /\ link = "connecting"
  /\ link' = "up" /\ subs' = {}
  /\ cb' = "subscribe" /\ todo' = Topics
  /\ refusals' = 0
  /\ UNCHANGED <<lost, status, topic, nretry, topicMap, inbox, replies, requests, losses, asked, faults, thrown>>

\* on_failure(): a sixth refusal in a row ends the process.
Refused ==
  /\ Running /\ cb = "idle" /\ link = "connecting"
  /\ link' = "down"
  /\ refusals' = refusals + 1
  /\ nretry' = nretry + 1
  /\ IF nretry' > MaxRetry
     THEN status' = "exited" /\ UNCHANGED cb
     ELSE cb' = "sleep" /\ UNCHANGED status
  /\ UNCHANGED <<lost, todo, topic, topicMap, broker, replies, requests, losses, asked, faults, thrown>>

\* connection_lost()
ConnectionLost ==
  /\ Running /\ cb = "idle" /\ lost
  /\ lost' = FALSE
  /\ nretry' = 0
  /\ cb' = "sleep"
  /\ UNCHANGED <<status, todo, topic, topicMap, link, broker, history>>

\* reconnect() after its sleep.
Reconnect ==
  /\ Running /\ cb = "sleep"
  /\ Connect
  /\ cb' = "idle"
  /\ UNCHANGED <<lost, todo, topic, nretry, topicMap, broker, replies, requests,
                 refusals, losses, asked, faults>>

\* One turn of the loop of connected(), and the end of the loop.
Subscribe ==
  /\ Running /\ cb = "subscribe"
  /\ Online(IF todo = {}
            THEN cb' = "register" /\ UNCHANGED <<status, todo, topic, nretry, topicMap, broker, history>>
            ELSE \E t \in todo :
                   /\ todo' = todo \ {t}
                   /\ subs' = subs \cup {t}
                   /\ topicMap' = topicMap \cup {t}
                   /\ UNCHANGED <<status, cb, topic, nretry, inbox, history>>)
  /\ UNCHANGED connection

\* connected() announces the adapter, then the version of its model.
Announce ==
  /\ Running /\ cb \in {"register", "version"}
  /\ Online(/\ cb' = IF cb = "register" THEN "version" ELSE "idle"
            /\ UNCHANGED <<status, todo, topic, nretry, topicMap, broker, history>>)
  /\ UNCHANGED connection

-----------------------------------------------------------------------------
(* message_arrived() *)

\* A request is handled; an exception of its handler ends the process.
Arrive(t, f) ==
  /\ Running /\ cb = "idle" /\ link = "up" /\ inbox[<<t, f>>] > 0
  /\ inbox' = [inbox EXCEPT ![<<t, f>>] = @ - 1]
  /\ requests' = [requests EXCEPT ![t] = @ + 1]
  /\ faults' = IF f = "faulty" THEN faults \cup {t} ELSE faults
  /\ status' = IF Returns(t, f) THEN status ELSE "terminated"
  /\ IF Returns(t, f) /\ t \in Answered
     THEN cb' = "reply" /\ topic' = t
     ELSE UNCHANGED <<cb, topic>>
  /\ UNCHANGED <<todo, nretry, topicMap, connection, subs, replies, refusals, losses, asked, thrown>>

\* The answer is published when the handler has returned it.
Reply ==
  /\ Running /\ cb = "reply"
  /\ Online(/\ replies' = [replies EXCEPT ![topic] = @ + 1]
            /\ cb' = "idle" /\ topic' = NoTopic
            /\ UNCHANGED <<status, todo, nretry, topicMap, broker, requests, refusals, losses, asked, faults, thrown>>)
  /\ UNCHANGED connection

-----------------------------------------------------------------------------
(* The other threads, the broker and the clients *)

\* A timer of publisher p: offline, publish throws.
Upload(p) ==
  /\ Running
  /\ link # "up" /\ p \notin Guarded
  /\ status' = "terminated"
  /\ UNCHANGED <<cb, todo, topic, nretry, topicMap, connection, broker, history>>

\* The connection breaks: the session ends and what it held is gone.
Lose ==
  /\ Running /\ link = "up" /\ losses < MaxLosses
  /\ link' = "down" /\ lost' = TRUE
  /\ subs' = {} /\ inbox' = EmptyInbox
  /\ losses' = losses + 1
  /\ UNCHANGED <<client, replies, requests, refusals, asked, faults, thrown>>

\* A client asks; only a subscribed topic is delivered.
Request(t, f) ==
  /\ Running /\ asked < MaxRequests
  /\ asked' = asked + 1
  /\ inbox' = IF t \in subs THEN [inbox EXCEPT ![<<t, f>>] = @ + 1] ELSE inbox
  /\ UNCHANGED <<client, connection, subs, replies, requests, refusals, losses, faults, thrown>>

Attempt == Accepted \/ Refused
CallbackStep == ConnectionLost \/ Reconnect \/ Subscribe \/ Announce \/ Reply
                  \/ \E t \in Topics, f \in Forms : Arrive(t, f)

Next ==
  \/ Start
  \/ Attempt
  \/ CallbackStep
  \/ \E p \in Publishers : Upload(p)
  \/ Lose
  \/ \E t \in Topics, f \in Forms : Request(t, f)

Spec == Init /\ [][Next]_vars

\* An attempt has an outcome, and the callback thread is scheduled.
FairSpec == Spec /\ WF_vars(Attempt) /\ WF_vars(CallbackStep)

-----------------------------------------------------------------------------
(* Properties *)

\* However often the connection was lost, a client whose callbacks are done is
\* subscribed to every topic again, and can dispatch each of them.
SubscribedWhenSettled ==
  Running /\ link = "up" /\ cb \in {"register", "version", "idle", "reply"} =>
    subs = Topics /\ topicMap = Topics

\* Unless connect itself throws, the process gives up at the refusal MaxRetry + 1
\* in a row since the loss, neither earlier nor later: the refusals of earlier
\* outages do not count, although a success does not reset the counter
\* (CallBack.cpp:45-86).
GivesUpOnTime ==
  /\ status = "exited" => thrown \/ refusals = MaxRetry + 1
  /\ Running => refusals <= MaxRetry

\* Besides a call made offline, only a faulty request at which its handler throws
\* ends the process by an exception: no sound request does, and none to a handler
\* that does not parse, whatever the order of subscriptions, losses and requests
\* (CallBack.cpp:96-100, 139).
DiesOnlyOffline == status = "terminated" => link # "up" \/ faults \cap Parsing # {}

\* Each request that reached the client has been answered once, but for the
\* one being answered, and a topic without a response never is.
RepliesMatch ==
  \A t \in Topics :
    /\ t \notin Answered => replies[t] = 0
    /\ replies[t] <= requests[t]
    /\ Running /\ t \in Answered =>
         requests[t] = replies[t] + (IF topic = t THEN 1 ELSE 0)

\* A lost connection is up again in the end, or the process is not.
LossEnds == (link = "down") ~> (link = "up" \/ ~Running)

\* What CallBack.h says of connection_lost: it will initiate the attempt to
\* manually reconnect, once the library reports the loss to an idle callback
\* thread, be it that connect throws.
LossIsRetried == (lost /\ Running /\ cb = "idle") ~> (link = "connecting" \/ thrown)
=============================================================================
