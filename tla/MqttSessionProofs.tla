--------------------------- MODULE MqttSessionProofs ---------------------------
(***************************************************************************)
(* Proofs about MqttSession, for any topics, any limit of retries and any  *)
(* number of losses and requests.                                          *)
(***************************************************************************)
EXTENDS MqttSession, TLAPS

-----------------------------------------------------------------------------
(* The parts of the inductive invariant *)

\* A request is on its way, has reached the client or was lost.
Accounted ==
  \A t \in Topics : inbox[<<t, "sound">>] + inbox[<<t, "faulty">>] + requests[t] <= asked

\* A client that runs may still try again.
RetriesLeft == Running => nretry <= MaxRetry

\* The callback thread and the connection: an attempt is under way or slept
\* before only once a loss has been reported.
LinkInv ==
  /\ lost => link = "down"
  /\ cb = "sleep" => link = "down" /\ ~lost
  /\ link = "connecting" => cb = "idle"
  /\ status = "starting" => cb = "idle" /\ link = "down" /\ ~lost /\ nretry = 0

\* _nretry is not reset when an attempt succeeds, but when the connection that
\* came of it is lost: in between, it does not count the refusals in a row.
RetryInv ==
  /\ IF link = "up" \/ lost THEN refusals = 0 ELSE refusals = nretry
  /\ nretry <= MaxRetry + 1
  /\ RetriesLeft
  /\ status = "exited" /\ ~thrown => ~lost /\ link = "down" /\ nretry = MaxRetry + 1

\* What connected() has still to subscribe to is what is missing.
SubscribeInv ==
  link = "up" => IF cb = "subscribe" THEN Topics \subseteq (todo \cup subs) \cap (todo \cup topicMap)
                                     ELSE subs = Topics /\ topicMap = Topics

\* The request being answered is the only one without its reply.
ReplyInv ==
  /\ cb = "reply" => topic \in Topics \cap Answered
  /\ cb # "reply" => topic = NoTopic
  /\ RepliesMatch
  /\ status = "starting" => \A t \in Topics : requests[t] = 0 /\ replies[t] = 0

Types == TypeOK /\ Accounted /\ LinkInv /\ RetryInv

-----------------------------------------------------------------------------
(* Each part is preserved. *)

\* The types, and the counters within their limits.
LEMMA TypeStep == Types /\ ReplyInv /\ [Next]_vars => Types'
<1> SUFFICES ASSUME Types, ReplyInv, [Next]_vars PROVE Types'
  OBVIOUS
<1> USE BoundsAssumption
    DEF Types, TypeOK, Accounted, LinkInv, RetryInv, RetriesLeft, Callbacks, Running, Online,
        connection, client, broker, history
<1>1. CASE Accepted
  BY <1>1 DEF Accepted
<1>2. CASE Refused
  BY <1>2 DEF Refused
<1>3. CASE ConnectionLost
  <2>1. lost' \in BOOLEAN
    BY <1>3 DEF ConnectionLost
  <2>2. QED
    BY <1>3, <2>1 DEF ConnectionLost
<1>4. CASE Reconnect
  BY <1>4 DEF Reconnect, Connect
<1>5. CASE Subscribe
  BY <1>5 DEF Subscribe
<1>6. CASE Announce
  BY <1>6 DEF Announce
<1>7. CASE Reply
  <2>1. CASE link = "up"
    <3>1. topic \in Topics /\ replies[topic] + 1 <= requests[topic]
      BY <1>7, <2>1 DEF Reply, ReplyInv, RepliesMatch
    <3>2. replies' \in [Topics -> 0..MaxRequests]
      BY <1>7, <2>1, <3>1 DEF Reply
    <3>3. QED
      BY <1>7, <2>1, <3>2 DEF Reply
  <2>2. CASE link # "up"
    BY <1>7, <2>2 DEF Reply
  <2>3. QED
    BY <2>1, <2>2
<1>8. ASSUME NEW t \in Topics, NEW f \in Forms, Arrive(t, f) PROVE Types'
  <2>1. <<t, f>> \in Topics \X Forms /\ inbox[<<t, f>>] \in 1..MaxRequests
    BY <1>8 DEF Arrive
  <2>2. \A u \in Topics, g \in Forms : inbox'[<<u, g>>] =
          IF u = t /\ g = f THEN inbox[<<u, g>>] - 1 ELSE inbox[<<u, g>>]
    BY <1>8 DEF Arrive
  <2>3. \A u \in Topics : requests'[u] = IF u = t THEN requests[u] + 1 ELSE requests[u]
    BY <1>8 DEF Arrive
  <2>4. \A u \in Topics : <<u, "sound">> \in Topics \X Forms /\ <<u, "faulty">> \in Topics \X Forms
    BY DEF Forms
  <2>5. Accounted'
    <3> SUFFICES ASSUME NEW u \in Topics
                 PROVE  inbox'[<<u, "sound">>] + inbox'[<<u, "faulty">>] + requests'[u] <= asked
      BY <1>8 DEF Arrive
    <3>1. inbox[<<u, "sound">>] \in Nat /\ inbox[<<u, "faulty">>] \in Nat /\ requests[u] \in Nat
      BY <2>4
    <3>2. inbox'[<<u, "sound">>] = (IF u = t /\ f = "sound" THEN inbox[<<u, "sound">>] - 1
                                                              ELSE inbox[<<u, "sound">>])
      BY <2>2 DEF Forms
    <3>3. inbox'[<<u, "faulty">>] = (IF u = t /\ f = "faulty" THEN inbox[<<u, "faulty">>] - 1
                                                                ELSE inbox[<<u, "faulty">>])
      BY <2>2 DEF Forms
    <3>4. QED
      BY <2>3, <3>1, <3>2, <3>3 DEF Forms
  <2>6. inbox' \in [Topics \X Forms -> 0..MaxRequests]
    BY <1>8, <2>1 DEF Arrive
  <2>7. requests[t] + 1 <= MaxRequests
    <3>1. inbox[<<t, "sound">>] + inbox[<<t, "faulty">>] + requests[t] <= asked
      OBVIOUS
    <3>2. inbox[<<t, "sound">>] \in Nat /\ inbox[<<t, "faulty">>] \in Nat
      BY <2>4
    <3>3. inbox[<<t, "sound">>] >= 1 \/ inbox[<<t, "faulty">>] >= 1
      BY <2>1 DEF Forms
    <3>4. QED
      BY <3>1, <3>2, <3>3
  <2>8. requests' \in [Topics -> 0..MaxRequests]
    BY <1>8, <2>7 DEF Arrive
  <2>9. TypeOK'
    BY <1>8, <2>6, <2>8 DEF Arrive
  <2>10. LinkInv' /\ RetryInv'
    BY <1>8 DEF Arrive
  <2>11. QED
    BY <2>5, <2>9, <2>10
<1>9. CASE \E p \in Publishers : Upload(p)
  BY <1>9 DEF Upload
<1>10. CASE Lose
  BY <1>10 DEF Lose, EmptyInbox, Forms
<1>11. ASSUME NEW t \in Topics, NEW f \in Forms, Request(t, f) PROVE Types'
  <2>1. <<t, f>> \in Topics \X Forms /\ asked + 1 <= MaxRequests
    BY <1>11 DEF Request
  <2>2. \A u \in Topics : <<u, "sound">> \in Topics \X Forms /\ <<u, "faulty">> \in Topics \X Forms
    BY DEF Forms
  <2>3. inbox[<<t, f>>] + 1 <= MaxRequests
    <3>1. inbox[<<t, "sound">>] + inbox[<<t, "faulty">>] + requests[t] <= asked
      OBVIOUS
    <3>2. inbox[<<t, "sound">>] \in Nat /\ inbox[<<t, "faulty">>] \in Nat /\ requests[t] \in Nat
      BY <2>2
    <3>3. inbox[<<t, f>>] <= asked /\ inbox[<<t, f>>] \in Nat
      BY <3>1, <3>2 DEF Forms
    <3>4. QED
      BY <2>1, <3>3
  <2>4. inbox' \in [Topics \X Forms -> 0..MaxRequests]
    BY <1>11, <2>3 DEF Request
  <2>5. Accounted'
    <3> SUFFICES ASSUME NEW u \in Topics
                 PROVE  inbox'[<<u, "sound">>] + inbox'[<<u, "faulty">>] + requests[u] <= asked + 1
      BY <1>11 DEF Request
    <3>1. inbox[<<u, "sound">>] \in Nat /\ inbox[<<u, "faulty">>] \in Nat /\ requests[u] \in Nat
      BY <2>2
    <3>2. inbox'[<<u, "sound">>] + inbox'[<<u, "faulty">>]
            <= inbox[<<u, "sound">>] + inbox[<<u, "faulty">>] + 1
      BY <1>11, <2>2, <3>1 DEF Request
    <3>3. inbox'[<<u, "sound">>] \in Nat /\ inbox'[<<u, "faulty">>] \in Nat
      BY <2>2, <2>4
    <3>4. QED
      BY <3>1, <3>2, <3>3
  <2>6. TypeOK'
    BY <1>11, <2>1, <2>4 DEF Request
  <2>7. LinkInv' /\ RetryInv'
    BY <1>11 DEF Request
  <2>8. QED
    BY <2>5, <2>6, <2>7
<1>12. CASE Start
  <2>1. thrown' \in BOOLEAN /\ lost' = lost
    BY <1>12 DEF Start, Connect
  <2>2. TypeOK'
    BY <1>12, <2>1 DEF Start, Connect
  <2>3. Accounted'
    BY <1>12 DEF Start
  <2>4. LinkInv'
    BY <1>12, <2>1 DEF Start, Connect
  <2>5. RetryInv'
    BY <1>12, <2>1 DEF Start, Connect
  <2>6. QED
    BY <2>2, <2>3, <2>4, <2>5
<1>13. CASE UNCHANGED vars
  BY <1>13 DEF vars
<1>14. QED
  BY <1>1, <1>2, <1>3, <1>4, <1>5, <1>6, <1>7, <1>8, <1>9, <1>10, <1>11, <1>12, <1>13
  DEF Next, Attempt, CallbackStep

\* Subscriptions and what can be dispatched grow together, and a loss ends both.
LEMMA SubscribeStep == Types /\ SubscribeInv /\ [Next]_vars => SubscribeInv'
<1> SUFFICES ASSUME Types, SubscribeInv, [Next]_vars PROVE SubscribeInv'
  OBVIOUS
<1> USE DEF Types, TypeOK, LinkInv, SubscribeInv, Running, Online, connection, client, broker, history
<1>1. CASE Accepted \/ Refused
  BY <1>1 DEF Accepted, Refused
<1>2. CASE ConnectionLost \/ Reconnect \/ Start
  BY <1>2 DEF ConnectionLost, Reconnect, Start, Connect
<1>3. CASE Subscribe
  BY <1>3 DEF Subscribe
<1>4. CASE Announce \/ Reply
  BY <1>4 DEF Announce, Reply
<1>5. ASSUME NEW t \in Topics, NEW f \in Forms, Arrive(t, f) PROVE SubscribeInv'
  BY <1>5 DEF Arrive
<1>6. CASE Lose \/ (\E p \in Publishers : Upload(p)) \/ \E t \in Topics, f \in Forms : Request(t, f)
  BY <1>6 DEF Lose, Upload, Request
<1>7. CASE UNCHANGED vars
  BY <1>7 DEF vars
<1>8. QED
  BY <1>1, <1>2, <1>3, <1>4, <1>5, <1>6, <1>7 DEF Next, Attempt, CallbackStep

\* A request that is answered is counted once on each side.
LEMMA ReplyStep == Types /\ ReplyInv /\ [Next]_vars => ReplyInv'
<1> SUFFICES ASSUME Types, ReplyInv, [Next]_vars PROVE ReplyInv'
  OBVIOUS
<1> USE NoTopicAssumption
    DEF Types, TypeOK, LinkInv, ReplyInv, RepliesMatch, Running, Online, connection, client, broker, history
<1>1. CASE Accepted \/ Refused
  BY <1>1 DEF Accepted, Refused
<1>2. CASE ConnectionLost \/ Reconnect
  <2>1. CASE ConnectionLost
    BY <2>1 DEF ConnectionLost
  <2>2. CASE Reconnect
    BY <2>2 DEF Reconnect, Connect
  <2>3. QED
    BY <1>2, <2>1, <2>2
<1>3. CASE Subscribe
  BY <1>3 DEF Subscribe
<1>4. CASE Announce
  BY <1>4 DEF Announce
<1>5. CASE Reply
  BY <1>5 DEF Reply
<1>6. ASSUME NEW t \in Topics, NEW f \in Forms, Arrive(t, f) PROVE ReplyInv'
  BY <1>6 DEF Arrive
<1>7. CASE Start
  BY <1>7, NoTopicAssumption DEF Start, Connect
<1>8. CASE Lose \/ (\E p \in Publishers : Upload(p)) \/ \E t \in Topics, f \in Forms : Request(t, f)
  BY <1>8 DEF Lose, Upload, Request
<1>9. CASE UNCHANGED vars
  BY <1>9 DEF vars
<1>10. QED
  BY <1>1, <1>2, <1>3, <1>4, <1>5, <1>6, <1>7, <1>8, <1>9 DEF Next, Attempt, CallbackStep

\* Where every topic has a handler, a call that is dispatched returns.
LEMMA OfflineStep ==
  ASSUME Topics \subseteq Handled
  PROVE  Types /\ SubscribeInv /\ DiesOnlyOffline /\ [Next]_vars => DiesOnlyOffline'
<1> SUFFICES ASSUME Types, SubscribeInv, DiesOnlyOffline, [Next]_vars PROVE DiesOnlyOffline'
  OBVIOUS
<1> USE DEF Types, TypeOK, SubscribeInv, DiesOnlyOffline, Running, Online, connection, client, broker, history
<1>1. CASE Attempt
  BY <1>1 DEF Attempt, Accepted, Refused
<1>2. CASE Start \/ ConnectionLost \/ Reconnect \/ Subscribe \/ Announce \/ Reply
  BY <1>2 DEF Start, Connect, ConnectionLost, Reconnect, Subscribe, Announce, Reply
<1>3. ASSUME NEW t \in Topics, NEW f \in Forms, Arrive(t, f) PROVE DiesOnlyOffline'
  BY <1>3 DEF Arrive, Returns, Forms
<1>4. CASE Lose \/ (\E p \in Publishers : Upload(p)) \/ \E t \in Topics, f \in Forms : Request(t, f)
  BY <1>4 DEF Lose, Upload, Request
<1>5. CASE UNCHANGED vars
  BY <1>5 DEF vars
<1>6. QED
  BY <1>1, <1>2, <1>3, <1>4, <1>5 DEF Next, CallbackStep

-----------------------------------------------------------------------------
(* The theorems *)

IInv == Types /\ SubscribeInv /\ ReplyInv

\* At the start nothing is subscribed, asked or answered.
LEMMA InitHolds == Init => IInv /\ DiesOnlyOffline
<1> SUFFICES ASSUME Init PROVE IInv /\ DiesOnlyOffline
  OBVIOUS
<1>1. lost \in BOOLEAN /\ thrown \in BOOLEAN
  BY DEF Init
<1>2. TypeOK /\ Accounted
  BY <1>1, BoundsAssumption DEF Init, TypeOK, Accounted, NoRequests, EmptyInbox, Forms, Callbacks
<1>3. LinkInv /\ RetryInv
  BY BoundsAssumption DEF Init, LinkInv, RetryInv, RetriesLeft, Running
<1>4. SubscribeInv /\ DiesOnlyOffline
  BY DEF Init, SubscribeInv, DiesOnlyOffline
<1>5. ReplyInv
  BY NoTopicAssumption DEF Init, ReplyInv, RepliesMatch, NoRequests
<1>6. QED
  BY <1>2, <1>3, <1>4, <1>5 DEF IInv, Types

\* The parts together are inductive.
LEMMA Inductive == Spec => []IInv
<1>1. IInv /\ [Next]_vars => IInv'
  BY TypeStep, SubscribeStep, ReplyStep DEF IInv
<1>2. QED
  BY InitHolds, <1>1, PTL DEF Spec

\* The types, for any topics, retries, losses and requests.
THEOREM TypeCorrect == Spec => []TypeOK
<1>1. IInv => TypeOK
  BY DEF IInv, Types
<1>2. QED
  BY Inductive, <1>1, PTL

\* However often the connection was lost, a client whose callbacks are done is
\* subscribed to every topic and can dispatch each (CallBack.cpp, connected).
THEOREM SubscribedAgain == Spec => []SubscribedWhenSettled
<1>1. IInv => SubscribedWhenSettled
  BY DEF IInv, SubscribeInv, SubscribedWhenSettled
<1>2. QED
  BY Inductive, <1>1, PTL

\* For any limit, unless connect throws, the process gives up after that many
\* refusals and one more in a row since the last loss, neither earlier nor later
\* (CallBack.cpp, reconnect and on_failure).
THEOREM RetriesExhausted == Spec => []GivesUpOnTime
<1>1. IInv => GivesUpOnTime
  BY BoundsAssumption DEF IInv, Types, RetryInv, RetriesLeft, GivesUpOnTime, Running, TypeOK
<1>2. QED
  BY Inductive, <1>1, PTL

\* Each request that reached the client has been answered once, but for the one
\* being answered (CallBack.cpp, message_arrived).
THEOREM AnsweredOnce == Spec => []RepliesMatch
<1>1. IInv => RepliesMatch
  BY DEF IInv, ReplyInv
<1>2. QED
  BY Inductive, <1>1, PTL

\* With a configuration whose topics all have a handler, a process whose client is
\* connected is ended by an exception only at a faulty request of a topic whose
\* handler parses, for any set of such topics (CallBack.cpp, message_arrived).
THEOREM NoRequestKills ==
  ASSUME Topics \subseteq Handled
  PROVE  Spec => []DiesOnlyOffline
<1>1. DiesOnlyOffline /\ IInv /\ [Next]_vars => DiesOnlyOffline'
  BY OfflineStep DEF IInv
<1>2. Init => DiesOnlyOffline
  BY InitHolds
<1>3. QED
  BY Inductive, <1>1, <1>2, PTL DEF Spec
=============================================================================
