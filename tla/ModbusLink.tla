------------------------------ MODULE ModbusLink ------------------------------
(***************************************************************************)
(* The one Modbus connection of the adapter (modbustcp, QueryRequest.cpp,  *)
(* SetRequest.cpp and the bundled modbuslib). Every sampler thread and the *)
(* callback thread make their calls on it, and no lock is taken: they      *)
(* share the transaction counter and the stream of replies.                *)
(*                                                                         *)
(* Calls are numbered in the order they start. A reply is a head, with the *)
(* transaction it answers, and a body; they arrive, and are read, one      *)
(* after the other. The socket does not block: an empty stream is an error *)
(* for the reader once its timeout is over or the bytes it was told of are *)
(* gone.                                                                   *)
(***************************************************************************)
EXTENDS Integers, Sequences

CONSTANTS
  Threads,     \* the threads that make calls
  TidMod,      \* transaction identifiers: 2^16
  MaxCalls,    \* bound: calls made
  MaxCrowded   \* bound: calls made in a run in which calls overlap

ASSUME TidModAssumption == TidMod \in Nat \ {0}
ASSUME MaxCallsAssumption == MaxCalls \in Nat
ASSUME MaxCrowdedAssumption == MaxCrowded \in 0..MaxCalls

VARIABLES
  tid,      \* ctx_tcp->t_id
  pc,       \* what each thread is doing
  call,     \* the number of its call
  loaded,   \* the counter as it read it
  stamp,    \* the transaction identifier in its request
  tx,       \* requests the server has not taken
  rx,       \* replies, in pieces, that have not been read
  serving,  \* the server owes the body of this reply, or NoReply
  head,     \* the head each thread has read
  calls,    \* history: calls made
  crowded,  \* history: a call began while another thread was in one
  results   \* history: the replies the calls that succeeded returned

shared == <<tid, tx, rx, serving>>
vars == <<tid, pc, call, loaded, stamp, tx, rx, serving, head, calls, crowded, results>>

Tids == 0..(TidMod - 1)
Calls == 1..MaxCalls
Pieces == {"head", "body"}
Cell == [of : Calls, tid : Tids, piece : Pieces]
Request == [of : Calls, tid : Tids]
NoReply == [of |-> 0, tid |-> 0]
NoHead == [of |-> 0, tid |-> 0, piece |-> "head"]
Mixed == -1   \* the answer of a call that took its body from another reply

TypeOK ==
  /\ tid \in Tids
  /\ pc \in [Threads -> {"idle", "load", "store", "stamp", "send", "head", "body", "check"}]
  /\ call \in [Threads -> 0..MaxCalls]
  /\ loaded \in [Threads -> Tids]
  /\ stamp \in [Threads -> Tids]
  /\ tx \in Seq(Request)
  /\ rx \in Seq(Cell)
  /\ serving \in Request \cup {NoReply}
  /\ head \in [Threads -> Cell \cup {NoHead}]
  /\ calls \in 0..MaxCalls
  /\ crowded \in BOOLEAN
  /\ results \subseteq [call : Calls, answer : Calls \cup {Mixed}]

Init ==
  /\ tid = 0
  /\ pc = [t \in Threads |-> "idle"]
  /\ call = [t \in Threads |-> 0]
  /\ loaded = [t \in Threads |-> 0]
  /\ stamp = [t \in Threads |-> 0]
  /\ tx = <<>> /\ rx = <<>> /\ serving = NoReply
  /\ head = [t \in Threads |-> NoHead]
  /\ calls = 0 /\ crowded = FALSE /\ results = {}

At(t, step) == pc[t] = step
Goto(t, step) == pc' = [pc EXCEPT ![t] = step]

\* A call that begins now overlaps another, or others did before.
Busy == crowded \/ \E u \in Threads : ~At(u, "idle")

\* Faulty variant: the last identifier is one too many.
IncrementTooFar(n) == IF n <= TidMod - 1 THEN n + 1 ELSE 0

Increment(n) == IF n < TidMod - 1 THEN n + 1 ELSE 0

-----------------------------------------------------------------------------
(* Faulty variants of the definitions that follow. *)

\* A request is sent once more, for safety.
SendTwice(t) ==
  /\ At(t, "send")
  /\ tx' = tx \o <<[of |-> call[t], tid |-> stamp[t]], [of |-> call[t], tid |-> stamp[t]]>>
  /\ Goto(t, "head")
  /\ UNCHANGED <<tid, rx, serving, call, loaded, stamp, head, calls, crowded, results>>

\* The result of the read is not looked at: the old buffer is checked.
ReadFailsUnnoticed(t) ==
  /\ pc[t] \in {"head", "body"} /\ rx = <<>>
  /\ Goto(t, "check")
  /\ UNCHANGED <<shared, call, loaded, stamp, head, calls, crowded, results>>

\* The timeout is over once the first bytes are there.
ReadFailsEarly(t) ==
  /\ pc[t] = "head" /\ rx = <<>>
  /\ Goto(t, "idle")
  /\ UNCHANGED <<shared, call, loaded, stamp, head, calls, crowded, results>>

\* The identifiers are not compared.
CheckTrusting(t) ==
  /\ At(t, "check")
  /\ results' = results \cup {[call |-> call[t], answer |-> head[t].of]}
  /\ Goto(t, "idle")
  /\ UNCHANGED <<shared, call, loaded, stamp, head, calls, crowded>>

-----------------------------------------------------------------------------
(* The calls. A call that fails returns -1 and leaves the stream as it is. *)

Begin(t) ==
  /\ At(t, "idle")
  /\ calls < IF Busy THEN MaxCrowded ELSE MaxCalls
  /\ calls' = calls + 1
  /\ crowded' = Busy
  /\ call' = [call EXCEPT ![t] = calls + 1]
  /\ Goto(t, "load")
  /\ UNCHANGED <<shared, loaded, stamp, head, results>>

\* _modbus_tcp_build_request_basis: the counter is read, ...
LoadTid(t) ==
  /\ At(t, "load")
  /\ loaded' = [loaded EXCEPT ![t] = tid]
  /\ Goto(t, "store")
  /\ UNCHANGED <<shared, call, stamp, head, calls, crowded, results>>

\* ... written back incremented, ...
StoreTid(t) ==
  /\ At(t, "store")
  /\ tid' = Increment(loaded[t])
  /\ Goto(t, "stamp")
  /\ UNCHANGED <<tx, rx, serving, call, loaded, stamp, head, calls, crowded, results>>

\* ... and read again for the request.
StampTid(t) ==
  /\ At(t, "stamp")
  /\ stamp' = [stamp EXCEPT ![t] = tid]
  /\ Goto(t, "send")
  /\ UNCHANGED <<shared, call, loaded, head, calls, crowded, results>>

Send(t) ==
  /\ At(t, "send")
  /\ tx' = Append(tx, [of |-> call[t], tid |-> stamp[t]])
  /\ Goto(t, "head")
  /\ UNCHANGED <<tid, rx, serving, call, loaded, stamp, head, calls, crowded, results>>

\* The socket takes nothing: the recovery mode is off, the call returns -1. A
\* request the socket takes in part is left out.
SendFails(t) ==
  /\ At(t, "send")
  /\ Goto(t, "idle")
  /\ UNCHANGED <<shared, call, loaded, stamp, head, calls, crowded, results>>

\* _modbus_receive_msg reads up to the function code first.
ReadHead(t) ==
  /\ At(t, "head") /\ rx # <<>>
  /\ rx[1].piece = "head"
  /\ head' = [head EXCEPT ![t] = rx[1]]
  /\ rx' = Tail(rx)
  /\ Goto(t, "body")
  /\ UNCHANGED <<tid, tx, serving, call, loaded, stamp, calls, crowded, results>>

\* What it reads is no head: the length it finds there is arbitrary, and so is
\* how much it takes off the stream before the call fails.
Misread(t) ==
  /\ At(t, "head") /\ rx # <<>>
  /\ rx[1].piece # "head"
  /\ \E k \in 1..Len(rx) : rx' = SubSeq(rx, k + 1, Len(rx))
  /\ Goto(t, "idle")
  /\ UNCHANGED <<tid, tx, serving, call, loaded, stamp, head, calls, crowded, results>>

\* Then the rest, whose length the head tells.
ReadBody(t) ==
  /\ At(t, "body") /\ rx # <<>>
  /\ rx[1].piece = "body" /\ rx[1].of = head[t].of
  /\ rx' = Tail(rx)
  /\ Goto(t, "check")
  /\ UNCHANGED <<tid, tx, serving, call, loaded, stamp, head, calls, crowded, results>>

\* Another thread took that piece: the bytes are part of something else. The
\* check of the length may notice, or not.
ReadForeignBody(t) ==
  /\ At(t, "body") /\ rx # <<>>
  /\ ~(rx[1].piece = "body" /\ rx[1].of = head[t].of)
  /\ rx' = Tail(rx)
  /\ Goto(t, "idle")
  /\ \/ UNCHANGED results
     \/ /\ head[t].tid = stamp[t]
        /\ results' = results \cup {[call |-> call[t], answer |-> Mixed]}
  /\ UNCHANGED <<tid, tx, serving, call, loaded, stamp, head, calls, crowded>>

\* select or recv finds nothing.
ReadFails(t) ==
  /\ pc[t] \in {"head", "body"} /\ rx = <<>>
  /\ Goto(t, "idle")
  /\ UNCHANGED <<shared, call, loaded, stamp, head, calls, crowded, results>>

\* check_confirmation compares the transaction identifiers.
Check(t) ==
  /\ At(t, "check")
  /\ results' = IF head[t].tid = stamp[t]
                THEN results \cup {[call |-> call[t], answer |-> head[t].of]}
                ELSE results
  /\ Goto(t, "idle")
  /\ UNCHANGED <<shared, call, loaded, stamp, head, calls, crowded>>

-----------------------------------------------------------------------------
(* The server takes the requests in order, late or never. *)

ServeHead ==
  /\ serving = NoReply /\ tx # <<>>
  /\ serving' = tx[1]
  /\ tx' = Tail(tx)
  /\ rx' = Append(rx, [of |-> tx[1].of, tid |-> tx[1].tid, piece |-> "head"])
  /\ UNCHANGED <<tid, pc, call, loaded, stamp, head, calls, crowded, results>>

ServeBody ==
  /\ serving # NoReply
  /\ rx' = Append(rx, [of |-> serving.of, tid |-> serving.tid, piece |-> "body"])
  /\ serving' = NoReply
  /\ UNCHANGED <<tid, pc, call, loaded, stamp, tx, head, calls, crowded, results>>

Drop ==
  /\ serving = NoReply /\ tx # <<>>
  /\ tx' = Tail(tx)
  /\ UNCHANGED <<tid, rx, serving, pc, call, loaded, stamp, head, calls, crowded, results>>

-----------------------------------------------------------------------------
Step(t) == LoadTid(t) \/ StoreTid(t) \/ StampTid(t) \/ Send(t) \/ SendFails(t) \/ ReadHead(t)
             \/ Misread(t) \/ ReadBody(t) \/ ReadForeignBody(t) \/ ReadFails(t) \/ Check(t)
Server == ServeHead \/ ServeBody \/ Drop

Next == Server \/ \E t \in Threads : Begin(t) \/ Step(t)

Spec == Init /\ [][Next]_vars

\* A call goes on to its end: the reads have timeouts. The server owes nothing.
FairSpec == Spec /\ \A t \in Threads : WF_vars(Step(t))

-----------------------------------------------------------------------------
(* Properties *)

\* What the transaction identifier is for: a call that succeeds returns the
\* reply to its own request, however late, lost or split the replies are. What
\* it takes for its own is at least TidMod calls older.
OwnAnswer ==
  \A r \in results : r.answer = r.call \/ (r.answer > 0 /\ r.call - r.answer >= TidMod)

\* That is what the code achieves as long as no two threads are in a call at the
\* same time, whichever threads make the calls.
SerialOwnAnswer == ~crowded => OwnAnswer

\* No reply is returned by two calls, even when they share an identifier.
AnswerOnce ==
  \A r, s \in results : r.answer = s.answer /\ r.answer # Mixed => r = s

\* As long as calls do not overlap, one that returns its own reply leaves nothing
\* behind it: no request the server has yet to take, no reply on its way and no
\* piece of one to read.
SuccessMeansInSync ==
  [][~crowded => \A r \in results' \ results :
       r.answer = r.call => tx = <<>> /\ rx = <<>> /\ serving = NoReply]_vars

\* Every call returns, whatever the other threads take off the stream.
EveryCallReturns == \A t \in Threads : ~At(t, "idle") ~> At(t, "idle")
=============================================================================
