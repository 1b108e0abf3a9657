------------------------- MODULE ModbusRequestsProofs -------------------------
(***************************************************************************)
(* Proofs about ModbusRequests, for any model files, requests and number   *)
(* of starts: what a Set answers, what a Query reads back, what the model  *)
(* file holds and where the values of a row are.                           *)
(***************************************************************************)
EXTENDS ModbusRequests, SequenceTheorems, TLAPS

-----------------------------------------------------------------------------
(* Sequences of anything *)

IsSeq(s) == s \in Seq({s[k] : k \in DOMAIN s})

LEMMA SeqIsSeq == ASSUME NEW S, NEW s \in Seq(S) PROVE IsSeq(s) /\ Len(s) \in Nat /\ DOMAIN s = 1..Len(s)
<1> DEFINE T == {s[k] : k \in DOMAIN s}
<1>1. Len(s) \in Nat /\ DOMAIN s = 1..Len(s) /\ s \in [1..Len(s) -> S]
  OBVIOUS
<1>2. s \in [1..Len(s) -> T]
  BY <1>1
<1> HIDE DEF T
<1>3. s \in Seq(T)
  BY <1>1, <1>2
<1>4. QED
  BY <1>1, <1>3 DEF IsSeq, T

LEMMA EmptyIsSeq == IsSeq(<<>>) /\ Len(<<>>) = 0
<1>1. <<>> \in Seq({})
  OBVIOUS
<1>2. QED
  BY <1>1, SeqIsSeq

\* An element joins a sequence.
LEMMA Appended ==
  ASSUME NEW s, IsSeq(s), NEW e
  PROVE  /\ IsSeq(Append(s, e)) /\ Len(s) \in Nat /\ DOMAIN s = 1..Len(s)
         /\ Len(Append(s, e)) = Len(s) + 1
         /\ DOMAIN Append(s, e) = 1..(Len(s) + 1)
         /\ \A k \in 1..Len(s) : Append(s, e)[k] = s[k]
         /\ Append(s, e)[Len(s) + 1] = e
<1> DEFINE T == {s[k] : k \in DOMAIN s} \cup {e}
<1>1. s \in Seq({s[k] : k \in DOMAIN s})
  BY DEF IsSeq
<1>2. Len(s) \in Nat /\ DOMAIN s = 1..Len(s) /\ s \in [1..Len(s) -> T]
  BY <1>1
<1>3. s \in Seq(T) /\ e \in T
  BY <1>2
<1> HIDE DEF T
<1>4. Append(s, e) \in Seq(T)
  BY <1>3
<1>5. IsSeq(Append(s, e))
  BY <1>4, SeqIsSeq
<1>6. QED
  BY <1>2, <1>3, <1>5

\* So does a second sequence.
LEMMA Joined ==
  ASSUME NEW s, NEW t, IsSeq(s), IsSeq(t)
  PROVE  /\ IsSeq(s \o t) /\ Len(s) \in Nat /\ Len(t) \in Nat
         /\ Len(s \o t) = Len(s) + Len(t)
         /\ DOMAIN s = 1..Len(s) /\ DOMAIN t = 1..Len(t)
         /\ DOMAIN (s \o t) = 1..(Len(s) + Len(t))
         /\ \A k \in 1..Len(s) : (s \o t)[k] = s[k]
         /\ \A k \in 1..Len(t) : (s \o t)[Len(s) + k] = t[k]
<1> DEFINE T == {s[k] : k \in DOMAIN s} \cup {t[k] : k \in DOMAIN t}
<1>1. s \in Seq({s[k] : k \in DOMAIN s}) /\ t \in Seq({t[k] : k \in DOMAIN t})
  BY DEF IsSeq
<1>2. Len(s) \in Nat /\ DOMAIN s = 1..Len(s) /\ s \in [1..Len(s) -> T]
  BY <1>1
<1>3. Len(t) \in Nat /\ DOMAIN t = 1..Len(t) /\ t \in [1..Len(t) -> T]
  BY <1>1
<1>4. s \in Seq(T) /\ t \in Seq(T)
  BY <1>2, <1>3
<1> HIDE DEF T
<1>5. /\ s \o t \in Seq(T) /\ Len(s \o t) = Len(s) + Len(t)
      /\ \A k \in 1..(Len(s) + Len(t)) : (s \o t)[k] = IF k <= Len(s) THEN s[k] ELSE t[k - Len(s)]
  BY <1>4, ConcatProperties
<1>6. IsSeq(s \o t) /\ DOMAIN (s \o t) = 1..(Len(s) + Len(t))
  BY <1>5, SeqIsSeq
<1>7. \A k \in 1..Len(t) : (s \o t)[Len(s) + k] = t[k]
  BY <1>2, <1>3, <1>5
<1>8. QED
  BY <1>2, <1>3, <1>5, <1>6, <1>7

\* A part of a sequence is one.
LEMMA PartIsSeq ==
  ASSUME NEW s, IsSeq(s), NEW m \in Nat \ {0}
  PROVE  IsSeq(SubSeq(s, m, Len(s)))
<1> DEFINE T == {s[k] : k \in DOMAIN s}
<1>1. s \in Seq(T)
  BY DEF IsSeq
<1>2. Len(s) \in Nat /\ \A k \in m..Len(s) : s[k] \in T
  BY <1>1
<1>3. SubSeq(s, m, Len(s)) \in Seq(T)
  BY <1>2, SubSeqProperties
<1>4. QED
  BY <1>3, SeqIsSeq

\* A function on 1..n is a sequence.
LEMMA FunctionIsSeq ==
  ASSUME NEW n \in Nat, NEW T, NEW f \in [1..n -> T]
  PROVE  IsSeq(f) /\ Len(f) = n /\ DOMAIN f = 1..n
<1>1. f \in Seq(T) /\ Len(f) = n /\ DOMAIN f = 1..n
  OBVIOUS
<1>2. QED
  BY <1>1, SeqIsSeq

-----------------------------------------------------------------------------
(* The turns of the callbacks *)

\* The items of the request that runs, and the answers it has; a process that is
\* down holds nothing.
Turn ==
  /\ cb \in {"wait", "probe", "set", "query"}
  /\ ~up => cb = "wait" /\ next = 1 /\ row = <<>>
  /\ IsSeq(reply)
  /\ cb \in {"wait", "probe"} => reply = <<>>
  /\ cb \in {"set", "query"} => Len(reply) <= Len(request)
  /\ cb = "set" => request \in Seq(SetEntries)
  /\ cb = "query" => request \in Seq(QueryEntries)

\* The items of a request are a sequence.
LEMMA ItemsReceived ==
  ASSUME NEW entries, NEW items \in Requests(entries)
  PROVE  items \in Seq(entries) /\ Len(items) \in Nat
<1>1. PICK n \in 1..MaxItems : items \in [1..n -> entries]
  BY DEF Requests
<1>2. n \in Nat
  BY RequestAssumption
<1>3. QED
  BY <1>1, <1>2

\* What ends the process ends the request.
LEMMA EndsTurn == Turn /\ Ends => Turn' /\ ~up' /\ cb' = "wait" /\ reply' = <<>>
<1>1. IsSeq(<<>>)
  BY EmptyIsSeq
<1>2. QED
  BY <1>1 DEF Ends, Forgotten, Turn

LEMMA TurnStep == Turn /\ [Next]_vars => Turn'
<1> SUFFICES ASSUME Turn, [Next]_vars PROVE Turn'
  OBVIOUS
<1>0. IsSeq(<<>>) /\ Len(<<>>) = 0
  BY EmptyIsSeq
<1>1. CASE Start
  BY <1>1 DEF Start, Turn, callback, sampler
<1>2. CASE Ends
  BY <1>2, EndsTurn
<1>3. CASE (\E p \in Models \cup {Null} : ProbeOpen(p)) \/ ProbeClose
  BY <1>3 DEF ProbeOpen, ProbeClose, Turn, sampler, model
<1>4. ASSUME NEW items \in Requests(SetEntries), Receive("set", items) PROVE Turn'
  <2>1. items \in Seq(SetEntries) /\ Len(items) \in Nat
    BY ItemsReceived
  <2>2. QED
    BY <1>0, <1>4, <2>1 DEF Receive, Turn, sampler, model
<1>5. ASSUME NEW items \in Requests(QueryEntries), Receive("query", items) PROVE Turn'
  <2>1. items \in Seq(QueryEntries) /\ Len(items) \in Nat
    BY ItemsReceived
  <2>2. QED
    BY <1>0, <1>5, <2>1 DEF Receive, Turn, sampler, model
<1>6. CASE Echo \/ SetItem \/ QueryItem
  <2>1. PICK a : reply' = Append(reply, a)
    BY <1>6 DEF Echo, SetItem, QueryItem
  <2>2. IsSeq(reply') /\ Len(reply) \in Nat /\ Len(reply') = Len(reply) + 1
    BY <2>1, Appended DEF Turn
  <2>3. /\ up /\ up' = up /\ cb' = cb /\ cb \in {"set", "query"}
        /\ request' = request /\ Len(reply) < Len(request)
    BY <1>6 DEF Echo, SetItem, QueryItem, model
  <2>4. Len(request) \in Nat
    BY <2>3 DEF Turn
  <2>5. QED
    BY <2>2, <2>3, <2>4 DEF Turn
<1>7. CASE Reply
  BY <1>0, <1>7 DEF Reply, Turn, model
<1>8. CASE Sample \/ RowDone
  BY <1>8 DEF Sample, RowDone, Turn, model, callback
<1>9. CASE UNCHANGED vars
  BY <1>9 DEF vars, Turn, model, callback, sampler
<1>10. QED
  BY <1>1, <1>2, <1>3, <1>4, <1>5, <1>6, <1>7, <1>8, <1>9
     DEF Next, Crash, ProbeQuery, Malformed, QueryThrows, SampleThrows

-----------------------------------------------------------------------------
(* The model file *)

\* While a Probe/Set runs, its file is open, and empty, unless that failed.
StoredInv ==
  /\ AnsweredIsStored
  /\ cb = "probe" /\ ~unstored => file = Torn

LEMMA StoredStep == Turn /\ StoredInv /\ [Next]_vars => StoredInv'
<1> SUFFICES ASSUME Turn, StoredInv, [Next]_vars PROVE StoredInv'
  OBVIOUS
<1> USE DEF StoredInv, AnsweredIsStored
<1>1. CASE Start
  BY <1>1 DEF Start, callback, storing
<1>2. CASE Ends
  BY <1>2 DEF Ends, Forgotten
<1>4. CASE \E p \in Models \cup {Null} : ProbeOpen(p)
  BY <1>4 DEF ProbeOpen
<1>5. CASE ProbeClose
  BY <1>5 DEF ProbeClose
<1>6. CASE Echo \/ SetItem \/ QueryItem \/ Reply
  BY <1>6 DEF Echo, SetItem, QueryItem, Reply, model, storing
<1>7. CASE \/ \E items \in Requests(SetEntries) : Receive("set", items)
           \/ \E items \in Requests(QueryEntries) : Receive("query", items)
  BY <1>7 DEF Receive, model, storing
<1>8. CASE Sample \/ RowDone \/ UNCHANGED vars
  BY <1>8 DEF Sample, RowDone, vars, model, callback, storing
<1>9. QED
  BY <1>1, <1>2, <1>4, <1>5, <1>6, <1>7, <1>8
     DEF Next, Crash, ProbeQuery, Malformed, QueryThrows, SampleThrows

-----------------------------------------------------------------------------
(* What a Set answers *)

\* No item that decides its code depends on the code it finds, and one that does
\* not is answered with that code.
LEMMA OwnOrCarried ==
  ASSUME NEW e \in SetEntries, ~e.nested, NEW carried
  PROVE  EntryCode(e, carried) = IF Decides(e) THEN OwnCode(e) ELSE carried
  BY RequestAssumption DEF Decides, OwnCode, EntryCode, PlaceCode, KeyCode

\* The codes of a Set are judged by its items and the model in memory.
LEMMA SameCodes ==
  ASSUME UNCHANGED <<memory, request>>
  PROVE  /\ \A k, code : CodeAt(k, code)' = CodeAt(k, code)
         /\ \A k, shown : ErrorAt(k, shown)' = ErrorAt(k, shown)
<1>1. \A e : OwnCode(e)' = OwnCode(e)
  BY DEF OwnCode, EntryCode, ValueCode, Written, Reached, Refuses, PlaceCode, ListCode, KeyCode,
         DictCode, ItemOf
<1>2. \A j, code : CodeAt(j, code)' = CodeAt(j, code)
  BY <1>1 DEF CodeAt, Decides
<1>3. QED
  BY <1>2 DEF ErrorAt

\* One item more: it decides the code, or leaves it.
LEMMA CodeAtNext ==
  ASSUME NEW n \in Nat, NEW carried, CodeAt(n, carried)
  PROVE  CodeAt(n + 1, IF Decides(request[n + 1]) THEN OwnCode(request[n + 1]) ELSE carried)
<1>1. CASE Decides(request[n + 1])
  <2>1. n + 1 \in 1..(n + 1) /\ \A i \in ((n + 1) + 1)..(n + 1) : FALSE
    OBVIOUS
  <2>2. QED
    BY <1>1, <2>1 DEF CodeAt
<1>2. CASE ~Decides(request[n + 1])
  <2>1. CASE carried = 0 /\ \A j \in 1..n : ~Decides(request[j])
    BY <1>2, <2>1 DEF CodeAt
  <2>2. ASSUME NEW j \in 1..n, Decides(request[j]), carried = OwnCode(request[j]),
               \A i \in (j + 1)..n : ~Decides(request[i])
        PROVE  CodeAt(n + 1, carried)
    <3>1. j \in 1..(n + 1) /\ \A i \in (j + 1)..(n + 1) : ~Decides(request[i])
      BY <1>2, <2>2
    <3>2. QED
      BY <2>2, <3>1 DEF CodeAt
  <2>3. QED
    BY <1>2, <2>1, <2>2 DEF CodeAt
<1>3. QED
  BY <1>1, <1>2

\* One item more: the error shown becomes its code, or stays for a code of 0.
LEMMA ErrorAtNext ==
  ASSUME NEW n \in Nat, NEW shown, ErrorAt(n, shown), NEW code, CodeAt(n + 1, code)
  PROVE  ErrorAt(n + 1, IF code = 0 THEN shown ELSE code)
<1>1. CASE code # 0
  <2>1. n + 1 \in 1..(n + 1) /\ \A i \in ((n + 1) + 1)..(n + 1) : FALSE
    OBVIOUS
  <2>2. QED
    BY <1>1, <2>1 DEF ErrorAt
<1>2. CASE code = 0
  <2>1. CASE shown = 0 /\ \A j \in 1..n : CodeAt(j, 0)
    BY <1>2, <2>1 DEF ErrorAt
  <2>2. ASSUME NEW j \in 1..n, shown # 0, CodeAt(j, shown), \A i \in (j + 1)..n : CodeAt(i, 0)
        PROVE  ErrorAt(n + 1, shown)
    <3>1. j \in 1..(n + 1) /\ \A i \in (j + 1)..(n + 1) : CodeAt(i, 0)
      BY <1>2, <2>2
    <3>2. QED
      BY <2>2, <3>1 DEF ErrorAt
  <2>3. QED
    BY <1>2, <2>1, <2>2 DEF ErrorAt
<1>3. QED
  BY <1>1, <1>2

\* An item has one code only.
LEMMA OneCode ==
  ASSUME NEW k \in Nat, NEW a, NEW b, CodeAt(k, a), CodeAt(k, b)
  PROVE  a = b
<1>1. CASE \A j \in 1..k : ~Decides(request[j])
  BY <1>1 DEF CodeAt
<1>2. CASE \E j \in 1..k : Decides(request[j])
  <2>1. PICK i \in 1..k : /\ Decides(request[i]) /\ a = OwnCode(request[i])
                         /\ \A m \in (i + 1)..k : ~Decides(request[m])
    BY <1>2 DEF CodeAt
  <2>2. PICK j \in 1..k : /\ Decides(request[j]) /\ b = OwnCode(request[j])
                         /\ \A m \in (j + 1)..k : ~Decides(request[m])
    BY <1>2 DEF CodeAt
  <2>3. ~(i < j) /\ ~(j < i)
    BY <2>1, <2>2
  <2>4. i = j
    BY <2>3
  <2>5. QED
    BY <2>1, <2>2, <2>4
<1>3. QED
  BY <1>1, <1>2

\* retCode and error are those of the items answered so far; a request begins
\* with both at 0.
CodesInv ==
  /\ CodesFollow
  /\ cb = "set" => CodeAt(Len(reply), retCode) /\ ErrorAt(Len(reply), error)
  /\ cb # "set" => retCode = 0 /\ error = 0

\* What Echo and SetItem say of the next item is what the request says.
LEMMA CodesAppended ==
  ASSUME Turn, CodesInv, cb = "set", Len(reply) < Len(request), UNCHANGED <<memory, cb, request>>,
         NEW a, reply' = Append(reply, a),
         CodeAt(Len(reply) + 1, retCode'),
         error' = IF retCode' = 0 THEN error ELSE retCode',
         request[Len(reply) + 1].nested => a.code = "none",
         ~request[Len(reply) + 1].nested =>
           a.code = (IF retCode' = 0 THEN "OK" ELSE "NG") /\ a.error = error'
  PROVE  CodesInv'
<1> DEFINE n == Len(reply) + 1
<1>1. /\ Len(reply) \in Nat /\ DOMAIN reply = 1..Len(reply) /\ DOMAIN reply' = 1..n
      /\ \A k \in 1..Len(reply) : reply'[k] = reply[k]
      /\ reply'[n] = a /\ Len(reply') = n
  BY Appended DEF Turn
<1>2. CodeAt(n, retCode') /\ ErrorAt(n, error')
  BY <1>1, ErrorAtNext DEF CodesInv
<1>3. ASSUME NEW k \in 1..n
      PROVE  IF request[k].nested THEN reply'[k].code = "none"
             ELSE /\ reply'[k].code = "OK" <=> CodeAt(k, 0)
                  /\ reply'[k].code \in {"OK", "NG"} /\ ErrorAt(k, reply'[k].error)
  <2>1. CASE k = n
    <3>1. CASE request[n].nested
      BY <1>1, <2>1, <3>1
    <3>2. CASE ~request[n].nested
      <4>1. CodeAt(n, 0) <=> retCode' = 0
        BY <1>1, <1>2, OneCode
      <4>2. reply'[n].code = (IF retCode' = 0 THEN "OK" ELSE "NG") /\ reply'[n].error = error'
        BY <1>1, <3>2
      <4>3. QED
        BY <1>2, <2>1, <3>2, <4>1, <4>2
    <3>3. QED
      BY <3>1, <3>2
  <2>2. CASE k \in 1..Len(reply)
    BY <1>1, <2>2 DEF CodesInv, CodesFollow
  <2>3. QED
    BY <1>1, <2>1, <2>2
<1> HIDE DEF n
<1>4. CodesFollow'
  BY <1>1, <1>3, SameCodes DEF CodesFollow
<1>5. CodeAt(Len(reply), retCode)' /\ ErrorAt(Len(reply), error)'
  BY <1>1, <1>2, SameCodes
<1>6. QED
  BY <1>4, <1>5 DEF CodesInv

LEMMA CodesStep == Turn /\ CodesInv /\ [Next]_vars => CodesInv'
<1> SUFFICES ASSUME Turn, CodesInv, [Next]_vars PROVE CodesInv'
  OBVIOUS
<1>1. CASE UNCHANGED <<memory, cb, request, reply, retCode, error>>
  <2>1. CodesFollow'
    BY <1>1, SameCodes DEF CodesInv, CodesFollow
  <2>2. cb' = "set" => CodeAt(Len(reply), retCode)' /\ ErrorAt(Len(reply), error)'
    BY <1>1, SameCodes DEF CodesInv
  <2>3. QED
    BY <1>1, <2>1, <2>2 DEF CodesInv
<1>2. CASE cb' # "set" /\ retCode' = 0 /\ error' = 0
  BY <1>2 DEF CodesInv, CodesFollow
<1>3. CASE Echo \/ SetItem
  <2> DEFINE n == Len(reply) + 1
             e == request[n]
  <2>1. /\ cb = "set" /\ Len(reply) < Len(request) /\ UNCHANGED <<memory, cb, request>>
    BY <1>3 DEF Echo, SetItem, model
  <2>2. Len(reply) \in Nat /\ e \in SetEntries
    BY <2>1, Appended DEF Turn
  <2>3. CodeAt(n, IF Decides(e) THEN OwnCode(e) ELSE retCode)
    BY <2>1, <2>2, CodeAtNext DEF CodesInv
  <2>4. CASE Echo
    <3>1. /\ e.nested /\ retCode' = 401 /\ error' = 401
          /\ reply' = Append(reply, [id |-> e.id, code |-> "none", error |-> 0])
      BY <2>4 DEF Echo
    <3>2. Decides(e) /\ OwnCode(e) = 401
      BY <3>1 DEF Decides, OwnCode
    <3>3. QED
      BY <2>1, <2>3, <3>1, <3>2, CodesAppended
  <2>5. CASE SetItem
    <3> DEFINE code == EntryCode(e, retCode)
    <3>1. /\ ~e.nested /\ retCode' = code /\ error' = IF code = 0 THEN error ELSE code
          /\ reply' = Append(reply, [id |-> e.id, code |-> IF code = 0 THEN "OK" ELSE "NG",
                                     error |-> error'])
      BY <2>5 DEF SetItem
    <3>2. code = IF Decides(e) THEN OwnCode(e) ELSE retCode
      BY <2>2, <3>1, OwnOrCarried
    <3> HIDE DEF code
    <3>3. CodeAt(n, retCode')
      BY <2>3, <3>1, <3>2
    <3>4. QED
      BY <2>1, <3>1, <3>3, CodesAppended
  <2>6. QED
    BY <1>3, <2>4, <2>5
<1>4. ASSUME NEW items \in Requests(SetEntries), Receive("set", items) PROVE CodesInv'
  <2>1. reply = <<>> /\ reply' = reply /\ retCode' = 0 /\ error' = 0 /\ Len(reply) = 0
    BY <1>4, EmptyIsSeq DEF Receive, Turn, CodesInv
  <2>2. CodeAt(0, 0)' /\ ErrorAt(0, 0)'
    BY DEF CodeAt, ErrorAt
  <2>3. QED
    BY <2>1, <2>2 DEF CodesInv, CodesFollow
<1>5. CASE \E items \in Requests(QueryEntries) : Receive("query", items)
  BY <1>2, <1>5 DEF Receive, CodesInv
<1>6. CASE Ends \/ Reply
  BY <1>2, <1>6 DEF Ends, Forgotten, Reply
<1>7. CASE (\E p \in Models \cup {Null} : ProbeOpen(p)) \/ ProbeClose \/ Start \/ QueryItem
  BY <1>2, <1>7 DEF ProbeOpen, ProbeClose, Start, QueryItem, callback, CodesInv, Turn
<1>8. CASE Sample \/ RowDone \/ UNCHANGED vars
  BY <1>1, <1>8 DEF Sample, RowDone, vars, model, callback
<1>9. QED
  BY <1>3, <1>4, <1>5, <1>6, <1>7, <1>8
     DEF Next, Crash, ProbeQuery, Malformed, QueryThrows, SampleThrows

\* What is written is answered OK or 202, and 202 only behind another method.
LEMMA WrittenCode ==
  ASSUME NEW e, NEW carried, Writes(e), EntryCode(e, carried) # 0
  PROVE  /\ EntryCode(e, carried) = 202
         /\ LET funcs == ItemOf(e.id).funcs
            IN  \E i, j \in DOMAIN funcs : i < j /\ funcs[i] \in {5, 6} /\ funcs[j] = 16
<1> DEFINE item == ItemOf(e.id)
           funcs == item.funcs
<1>1. item \in ItemRecord /\ item # NoItem
  BY ItemAssumption DEF Writes, Written, ItemOf
<1>2. item.regs \in {0, 1, 2, 4} /\ funcs \in Seq({5, 6, 15, 16})
  BY <1>1 DEF ItemRecord
<1>3. Written(item) /\ EntryCode(e, carried) = ValueCode(e)
  BY DEF Writes, EntryCode
<1>4. EntryCode(e, carried) = 202 /\ \E k \in Reached(item) : Refuses(item, k)
  BY <1>1, <1>3 DEF ValueCode
<1>5. PICK j \in DOMAIN funcs : Refuses(item, j) /\ \A i \in 1..(j - 1) : ~Refuses(item, i)
  BY <1>4 DEF Reached
<1>6. PICK i \in DOMAIN funcs : /\ funcs[i] # 15 /\ ~Refuses(item, i)
                               /\ \A m \in 1..(i - 1) : ~Refuses(item, m)
  BY DEF Writes, Reached
<1>7. i \in 1..Len(funcs) /\ j \in 1..Len(funcs) /\ Len(funcs) \in Nat
  BY <1>2, <1>5, <1>6
<1>8. i < j
  BY <1>5, <1>6, <1>7
<1>9. item.regs < 2 /\ funcs[j] = 16 /\ funcs[i] \in {5, 6}
  BY <1>2, <1>5, <1>6, <1>7 DEF Refuses
<1>10. QED
  BY <1>4, <1>5, <1>6, <1>8, <1>9

\* What an item is refused for is not written, but behind another method.
RefusedClean ==
  \A k \in DOMAIN reply' \ DOMAIN reply :
    cb = "set" /\ reply'[k].code # "OK" /\ registers' # registers =>
      /\ reply'[k].error = 202
      /\ LET funcs == ItemOf(request[k].id).funcs
         IN  \E i, j \in DOMAIN funcs : i < j /\ funcs[i] \in {5, 6} /\ funcs[j] = 16

LEMMA RefusedStep == Turn /\ [Next]_vars => [RefusedClean]_vars
<1> SUFFICES ASSUME Turn, Next PROVE RefusedClean
  OBVIOUS
<1>1. CASE SetItem
  <2> DEFINE e == request[Len(reply) + 1]
             code == EntryCode(e, retCode)
  <2>1. /\ reply' = Append(reply, [id |-> e.id, code |-> IF code = 0 THEN "OK" ELSE "NG",
                                   error |-> error'])
        /\ error' = IF code = 0 THEN error ELSE code
        /\ Writes(e) \/ registers' = registers
    BY <1>1 DEF SetItem, device
  <2> HIDE DEF code
  <2>2. ASSUME NEW k \in DOMAIN reply' \ DOMAIN reply
        PROVE  k = Len(reply) + 1 /\ reply'[k].code = (IF code = 0 THEN "OK" ELSE "NG")
               /\ reply'[k].error = error'
    <3>1. k = Len(reply) + 1 /\ reply'[k] = [id |-> e.id, code |-> IF code = 0 THEN "OK" ELSE "NG",
                                             error |-> error']
      BY <2>1, <2>2, Appended DEF Turn
    <3>2. QED
      BY <3>1
  <2>3. ASSUME NEW k \in DOMAIN reply' \ DOMAIN reply, reply'[k].code # "OK", registers' # registers
        PROVE  /\ reply'[k].error = 202
               /\ LET funcs == ItemOf(request[k].id).funcs
                  IN  \E i, j \in DOMAIN funcs : i < j /\ funcs[i] \in {5, 6} /\ funcs[j] = 16
    <3>1. code # 0 /\ Writes(e) /\ request[k] = e /\ reply'[k].error = error' /\ error' = code
      BY <2>1, <2>2, <2>3
    <3>2. /\ code = 202
          /\ LET funcs == ItemOf(e.id).funcs
             IN  \E i, j \in DOMAIN funcs : i < j /\ funcs[i] \in {5, 6} /\ funcs[j] = 16
      BY <3>1, WrittenCode DEF code
    <3>3. QED
      BY <3>1, <3>2
  <2>4. QED
    BY <2>3 DEF RefusedClean
<1>2. CASE ~SetItem
  <2>1. registers' = registers
    BY <1>2 DEF Next, Start, Crash, ProbeQuery, Malformed, QueryThrows, SampleThrows, Ends, ProbeOpen,
                ProbeClose, Receive, Echo, QueryItem, Reply, Sample, RowDone, device
  <2>2. QED
    BY <2>1 DEF RefusedClean
<1>3. QED
  BY <1>1, <1>2


-----------------------------------------------------------------------------
(* The bytes of the device *)

\* The values of an id, as an item covers them.
Wire(id, item) == [1..item.values -> [1..Width(item.regs) -> {id} \X Nat \X Nat]]

\* The registers hold what was written last, in the byte order of its item.
Held ==
  /\ DOMAIN registers = Ids /\ DOMAIN written = Ids /\ version \in Nat
  /\ \A id \in Ids, m \in Models : Item[m][id] # NoItem => registers[id] \in Wire(id, Item[m][id])
  /\ \A id \in Ids : LET w == written[id] IN
       w.item # NoItem => registers[id][1] = Encode(w.item, Number(id, w.version, w.item.regs))

\* An item a model knows.
LEMMA KnownItem ==
  ASSUME NEW id, ItemOf(id) # NoItem
  PROVE  /\ id \in Ids /\ memory \in Models /\ ItemOf(id) = Item[memory][id]
         /\ ItemOf(id) \in ItemRecord
         /\ ItemOf(id).regs \in {0, 1, 2, 4} /\ ItemOf(id).values \in 1..8
<1>1. id \in Ids /\ memory \in Models /\ ItemOf(id) = Item[memory][id]
  BY DEF ItemOf
<1>2. ItemOf(id) \in ItemRecord
  BY <1>1, ItemAssumption
<1>3. QED
  BY <1>1, <1>2 DEF ItemRecord

\* A number has its bytes.
LEMMA NumberTyped ==
  ASSUME NEW id, NEW v \in Nat, NEW regs \in {0, 1, 2, 4}
  PROVE  /\ Width(regs) \in {1, 2, 4, 8}
         /\ Number(id, v, regs) \in [1..Width(regs) -> {id} \X Nat \X Nat]
<1>1. Width(regs) \in {1, 2, 4, 8}
  BY DEF Width
<1>2. \A p \in 1..Width(regs) : <<id, v, p>> \in {id} \X Nat \X Nat
  BY <1>1
<1>3. QED
  BY <1>1, <1>2 DEF Number

\* They stay its bytes when the registers are turned round.
LEMMA EncodeTyped ==
  ASSUME NEW B, NEW item, item.regs \in {0, 1, 2, 4},
         NEW bytes \in [1..Width(item.regs) -> B]
  PROVE  Encode(item, bytes) \in [1..Width(item.regs) -> B]
<1>1. CASE item.regs >= 2 /\ item.little
  <2>1. Width(item.regs) = 4 \/ Width(item.regs) = 8
    BY <1>1 DEF Width
  <2>2. \A p \in 1..Width(item.regs) : (IF p % 2 = 1 THEN p + 1 ELSE p - 1) \in 1..Width(item.regs)
    BY <2>1
  <2>3. InRegisterSwapped(bytes) \in [1..Width(item.regs) -> B]
    BY <2>2 DEF InRegisterSwapped
  <2>4. QED
    BY <1>1, <2>3 DEF Encode
<1>2. CASE ~(item.regs >= 2 /\ item.little)
  BY <1>2 DEF Encode
<1>3. QED
  BY <1>1, <1>2

LEMMA OneChanged ==
  ASSUME NEW D, NEW T, NEW f \in [D -> T], NEW x \in D, NEW y \in T
  PROVE  [f EXCEPT ![x] = y] \in [D -> T]
  OBVIOUS

\* A write changes the first value of its id and leaves the others alone.
LEMMA WriteHeld ==
  ASSUME Held, NEW e, Writes(e), version' = version + 1,
         registers' = [registers EXCEPT ![e.id][1] =
            Encode(ItemOf(e.id), Number(e.id, version', ItemOf(e.id).regs))],
         written' = [written EXCEPT ![e.id] = [version |-> version', item |-> ItemOf(e.id)]]
  PROVE  Held'
<1> DEFINE item == ItemOf(e.id)
           bytes == Encode(item, Number(e.id, version', item.regs))
<1>1. /\ e.id \in Ids /\ memory \in Models /\ item = Item[memory][e.id] /\ item \in ItemRecord
      /\ item.regs \in {0, 1, 2, 4} /\ item.values \in 1..8 /\ item # NoItem
  BY KnownItem DEF Writes, Written
<1>2. version' \in Nat
  BY DEF Held
<1>3. bytes \in [1..Width(item.regs) -> {e.id} \X Nat \X Nat]
  <2>1. Number(e.id, version', item.regs) \in [1..Width(item.regs) -> {e.id} \X Nat \X Nat]
    BY <1>1, <1>2, NumberTyped
  <2> HIDE DEF item
  <2>2. \A B : \A b \in [1..Width(item.regs) -> B] : Encode(item, b) \in [1..Width(item.regs) -> B]
    BY <1>1, EncodeTyped
  <2>3. QED
    BY <2>1, <2>2
<1>4. registers[e.id] \in Wire(e.id, item)
  BY <1>1 DEF Held
<1> HIDE DEF item, bytes
<1>5. /\ DOMAIN registers' = Ids /\ DOMAIN written' = Ids
      /\ registers'[e.id] = [registers[e.id] EXCEPT ![1] = bytes]
      /\ written'[e.id] = [version |-> version', item |-> item]
      /\ \A id \in Ids : id # e.id => registers'[id] = registers[id] /\ written'[id] = written[id]
  BY <1>1 DEF Held, item, bytes
<1>6. registers'[e.id] \in Wire(e.id, item) /\ registers'[e.id][1] = bytes
  <2>1. 1 \in 1..item.values
    BY <1>1
  <2>2. registers[e.id] \in [1..item.values -> [1..Width(item.regs) -> {e.id} \X Nat \X Nat]]
    BY <1>4 DEF Wire
  <2>3. [registers[e.id] EXCEPT ![1] = bytes]
          \in [1..item.values -> [1..Width(item.regs) -> {e.id} \X Nat \X Nat]]
    BY <1>3, <2>1, <2>2, OneChanged
  <2>4. registers'[e.id] \in Wire(e.id, item)
    BY <1>5, <2>3 DEF Wire
  <2>5. 1 \in DOMAIN registers[e.id]
    BY <2>1, <2>2
  <2>6. registers'[e.id][1] = bytes
    BY <1>5, <2>5
  <2>7. QED
    BY <2>4, <2>6
<1>7. ASSUME NEW id \in Ids, NEW m \in Models, Item[m][id] # NoItem
      PROVE  registers'[id] \in Wire(id, Item[m][id])
  <2>1. CASE id = e.id
    <3>1. Item[m][id].regs = item.regs /\ Item[m][id].values = item.values
      BY <1>1, <1>7, <2>1, ItemAssumption
    <3>2. QED
      BY <1>6, <2>1, <3>1 DEF Wire
  <2>2. CASE id # e.id
    BY <1>5, <1>7, <2>2 DEF Held
  <2>3. QED
    BY <2>1, <2>2
<1>8. ASSUME NEW id \in Ids, written'[id].item # NoItem
      PROVE  registers'[id][1]
               = Encode(written'[id].item, Number(id, written'[id].version, written'[id].item.regs))
  <2>1. CASE id = e.id
    BY <1>5, <1>6, <2>1 DEF bytes
  <2>2. CASE id # e.id
    BY <1>5, <1>8, <2>2 DEF Held
  <2>3. QED
    BY <2>1, <2>2
<1>9. QED
  BY <1>2, <1>5, <1>7, <1>8 DEF Held

LEMMA HeldStep == Held /\ [Next]_vars => Held'
<1> SUFFICES ASSUME Held, [Next]_vars PROVE Held'
  OBVIOUS
<1>1. CASE UNCHANGED device
  BY <1>1 DEF Held, device
<1>2. CASE SetItem
  <2>1. CASE UNCHANGED device
    BY <1>1, <2>1
  <2>2. CASE ~UNCHANGED device
    BY <1>2, <2>2, WriteHeld DEF SetItem
  <2>3. QED
    BY <2>1, <2>2
<1>3. QED
  BY <1>1, <1>2 DEF Next, vars, Start, Crash, ProbeQuery, Malformed, QueryThrows, SampleThrows, Ends,
                    ProbeOpen, ProbeClose, Receive, Echo, QueryItem, Reply, Sample, RowDone

\* What a read covers: a coil has one byte for each value.
LEMMA BytesRead ==
  ASSUME Held, NEW id, ItemOf(id) # NoItem
  PROVE  /\ IsSeq(Bytes(id))
         /\ registers[id] \in Wire(id, ItemOf(id))
         /\ ItemOf(id).regs = 0 =>
              /\ Len(Bytes(id)) = ItemOf(id).values
              /\ \A n \in 1..ItemOf(id).values : Bytes(id)[n] = registers[id][n][1]
                                                  /\ Bytes(id)[n][1] = id
<1> DEFINE item == ItemOf(id)
           width == Width(item.regs)
           Byte(n) == registers[id][(n - 1) \div width + 1][((n - 1) % width) + 1]
<1>1. item.regs \in {0, 1, 2, 4} /\ item.values \in 1..8 /\ registers[id] \in Wire(id, item)
  BY KnownItem DEF Held
<1>2. width \in {1, 2, 4, 8} /\ (item.regs = 0 => width = 1)
  BY <1>1 DEF Width
<1> HIDE DEF item, width
<1>3. /\ DOMAIN registers[id] = 1..item.values
      /\ \A n \in 1..item.values : registers[id][n] \in [1..width -> {id} \X Nat \X Nat]
  BY <1>1 DEF Wire, width
<1>4. Len(registers[id]) = item.values /\ Len(registers[id][1]) = width
  <2>1. \A n \in Nat : \A T : \A f \in [1..n -> T] : Len(f) = n
    BY FunctionIsSeq
  <2>2. registers[id] \in [1..item.values -> [1..width -> {id} \X Nat \X Nat]]
    BY <1>1 DEF Wire, width
  <2>3. registers[id][1] \in [1..width -> {id} \X Nat \X Nat]
    BY <1>1, <1>3
  <2>4. item.values \in Nat /\ width \in Nat
    BY <1>1, <1>2
  <2>5. QED
    BY <2>1, <2>2, <2>3, <2>4
<1>5. width * item.values \in Nat
  BY <1>1, <1>2
<1>6. Bytes(id) = [n \in 1..(width * item.values) |-> Byte(n)]
  BY <1>4 DEF Bytes
<1>7. IsSeq(Bytes(id)) /\ Len(Bytes(id)) = width * item.values
  <2> DEFINE T == {Byte(n) : n \in 1..(width * item.values)}
  <2>1. Bytes(id) \in [1..(width * item.values) -> T]
    BY <1>6
  <2> HIDE DEF T
  <2>2. QED
    BY <1>5, <2>1, FunctionIsSeq
<1>8. ASSUME item.regs = 0, NEW n \in 1..item.values
      PROVE  Bytes(id)[n] = registers[id][n][1] /\ Bytes(id)[n][1] = id
  <2>1. width = 1
    BY <1>2, <1>8
  <2>2. width * item.values = item.values /\ (n - 1) \div width + 1 = n /\ ((n - 1) % width) + 1 = 1
    BY <1>1, <2>1
  <2>3. Bytes(id)[n] = registers[id][n][1]
    BY <1>6, <2>2
  <2>4. registers[id][n][1] \in {id} \X Nat \X Nat
    BY <1>3, <2>1
  <2>5. QED
    BY <2>3, <2>4
<1>9. item.regs = 0 => width * item.values = item.values
  BY <1>1, <1>2
<1>10. QED
  BY <1>1, <1>7, <1>8, <1>9 DEF item

-----------------------------------------------------------------------------
(* What a Query reads back *)

\* The answer to a Query that reads a big-endian item.
LEMMA AnswerReadsBack ==
  ASSUME Held, NEW e, NEW ok \in BOOLEAN, NEW a, a = Answer(e, ok),
         a # Null, a.read, written[a.id].item = ItemOf(a.id), ~ItemOf(a.id).little
  PROVE  LET value == Number(a.id, written[a.id].version, ItemOf(a.id).regs) IN
           IF ItemOf(a.id).regs = 0 THEN a.values[1][1] = value[1] ELSE a.values[1] = value
<1> DEFINE item == ItemOf(e.id)
<1>1. item # NoItem /\ item.methods /\ e.op = "get_value" /\ ok
  BY DEF Answer
<1>2. a.id = e.id /\ a.values = Values(item, e.id, TRUE)
  BY <1>1 DEF Answer
<1>3. /\ registers[e.id] \in Wire(e.id, item) /\ item.values \in 1..8 /\ e.id \in Ids
      /\ item.regs = 0 => Bytes(e.id)[1] = registers[e.id][1][1]
  BY <1>1, KnownItem, BytesRead
<1>4. registers[e.id][1] = Number(e.id, written[e.id].version, item.regs)
  BY <1>1, <1>2, <1>3 DEF Held, Encode
<1>5. 1 \in 1..item.values
  BY <1>3
<1>6. CASE item.regs = 0
  <2>1. a.values[1] = Bytes(e.id)
    BY <1>2, <1>6 DEF Values
  <2>2. QED
    BY <1>2, <1>3, <1>4, <1>6, <2>1
<1>7. CASE item.regs # 0
  <2>1. a.values[1] = registers[e.id][1]
    BY <1>2, <1>5, <1>7 DEF Values, Decode
  <2>2. QED
    BY <1>2, <1>4, <1>7, <2>1
<1>8. QED
  BY <1>6, <1>7

LEMMA ReadsStep == Turn /\ Held /\ ReadsBack /\ [Next]_vars => ReadsBack'
<1> SUFFICES ASSUME Turn, Held, ReadsBack, [Next]_vars, cb' = "query" PROVE ReadsBack'
  BY DEF ReadsBack
<1>1. CASE UNCHANGED <<memory, cb, reply, registers, written>>
  BY <1>1 DEF ReadsBack, ItemOf
<1>2. CASE QueryItem
  <2>1. cb = "query" /\ UNCHANGED <<memory, registers, written>>
    BY <1>2 DEF QueryItem, model, device
  <2> DEFINE e == request[Len(reply) + 1]
  <2>2. PICK ok \in BOOLEAN : reply' = Append(reply, Answer(e, ok))
    BY <1>2 DEF QueryItem
  <2>3. /\ Len(reply) \in Nat /\ DOMAIN reply = 1..Len(reply) /\ DOMAIN reply' = 1..(Len(reply) + 1)
        /\ \A k \in 1..Len(reply) : reply'[k] = reply[k]
        /\ reply'[Len(reply) + 1] = Answer(e, ok)
    BY <2>2, Appended DEF Turn
  <2>4. \A id : ItemOf(id)' = ItemOf(id)
    BY <2>1 DEF ItemOf
  <2>5. ASSUME NEW k \in DOMAIN reply', NEW a, a = reply'[k], a # Null, a.read,
               written[a.id].item = ItemOf(a.id), ~ItemOf(a.id).little
        PROVE  LET value == Number(a.id, written[a.id].version, ItemOf(a.id).regs) IN
                 IF ItemOf(a.id).regs = 0 THEN a.values[1][1] = value[1] ELSE a.values[1] = value
    <3>1. CASE k = Len(reply) + 1
      BY <2>3, <2>5, <3>1, AnswerReadsBack
    <3>2. CASE k \in 1..Len(reply)
      BY <2>1, <2>3, <2>5, <3>2 DEF ReadsBack
    <3>3. QED
      BY <2>3, <3>1, <3>2
  <2>6. QED
    BY <2>1, <2>4, <2>5 DEF ReadsBack
<1>3. CASE \E items \in Requests(QueryEntries) : Receive("query", items)
  BY <1>3 DEF Receive, Turn, ReadsBack
<1>4. ~Start
  BY DEF Start, Turn, callback
<1>5. QED
  BY <1>1, <1>2, <1>3, <1>4
     DEF Next, vars, Crash, ProbeQuery, Malformed, QueryThrows, SampleThrows, Ends, Forgotten, ProbeOpen,
         ProbeClose, Receive, Echo, SetItem, Reply, Sample, RowDone, model, callback, sampler, device, Turn

-----------------------------------------------------------------------------
(* Where the values of a row are *)

AllPlain == \A k \in DOMAIN SampleIds : Plain(SampleIds[k])

\* A column of an id has bytes of this id only.
Own(column, id) == \A p \in DOMAIN column : column[p][1] = id

\* As far as the row has come it has a column for each id.
RowInv ==
  /\ IsSeq(row) /\ IsSeq(dest)
  /\ next \in 1..(Len(SampleIds) + 1)
  /\ up /\ AllPlain =>
       /\ Len(row) = next - 1
       /\ ~misread => \A k \in 1..Len(row) : Own(row[k], SampleIds[k])

\* A number that is read keeps its bytes, in whatever order.
LEMMA DecodeOwn ==
  ASSUME NEW id, NEW item, NEW w \in Nat, NEW bytes \in [1..w -> {id} \X Nat \X Nat]
  PROVE  Own(Decode(item, bytes), id)
<1>1. Len(bytes) = w /\ \A p \in 1..w : bytes[p][1] = id
  <2>1. Len(bytes) = w
    BY FunctionIsSeq
  <2>2. \A p \in 1..w : bytes[p] \in {id} \X Nat \X Nat
    OBVIOUS
  <2>3. QED
    BY <2>1, <2>2
<1>2. DOMAIN bytes = 1..w /\ DOMAIN Reverse(bytes) = 1..w
  BY <1>1 DEF Reverse
<1>3. \A p \in 1..w : Reverse(bytes)[p] = bytes[w - p + 1] /\ w - p + 1 \in 1..w
  BY <1>1 DEF Reverse
<1>4. QED
  BY <1>1, <1>2, <1>3 DEF Own, Decode

\* What the buffer is after a read: first what was read.
LEMMA BufferRead ==
  ASSUME Held, IsSeq(dest), NEW id, ItemOf(id) # NoItem, NEW ok \in BOOLEAN
  PROVE  /\ IsSeq(Buffer(id, ok))
         /\ ok => \A n \in 1..Len(Bytes(id)) :
                    n \in DOMAIN Buffer(id, ok) /\ Buffer(id, ok)[n] = Bytes(id)[n]
<1>1. CASE ~ok
  BY <1>1 DEF Buffer
<1>2. CASE ok
  <2> DEFINE rest == SubSeq(dest, Len(Bytes(id)) + 1, Len(dest))
  <2>1. IsSeq(Bytes(id)) /\ Len(Bytes(id)) \in Nat
    BY BytesRead, Appended
  <2>2. IsSeq(rest)
    BY <2>1, PartIsSeq
  <2>3. Buffer(id, ok) = Bytes(id) \o rest
    BY <1>2 DEF Buffer
  <2> HIDE DEF rest
  <2>4. QED
    BY <2>1, <2>2, <2>3, Joined
<1>3. QED
  BY <1>1, <1>2

\* The columns of an id: a plain id has one, of its own bytes if it was read.
LEMMA ColumnsMade ==
  ASSUME Held, IsSeq(dest), NEW id, ItemOf(id) # NoItem, NEW ok \in BOOLEAN
  PROVE  LET columns == Columns(ItemOf(id), id, ok) IN
           /\ IsSeq(columns)
           /\ Plain(id) => Len(columns) = 1 /\ (ok => Own(columns[1], id))
<1> DEFINE item == ItemOf(id)
           columns == Columns(item, id, ok)
<1>1. /\ item.regs \in {0, 1, 2, 4} /\ item.values \in 1..8 /\ registers[id] \in Wire(id, item)
  BY KnownItem, BytesRead
<1>2. CASE item.regs = 0
  <2> DEFINE buffer == Buffer(id, ok)
             column == [k \in 1..item.values |-> IF k \in DOMAIN buffer THEN buffer[k] ELSE Zero[1]]
  <2>1. columns = <<column>>
    BY <1>2 DEF Columns
  <2>2. ASSUME ok PROVE Own(column, id)
    <3>1. Len(Bytes(id)) = item.values /\ \A n \in 1..item.values : Bytes(id)[n][1] = id
      BY <1>2, BytesRead
    <3>2. \A n \in 1..item.values : n \in DOMAIN buffer /\ buffer[n] = Bytes(id)[n]
      BY <2>2, <3>1, BufferRead
    <3>3. QED
      BY <3>1, <3>2 DEF Own
  <2> HIDE DEF column
  <2>3. IsSeq(columns) /\ Len(columns) = 1 /\ columns[1] = column
    <3>1. <<column>> \in Seq({column})
      OBVIOUS
    <3>2. IsSeq(<<column>>)
      BY <3>1, SeqIsSeq
    <3>3. Len(<<column>>) = 1 /\ <<column>>[1] = column
      OBVIOUS
    <3> HIDE DEF columns
    <3>4. QED
      BY <2>1, <3>2, <3>3
  <2>4. QED
    BY <2>2, <2>3
<1>3. CASE item.regs # 0
  <2> DEFINE Column(k) == IF ok THEN Decode(item, registers[id][k]) ELSE Junk
             T == {Column(k) : k \in 1..item.values}
  <2>1. columns = [k \in 1..item.values |-> Column(k)]
    BY <1>3 DEF Columns, Values
  <2>2. columns \in [1..item.values -> T]
    BY <2>1
  <2>3. item.values \in Nat
    BY <1>1
  <2> HIDE DEF T, columns
  <2>4. IsSeq(columns) /\ Len(columns) = item.values
    BY <2>2, <2>3, FunctionIsSeq
  <2>5. ASSUME Plain(id), ok PROVE Own(columns[1], id)
    <3>1. columns[1] = Decode(item, registers[id][1])
      BY <1>1, <2>1, <2>5
    <3>2. Width(item.regs) \in Nat /\ registers[id][1] \in [1..Width(item.regs) -> {id} \X Nat \X Nat]
      BY <1>1 DEF Wire, Width
    <3>3. QED
      BY <3>1, <3>2, DecodeOwn
  <2>6. QED
    BY <1>3, <2>4, <2>5 DEF Plain, columns
<1>4. QED
  BY <1>2, <1>3

\* Reading an id adds its columns.
LEMMA SampleRow == Held /\ RowInv /\ Sample => RowInv'
<1> SUFFICES ASSUME Held, RowInv, Sample PROVE RowInv'
  OBVIOUS
<1> DEFINE id == SampleIds[next]
<1>1. Len(SampleIds) \in Nat /\ DOMAIN SampleIds = 1..Len(SampleIds)
  BY RequestAssumption
<1>2. /\ up /\ up' = up /\ next \in 1..Len(SampleIds) /\ next' = next + 1
      /\ memory' = memory
  BY <1>1 DEF Sample, model, RowInv
<1>3. AllPlain' = AllPlain
  BY <1>2 DEF AllPlain, Plain, ItemOf
<1>4. next' \in 1..(Len(SampleIds) + 1)
  BY <1>1, <1>2
<1>5. CASE ItemOf(id) = NoItem \/ ~ItemOf(id).methods
  <2>1. UNCHANGED <<row, dest, misread>>
    BY <1>5 DEF Sample
  <2>2. ~AllPlain
    BY <1>1, <1>2, <1>5 DEF AllPlain, Plain
  <2>3. QED
    BY <1>3, <1>4, <2>1, <2>2 DEF RowInv
<1>6. CASE ItemOf(id) # NoItem /\ ItemOf(id).methods
  <2>1. PICK ok \in BOOLEAN : /\ dest' = Buffer(id, ok)
                              /\ misread' = (misread \/ ~ok)
                              /\ row' = row \o Columns(ItemOf(id), id, ok)
    BY <1>6 DEF Sample
  <2> DEFINE columns == Columns(ItemOf(id), id, ok)
  <2>2. IsSeq(dest')
    BY <1>6, <2>1, BufferRead DEF RowInv
  <2>3. IsSeq(columns) /\ (Plain(id) => Len(columns) = 1 /\ (ok => Own(columns[1], id)))
    BY <1>6, ColumnsMade DEF RowInv
  <2>4. row' = row \o columns
    BY <2>1
  <2> HIDE DEF columns
  <2>5. /\ IsSeq(row') /\ Len(row) \in Nat /\ Len(row') = Len(row) + Len(columns)
        /\ \A k \in 1..Len(row) : row'[k] = row[k]
        /\ \A k \in 1..Len(columns) : row'[Len(row) + k] = columns[k]
    BY <2>3, <2>4, Joined DEF RowInv
  <2>6. ASSUME AllPlain PROVE /\ Len(row') = next' - 1
                              /\ ~misread' => \A k \in 1..Len(row') : Own(row'[k], SampleIds[k])
    <3>1. Plain(id)
      BY <1>1, <1>2, <2>6 DEF AllPlain
    <3>2. Len(columns) = 1 /\ Len(row) = next - 1
      BY <1>2, <2>3, <2>6, <3>1 DEF RowInv
    <3>3. Len(row') = next /\ row'[next] = columns[1]
      BY <1>2, <2>5, <3>2
    <3>4. ASSUME ~misread', NEW k \in 1..Len(row') PROVE Own(row'[k], SampleIds[k])
      <4>1. ok /\ ~misread
        BY <2>1, <3>4
      <4>2. CASE k = next
        BY <2>3, <3>1, <3>3, <4>1, <4>2
      <4>3. CASE k \in 1..Len(row)
        BY <1>2, <2>5, <2>6, <4>1, <4>3 DEF RowInv
      <4>4. QED
        BY <1>2, <3>2, <3>3, <3>4, <4>2, <4>3
    <3>5. QED
      BY <1>2, <3>3, <3>4
  <2>7. QED
    BY <1>3, <1>4, <2>2, <2>5, <2>6 DEF RowInv
<1>7. QED
  BY <1>5, <1>6

LEMMA RowStep == Turn /\ Held /\ RowInv /\ [Next]_vars => RowInv'
<1> SUFFICES ASSUME Turn, Held, RowInv, [Next]_vars PROVE RowInv'
  OBVIOUS
<1>0. /\ IsSeq(<<>>) /\ Len(<<>>) = 0 /\ 1 \in 1..(Len(SampleIds) + 1)
  BY EmptyIsSeq, RequestAssumption
<1>1. CASE UNCHANGED <<memory, up, row, dest, next, misread>>
  BY <1>1 DEF RowInv, AllPlain, Plain, ItemOf
<1>2. CASE Start
  BY <1>0, <1>2 DEF Start, sampler, Turn, RowInv
<1>3. CASE Ends \/ RowDone
  BY <1>0, <1>3 DEF Ends, Forgotten, RowDone, RowInv, model
<1>4. CASE Sample
  BY <1>4, SampleRow
<1>5. QED
  BY <1>1, <1>2, <1>3, <1>4
     DEF Next, vars, Crash, ProbeQuery, Malformed, QueryThrows, SampleThrows, ProbeOpen, ProbeClose,
         Receive, Echo, SetItem, QueryItem, Reply, model, sampler

-----------------------------------------------------------------------------
(* The theorems *)

IInv == Turn /\ StoredInv /\ CodesInv /\ Held /\ ReadsBack /\ RowInv

\* The device holds zeros, and nothing has been asked.
LEMMA InitHolds == Init => IInv
<1> SUFFICES ASSUME Init PROVE IInv
  OBVIOUS
<1> USE DEF Init
<1>1. Turn /\ StoredInv /\ CodesInv /\ ReadsBack
  BY EmptyIsSeq DEF Turn, StoredInv, AnsweredIsStored, CodesInv, CodesFollow, ReadsBack
<1>2. RowInv
  BY EmptyIsSeq, RequestAssumption DEF RowInv
<1>3. ASSUME NEW id \in Ids, NEW m \in Models, Item[m][id] # NoItem
      PROVE  Zeroed(id) \in Wire(id, Item[m][id])
  <2> DEFINE item == CHOOSE i \in {Item[n][id] : n \in Models} : i # NoItem
  <2>1. item # NoItem /\ \E n \in Models : item = Item[n][id]
    BY <1>3
  <2>2. item.regs = Item[m][id].regs /\ item.values = Item[m][id].values
    BY <1>3, <2>1, ItemAssumption
  <2>3. Item[m][id] \in ItemRecord
    BY <1>3, ItemAssumption
  <2>4. item.regs \in {0, 1, 2, 4}
    BY <2>2, <2>3 DEF ItemRecord
  <2>5. Zeroed(id) = [k \in 1..item.values |-> Number(id, 0, item.regs)]
    BY DEF Zeroed
  <2> HIDE DEF item
  <2>6. Number(id, 0, item.regs) \in [1..Width(item.regs) -> {id} \X Nat \X Nat]
    BY <2>4, NumberTyped
  <2>7. QED
    BY <2>2, <2>5, <2>6 DEF Wire
<1>4. Held
  BY <1>3 DEF Held
<1>5. QED
  BY <1>1, <1>2, <1>4 DEF IInv

\* The parts together are inductive.
LEMMA Inductive == Spec => []IInv
<1>1. IInv /\ [Next]_vars => IInv'
  BY TurnStep, StoredStep, CodesStep, HeldStep, ReadsStep, RowStep DEF IInv
<1>2. QED
  BY InitHolds, <1>1, PTL DEF Spec

\* The model file is the probe answered OK last, through crashes and restarts
\* (ProbeSetRequest.cpp:23-36).
THEOREM FileIsAnswered == Spec => []AnsweredIsStored
<1>1. IInv => AnsweredIsStored
  BY DEF IInv, StoredInv
<1>2. QED
  BY Inductive, <1>1, PTL

\* What a Set answers follows from its items, whatever retCode and resultJson
\* keep of those before (SetRequest.cpp:27-78).
THEOREM AnswersFollow == Spec => []CodesFollow
<1>1. IInv => CodesFollow
  BY DEF IInv, CodesInv
<1>2. QED
  BY Inductive, <1>1, PTL

\* What is refused is not written, but behind another method of the item
\* (SetRequest.cpp:33-77, 163-194).
THEOREM RefusedIsUndone == Spec => RefusedUnwritten
<1>1. IInv /\ [Next]_vars => [RefusedClean]_vars
  BY RefusedStep DEF IInv
<1>2. Spec => [][RefusedClean]_vars
  BY Inductive, <1>1, PTL DEF Spec
<1>3. QED
  BY <1>2 DEF RefusedUnwritten, RefusedClean

\* A Query reads what a Set wrote (SetRequest.cpp, Utils.cpp, QueryRequest.cpp).
THEOREM WhatIsSetIsRead == Spec => []ReadsBack
<1>1. IInv => ReadsBack
  BY DEF IInv
<1>2. QED
  BY Inductive, <1>1, PTL

\* The values of a row stay in their places (QueryRequest.cpp:210-315).
THEOREM ColumnsInPlace == Spec => []RowsAligned
<1>1. IInv => RowsAligned
  <2> SUFFICES ASSUME IInv, up, next > Len(SampleIds), AllPlain
               PROVE  /\ Len(row) = Len(SampleIds)
                      /\ ~misread => \A k \in DOMAIN row : \A p \in DOMAIN row[k] :
                           row[k][p][1] = SampleIds[k]
    BY DEF RowsAligned, AllPlain
  <2>1. next = Len(SampleIds) + 1 /\ Len(SampleIds) \in Nat
    BY RequestAssumption DEF IInv, RowInv
  <2>2. DOMAIN row = 1..Len(row)
    BY Appended DEF IInv, RowInv
  <2>3. QED
    BY <2>1, <2>2 DEF IInv, RowInv, Own
<1>2. QED
  BY Inductive, <1>1, PTL
=============================================================================
