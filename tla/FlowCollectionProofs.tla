-------------------------- MODULE FlowCollectionProofs --------------------------
(***************************************************************************)
(* Proofs about FlowCollection, for each adapter and any number of samples *)
(* and rewrites: what is published is in order, what is lost, and that the *)
(* channel implements LossyChannel.                                        *)
(***************************************************************************)
EXTENDS FlowCollection, SequenceTheorems, TLAPS

-----------------------------------------------------------------------------
(* The parts of the inductive invariant *)

\* A half that is there is from the rewrite under way.
FileInv ==
  /\ writes \in 0..MaxWrites
  /\ head \in {Missing, writes} /\ tail \in {Missing, writes}

\* What the sampler holds. While it parses, only the first half is from this
\* turn; afterwards all of it.
LocalInv ==
  /\ local \in [id : 0..MaxSamples, head : 0..MaxWrites \cup {Missing}, tail : 0..MaxWrites]
  /\ spc \in {"unflag", "unjson", "open", "parse"} => samples < MaxSamples
  /\ spc \in {"early", "mark", "store"} =>
       local.id = samples /\ samples > 0 /\ local \in Sample

\* The sampler stores each sample in its turn.
StoredInv ==
  /\ spc \in {"test", "unflag", "unjson", "open", "parse"} => stored = samples
  /\ spc = "early" => StoresFirst /\ stored = samples - 1
  /\ spc \in {"mark", "store"} => stored = IF StoresFirst THEN samples ELSE samples - 1

Types == TypeOK /\ FileInv /\ LocalInv /\ StoredInv

\* Between copy and clear, what waits is what was copied or was stored since.
WindowInv == upc = "clear" => probe = resp \/ probe.id \in window

\* Sample a was taken before b, or is b: it is from an earlier rewrite.
Before(a, b) == a = b \/ a.tail <= b.head

\* Every sample is put together from the file as it grew.
Ordered(s) == Waiting(s) => s.head <= s.tail /\ s.tail <= writes

\* The sample in hand is read after what the others were.
Behind(s) ==
  Waiting(s) =>
    /\ spc = "parse" /\ local.head # Missing => s.tail <= local.head
    /\ spc \in {"early", "mark", "store"} => Before(s, local)

\* What was sent, what is on its way, what waits and what is in hand follow each
\* other in this order.
OrderInv ==
  /\ FlowsInOrder
  /\ local.head <= writes
  /\ spc \in {"early", "mark", "store"} => Ordered(local)
  /\ Ordered(probe) /\ Behind(probe)
  /\ \A n \in DOMAIN sent : /\ Waiting(sent[n]) /\ Ordered(sent[n]) /\ Behind(sent[n])
                            /\ Waiting(probe) => Before(sent[n], probe)
  /\ InFlight => /\ Ordered(resp) /\ Behind(resp)
                 /\ Waiting(probe) => Before(resp, probe)
                 /\ \A n \in DOMAIN sent : Before(sent[n], resp)

-----------------------------------------------------------------------------
\* A sample joins those that were sent.
LEMMA SentAppended ==
  ASSUME NEW seq \in Seq(Sample), NEW s
  PROVE  LET new == Append(seq, s) IN
           /\ DOMAIN new = DOMAIN seq \cup {Len(seq) + 1}
           /\ \A n \in DOMAIN seq : new[n] = seq[n] /\ n \in Nat /\ n < Len(seq) + 1
           /\ new[Len(seq) + 1] = s
  OBVIOUS

\* What the file and the sampler hold keeps its type.
LEMMA TypeStep == Types /\ [Next]_vars => Types'
<1> SUFFICES ASSUME Types, [Next]_vars PROVE Types'
  OBVIOUS
<1>0. Missing = -1 /\ MaxWrites \in Nat /\ MaxSamples \in Nat
  BY BoundsAssumption DEF Missing, File!Missing
<1> USE <1>0 DEF Types, TypeOK, FileInv, LocalInv, StoredInv, file, flags, history
<1>1. CASE Collector
  <2>1. FileInv' /\ head' \in 0..MaxWrites \cup {Missing} /\ tail' \in 0..MaxWrites \cup {Missing}
    BY <1>1 DEF Collector, File!Next, File!Truncate, File!WriteHead, File!WriteTail, Missing
  <2>2. QED
    BY <1>1, <2>1 DEF Collector, StoresFirst
<1>2. CASE Test \/ Unflag \/ ResetJson
  <2>1. UNCHANGED <<file, probe, resp, local, upc, alive, history>>
    BY <1>2 DEF Test, Unflag, ResetJson
  <2>2. isClear' \in {0, 1} /\ isJson' \in {0, 1}
    BY <1>2 DEF Test, Unflag, ResetJson
  <2>3. /\ spc' \in {"unflag", "unjson", "open"} /\ spc \in {"test", "unflag", "unjson"}
        /\ samples < MaxSamples
    BY <1>2 DEF Test, Unflag, ResetJson
  <2>4. QED
    BY <2>1, <2>2, <2>3 DEF StoresFirst
<1>3. CASE Open
  BY <1>3 DEF Open
<1>4. CASE Parse
  <2>1. samples + 1 \in 1..MaxSamples /\ local.head \in 0..MaxWrites /\ tail \in 0..MaxWrites
    BY <1>4 DEF Parse
  <2>2. LocalInv'
    <3>1. local' = [id |-> samples + 1, head |-> local.head, tail |-> tail] /\ samples' = samples + 1
      BY <1>4 DEF Parse
    <3>2. local' \in [id : 0..MaxSamples, head : 0..MaxWrites \cup {Missing}, tail : 0..MaxWrites]
      <4>1. samples + 1 \in 0..MaxSamples /\ local.head \in 0..MaxWrites \cup {Missing}
        BY <2>1
      <4>2. QED
        BY <2>1, <3>1, <4>1
    <3>3. local' \in Sample /\ local'.id = samples'
      BY <2>1, <3>1 DEF Sample
    <3>4. QED
      BY <1>4, <2>1, <3>1, <3>2, <3>3 DEF Parse
  <2>3. StoredInv'
    BY <1>4 DEF Parse, StoresFirst
  <2>4. TypeOK' /\ FileInv'
    BY <1>4, <2>1, <2>2 DEF Parse
  <2>5. QED
    BY <2>2, <2>3, <2>4
<1>5. CASE ParseThrows \/ PublishThrows \/ RaceKills
  <2>1. alive' \in BOOLEAN
    BY <1>5 DEF ParseThrows, PublishThrows, RaceKills
  <2>2. UNCHANGED <<file, flags, probe, resp, spc, local, upc, history>>
    BY <1>5 DEF ParseThrows, PublishThrows, RaceKills
  <2>3. QED
    BY <2>1, <2>2 DEF StoresFirst
<1>6. CASE Mark
  <2>1. isJson' \in {0, 1} /\ isClear' \in {0, 1} /\ spc' = "store" /\ spc = "mark"
    BY <1>6 DEF Mark
  <2>2. StoredInv' /\ LocalInv'
    BY <1>6, <2>1 DEF Mark, StoresFirst
  <2>3. QED
    BY <1>6, <2>1, <2>2 DEF Mark
<1>7. CASE Store
  <2>1. local.id \in 1..MaxSamples /\ local \in Sample
    BY <1>7 DEF Store
  <2>2. probe' \in Sample /\ stored' \in 0..MaxSamples /\ window' \subseteq 1..MaxSamples
    BY <1>7, <2>1 DEF Store
  <2>3. StoredInv' /\ LocalInv'
    BY <1>7, <2>1 DEF Store, StoresFirst
  <2>4. QED
    BY <1>7, <2>2, <2>3 DEF Store
<1>8. CASE UploadTest \/ Copy \/ Clear \/ Flag
  <2>1. Empty \in Sample
    BY DEF Empty, Sample
  <2>2. UNCHANGED <<file, spc, local, alive, history, isJson>>
    BY <1>8 DEF UploadTest, Copy, Clear, Flag
  <2>3. isClear' \in {0, 1} /\ upc' \in {"wait", "copy", "clear", "flag", "publish"}
    BY <1>8 DEF UploadTest, Copy, Clear, Flag
  <2>4. probe' \in Sample /\ resp' \in Sample
    BY <1>8, <2>1 DEF UploadTest, Copy, Clear, Flag
  <2>5. QED
    BY <2>2, <2>3, <2>4 DEF StoresFirst
<1>9. CASE Publish
  BY <1>9 DEF Publish, StoresFirst
<1>10. CASE UNCHANGED vars
  BY <1>10 DEF vars, StoresFirst
<1>11. QED
  BY <1>1, <1>2, <1>3, <1>4, <1>5, <1>6, <1>7, <1>8, <1>9, <1>10 DEF Next, SampleTask, UploadTask

-----------------------------------------------------------------------------
(* What is lost *)

\* Only the newest sample that is stored between copy and clear is lost.
LEMMA LossStep ==
  Types /\ WindowInv /\ LossOnlyInWindow /\ [Next]_vars => WindowInv' /\ LossOnlyInWindow'
<1> SUFFICES ASSUME Types, WindowInv, LossOnlyInWindow, [Next]_vars
             PROVE  WindowInv' /\ LossOnlyInWindow'
  OBVIOUS
<1> USE DEF WindowInv, LossOnlyInWindow, InFlight, Waiting, file, flags, history
<1>1. CASE Store
  BY <1>1 DEF Store, Published
<1>2. CASE Copy
  BY <1>2 DEF Copy, Published, Empty
<1>3. CASE Clear
  BY <1>3 DEF Clear, Published, Empty, Types, TypeOK
<1>4. CASE Publish
  <2>1. Published \subseteq Published' /\ (InFlight => resp.id \in Published')
    <3>1. CASE Waiting(resp)
      <4>1. /\ Len(sent') = Len(sent) + 1 /\ DOMAIN sent = 1..Len(sent) /\ DOMAIN sent' = 1..Len(sent')
            /\ \A n \in 1..Len(sent) : sent'[n] = sent[n]
            /\ sent'[Len(sent) + 1] = resp
        BY <1>4, <3>1 DEF Publish, Types, TypeOK
      <4>2. Len(sent) \in Nat
        BY DEF Types, TypeOK
      <4>3. QED
        BY <4>1, <4>2 DEF Published
    <3>2. CASE ~Waiting(resp)
      BY <1>4, <3>2 DEF Publish, Published
    <3>3. QED
      BY <3>1, <3>2
  <2>2. QED
    BY <1>4, <2>1 DEF Publish
<1>5. CASE Collector \/ Test \/ Unflag \/ ResetJson \/ Open \/ Parse \/ Mark
  BY <1>5 DEF Collector, Test, Unflag, ResetJson, Open, Parse, Mark, Published
<1>6. CASE ParseThrows \/ PublishThrows \/ RaceKills \/ UNCHANGED vars
  BY <1>6 DEF ParseThrows, PublishThrows, RaceKills, vars, Published
<1>7. CASE UploadTest \/ Flag
  BY <1>7 DEF UploadTest, Flag, Published
<1>8. QED
  BY <1>1, <1>2, <1>3, <1>4, <1>5, <1>6, <1>7 DEF Next, SampleTask, UploadTask

-----------------------------------------------------------------------------
(* The order of what is published *)

\* What is published joins at the end.
LEMMA PublishOrder == Types /\ OrderInv /\ Publish => OrderInv'
<1> SUFFICES ASSUME Types, OrderInv, Publish PROVE OrderInv'
  OBVIOUS
<1>1. /\ UNCHANGED <<local, probe, resp, spc, writes>> /\ upc = "publish" /\ upc' = "wait"
      /\ sent' = IF Waiting(resp) THEN Append(sent, resp) ELSE sent
  BY DEF Publish, file
<1>2. sent \in Seq(Sample) /\ resp \in Sample
  BY DEF Types, TypeOK
<1>3. ~InFlight'
  BY <1>1 DEF InFlight
<1>4. CASE ~Waiting(resp)
  BY <1>1, <1>3, <1>4 DEF OrderInv, FlowsInOrder, Ordered, Behind, Waiting, Before
<1>5. CASE Waiting(resp)
  <2>1. sent' = Append(sent, resp)
    BY <1>1, <1>5
  <2>2. /\ DOMAIN sent' = DOMAIN sent \cup {Len(sent) + 1}
        /\ \A n \in DOMAIN sent : sent'[n] = sent[n] /\ n \in Nat /\ n < Len(sent) + 1
        /\ sent'[Len(sent) + 1] = resp
    BY <1>2, <2>1, SentAppended
  <2>3. Len(sent) \in Nat
    BY <1>2
  <2>4. Ordered(resp) /\ Behind(resp) /\ (Waiting(probe) => Before(resp, probe))
        /\ \A n \in DOMAIN sent : Before(sent[n], resp)
    BY <1>1, <1>5 DEF OrderInv, InFlight
  <2>5. ASSUME NEW n \in DOMAIN sent'
        PROVE  /\ Waiting(sent'[n]) /\ Ordered(sent[n])' /\ Behind(sent[n])'
               /\ Waiting(probe') => Before(sent'[n], probe')
    <3>1. CASE n \in DOMAIN sent
      <4>1. sent'[n] = sent[n]
        BY <2>2, <3>1
      <4>2. /\ Waiting(sent[n]) /\ Ordered(sent[n]) /\ Behind(sent[n])
            /\ Waiting(probe) => Before(sent[n], probe)
        BY <3>1 DEF OrderInv
      <4>3. QED
        BY <1>1, <4>1, <4>2 DEF Ordered, Behind, Waiting, Before
    <3>2. CASE n = Len(sent) + 1
      <4>1. sent'[n] = resp
        BY <2>2, <3>2
      <4>2. QED
        BY <1>1, <1>5, <2>4, <4>1 DEF Ordered, Behind, Waiting, Before
    <3>3. QED
      BY <2>2, <3>1, <3>2
  <2>6. FlowsInOrder'
    <3>1. \A n \in DOMAIN sent' : sent'[n].head <= sent'[n].tail
      BY <2>5 DEF Ordered, Waiting
    <3>2. ASSUME NEW m \in DOMAIN sent', NEW n \in DOMAIN sent', m < n
          PROVE  sent'[m] = sent'[n] \/ sent'[m].tail <= sent'[n].head
      <4>1. m \in DOMAIN sent
        BY <2>2, <2>3, <3>2
      <4>2. sent'[m] = sent[m]
        BY <2>2, <4>1
      <4>3. CASE n \in DOMAIN sent
        <5>1. sent'[n] = sent[n]
          BY <2>2, <4>3
        <5>2. QED
          BY <3>2, <4>1, <4>2, <4>3, <5>1 DEF OrderInv, FlowsInOrder
      <4>4. CASE n = Len(sent) + 1
        <5>1. sent'[n] = resp
          BY <2>2, <4>4
        <5>2. QED
          BY <2>4, <4>1, <4>2, <5>1 DEF Before
      <4>5. QED
        BY <2>2, <4>3, <4>4
    <3>3. QED
      BY <3>1, <3>2 DEF FlowsInOrder
  <2>7. /\ local'.head <= writes' /\ (spc' \in {"early", "mark", "store"} => Ordered(local)')
        /\ Ordered(probe)' /\ Behind(probe)'
    BY <1>1 DEF OrderInv, Ordered, Behind, Waiting, Before
  <2>8. QED
    BY <1>3, <2>5, <2>6, <2>7 DEF OrderInv
<1>6. QED
  BY <1>4, <1>5

\* Rewrites only count upwards.
LEMMA OrderStep == Types /\ OrderInv /\ [Next]_vars => OrderInv'
<1> SUFFICES ASSUME Types, OrderInv, [Next]_vars PROVE OrderInv'
  OBVIOUS
<1>0. /\ Missing = -1 /\ writes \in Nat /\ probe \in Sample /\ resp \in Sample
      /\ \A n \in DOMAIN sent : sent[n] \in Sample
      /\ local.head \in Int /\ local.tail \in Nat /\ local.id \in Nat
  BY BoundsAssumption DEF Missing, File!Missing, Types, TypeOK, FileInv, LocalInv
<1> USE <1>0 DEF Sample, OrderInv, FlowsInOrder, InFlight, Waiting, Before, Ordered, Behind, file, flags, history
<1>1. CASE Collector
  <2>1. writes' \in Nat /\ writes' >= writes
    BY <1>1 DEF Collector, File!Next, File!Truncate, File!WriteHead, File!WriteTail
  <2>2. QED
    BY <1>1, <2>1 DEF Collector
<1>2. CASE Test \/ Unflag \/ ResetJson
  BY <1>2 DEF Test, Unflag, ResetJson
<1>3. CASE Open
  <2>1. head \in {Missing, writes} /\ local'.head = head
    BY <1>3 DEF Open, Types, FileInv, LocalInv
  <2>2. QED
    BY <1>3, <2>1 DEF Open
<1>4. CASE Parse
  <2>1. /\ tail = writes /\ local.head # Missing
        /\ local'.head = local.head /\ local'.tail = tail
    BY <1>4 DEF Parse, Types, FileInv
  <2>2. QED
    BY <1>4, <2>1 DEF Parse
<1>5. CASE ParseThrows \/ PublishThrows \/ RaceKills
  BY <1>5 DEF ParseThrows, PublishThrows, RaceKills
<1>6. CASE Mark
  BY <1>6 DEF Mark
<1>7. CASE Store
  <2>1. Waiting(local)
    BY <1>7 DEF Store, Types, LocalInv, Empty
  <2>2. QED
    BY <1>7, <2>1 DEF Store
<1>8. CASE UploadTest \/ Flag
  BY <1>8 DEF UploadTest, Flag
<1>9. CASE Copy
  BY <1>9 DEF Copy
<1>10. CASE Clear
  BY <1>10 DEF Clear
<1>11. CASE Publish
  BY <1>11, PublishOrder
<1>12. CASE UNCHANGED vars
  BY <1>12 DEF vars
<1>13. QED
  BY <1>1, <1>2, <1>3, <1>4, <1>5, <1>6, <1>7, <1>8, <1>9, <1>10, <1>11, <1>12 DEF Next, SampleTask, UploadTask

-----------------------------------------------------------------------------
(* The theorems *)

IInv == Types /\ WindowInv /\ LossOnlyInWindow /\ OrderInv

\* At the start the file is what an earlier run left, and nothing is stored.
LEMMA InitHolds == Init => IInv
<1> SUFFICES ASSUME Init PROVE IInv
  OBVIOUS
<1> USE BoundsAssumption DEF Init, File!Init, Empty
<1>1. alive \in BOOLEAN
  OBVIOUS
<1>2. TypeOK
  BY <1>1 DEF TypeOK, Sample
<1>3. FileInv /\ LocalInv /\ StoredInv
  BY DEF FileInv, LocalInv, StoredInv
<1>4. WindowInv /\ LossOnlyInWindow
  BY DEF WindowInv, LossOnlyInWindow
<1>5. OrderInv
  BY DEF OrderInv, FlowsInOrder, InFlight, Ordered, Behind, Waiting
<1>6. QED
  BY <1>2, <1>3, <1>4, <1>5 DEF IInv, Types

\* The parts together are inductive.
LEMMA Inductive == Spec => []IInv
<1>1. IInv /\ [Next]_vars => IInv'
  BY TypeStep, LossStep, OrderStep DEF IInv
<1>2. QED
  BY InitHolds, <1>1, PTL DEF Spec

\* The types, for each adapter and any number of samples and rewrites.
THEOREM TypeCorrect == Spec => []TypeOK
<1>1. IInv => TypeOK
  BY DEF IInv, Types
<1>2. QED
  BY Inductive, <1>1, PTL

\* The newest sample is lost only by being stored between the copy and the clear
\* (FlowCollection.cpp, SampleTask and UploadTask).
THEOREM NoOtherLoss == Spec => []LossOnlyInWindow
<1>1. IInv => LossOnlyInWindow
  BY DEF IInv
<1>2. QED
  BY Inductive, <1>1, PTL

\* The flows published never go back in time, though a sample may be put together
\* from two rewrites (FlowCollection.cpp, printResults).
THEOREM NeverBackInTime == Spec => []FlowsInOrder
<1>1. IInv => FlowsInOrder
  BY DEF IInv, OrderInv
<1>2. QED
  BY Inductive, <1>1, PTL

-----------------------------------------------------------------------------
(* The refinement of LossyChannel *)

\* What LossyChannel sees of the channel.
Delivered == [n \in DOMAIN sent |-> <<sent[n].id>>]
Lane == [made |-> stored, waiting |-> Waits, delivered |-> Delivered]

\* A concatenation is taken apart where it was put together.
LEMMA SplitAt ==
  ASSUME NEW S, NEW a \in Seq(S), NEW b \in Seq(S)
  PROVE  /\ a \o b \in Seq(S) /\ Len(a \o b) = Len(a) + Len(b)
         /\ Len(a) \in 0..Len(a \o b)
         /\ SubSeq(a \o b, 1, Len(a)) = a
         /\ SubSeq(a \o b, Len(a) + 1, Len(a \o b)) = b
<1>1. /\ a \o b \in Seq(S) /\ Len(a \o b) = Len(a) + Len(b)
      /\ \A i \in 1..(Len(a) + Len(b)) : (a \o b)[i] = IF i <= Len(a) THEN a[i] ELSE b[i - Len(a)]
  BY ConcatProperties
<1>2. Len(a) \in Nat /\ Len(b) \in Nat
  OBVIOUS
<1>3. SubSeq(a \o b, 1, Len(a)) = a
  <2>1. \A i \in 1..Len(a) : (a \o b)[i] \in S
    BY <1>1, <1>2
  <2>2. /\ SubSeq(a \o b, 1, Len(a)) \in Seq(S) /\ Len(SubSeq(a \o b, 1, Len(a))) = Len(a)
        /\ \A i \in 1..Len(a) : SubSeq(a \o b, 1, Len(a))[i] = (a \o b)[i]
    BY <1>2, <2>1, SubSeqProperties
  <2>3. \A i \in 1..Len(a) : SubSeq(a \o b, 1, Len(a))[i] = a[i]
    BY <1>1, <1>2, <2>2
  <2>4. QED
    BY <2>2, <2>3, SeqEqual
<1>4. SubSeq(a \o b, Len(a) + 1, Len(a \o b)) = b
  <2> DEFINE rest == SubSeq(a \o b, Len(a) + 1, Len(a \o b))
  <2>1. \A i \in (Len(a) + 1)..(Len(a) + Len(b)) : (a \o b)[i] \in S
    BY <1>1, <1>2
  <2>2. /\ rest \in Seq(S) /\ Len(rest) = Len(b)
        /\ \A i \in 1..Len(b) : rest[i] = (a \o b)[Len(a) + i]
    BY <1>1, <1>2, <2>1, SubSeqProperties
  <2>3. \A i \in 1..Len(b) : rest[i] = b[i]
    BY <1>1, <1>2, <2>2
  <2>4. QED
    BY <2>2, <2>3, SeqEqual
<1>5. QED
  BY <1>1, <1>2, <1>3, <1>4

\* A sample that waits is an item, and an empty one is none.
LEMMA OneFacts ==
  ASSUME NEW s \in Sample
  PROVE  /\ One(s) \in Seq(Nat) /\ One(Empty) = <<>>
         /\ Waiting(s) => One(s) = <<s.id>> /\ Len(One(s)) = 1
         /\ ~Waiting(s) => One(s) = <<>>
  BY DEF One, Waiting, Sample

\* What is published is one more delivery.
LEMMA DeliveredAppended ==
  ASSUME NEW seq \in Seq(Sample), NEW s \in Sample
  PROVE  [n \in DOMAIN Append(seq, s) |-> <<Append(seq, s)[n].id>>]
           = Append([n \in DOMAIN seq |-> <<seq[n].id>>], <<s.id>>)
<1> DEFINE more == Append(seq, s)
           was == [n \in DOMAIN seq |-> <<seq[n].id>>]
           now == [n \in DOMAIN more |-> <<more[n].id>>]
<1>0. \A x \in Sample : x.id \in Nat
  BY DEF Sample
<1>1. Len(seq) \in Nat /\ DOMAIN seq = 1..Len(seq)
  OBVIOUS
<1>2. /\ more \in Seq(Sample) /\ DOMAIN more = 1..(Len(seq) + 1)
      /\ \A n \in 1..Len(seq) : more[n] = seq[n]
      /\ more[Len(seq) + 1] = s
  OBVIOUS
<1>3. was \in Seq(Seq(Nat)) /\ Len(was) = Len(seq) /\ <<s.id>> \in Seq(Nat)
  <2>1. \A n \in 1..Len(seq) : seq[n].id \in Nat
    BY <1>0, <1>1
  <2>2. \A n \in 1..Len(seq) : <<seq[n].id>> \in Seq(Nat)
    BY <2>1
  <2>3. was \in [1..Len(seq) -> Seq(Nat)]
    BY <1>1, <2>2
  <2>4. s.id \in Nat
    BY DEF Sample
  <2>5. QED
    BY <1>1, <2>3, <2>4
<1>4. /\ Append(was, <<s.id>>) \in Seq(Seq(Nat)) /\ Len(Append(was, <<s.id>>)) = Len(seq) + 1
      /\ \A n \in 1..Len(seq) : Append(was, <<s.id>>)[n] = was[n]
      /\ Append(was, <<s.id>>)[Len(seq) + 1] = <<s.id>>
  BY <1>3
<1>5. now \in Seq(Seq(Nat)) /\ Len(now) = Len(seq) + 1
  <2>1. \A n \in 1..(Len(seq) + 1) : more[n].id \in Nat
    BY <1>0, <1>1, <1>2
  <2>2. \A n \in 1..(Len(seq) + 1) : <<more[n].id>> \in Seq(Nat)
    BY <2>1
  <2>3. now \in [1..(Len(seq) + 1) -> Seq(Nat)]
    BY <1>2, <2>2
  <2>4. QED
    BY <1>1, <2>3
<1>6. ASSUME NEW n \in 1..(Len(seq) + 1) PROVE now[n] = Append(was, <<s.id>>)[n]
  BY <1>1, <1>2, <1>4
<1>7. now = Append(was, <<s.id>>)
  BY <1>4, <1>5, <1>6, SeqEqual
<1>8. QED
  BY <1>7

\* A lane that differs from another in some parts is that other, with its parts.
LEMMA LaneParts ==
  ASSUME NEW M, NEW W, NEW D, NEW old \in [made : M, waiting : W, delivered : D],
         NEW new \in [made : M, waiting : W, delivered : D]
  PROVE  /\ new.delivered = old.delivered =>
              new = [old EXCEPT !.made = new.made, !.waiting = new.waiting]
         /\ new.made = old.made /\ new.delivered = old.delivered =>
              new = [old EXCEPT !.waiting = new.waiting]
         /\ new.made = old.made =>
              new = [old EXCEPT !.waiting = new.waiting, !.delivered = new.delivered]
  OBVIOUS

\* The parts of the lane before and after a step.
LEMMA LaneTyped ==
  /\ Lane.made = stored /\ Lane.waiting = Waits /\ Lane.delivered = Delivered
  /\ Lane'.made = stored' /\ Lane'.waiting = Waits' /\ Lane'.delivered = Delivered'
  /\ Lane \in [made : {stored, stored'}, waiting : {Waits, Waits'}, delivered : {Delivered, Delivered'}]
  /\ Lane' \in [made : {stored, stored'}, waiting : {Waits, Waits'}, delivered : {Delivered, Delivered'}]
  BY DEF Lane

\* A sample stored goes behind the copy that is on its way, in place of what
\* was stored since.
LEMMA StorePuts == IInv /\ Store => Channel!Put(Lane, Lane')
<1> SUFFICES ASSUME IInv, Store PROVE Channel!Put(Lane, Lane')
  OBVIOUS
<1>1. /\ probe' = local /\ stored' = local.id
      /\ UNCHANGED <<adapter, resp, upc, sent>>
  BY DEF Store, file
<1>2. /\ local \in Sample /\ Waiting(local)
      /\ local.id \in {stored + 1} \cup (IF StoresFirst THEN {stored} ELSE {})
  BY DEF Store, IInv, Types, TypeOK, LocalInv, StoredInv, Waiting, Empty
<1>3. probe \in Sample /\ resp \in Sample /\ upc \in {"wait", "copy", "clear", "flag", "publish"}
  BY DEF IInv, Types, TypeOK
<1>4. PICK k \in 0..Len(Waits) : Waits' = Append(SubSeq(Waits, 1, k), local.id)
  <2>1. One(local) = <<local.id>> /\ One(probe) \in Seq(Nat) /\ One(resp) \in Seq(Nat)
    BY <1>2, <1>3, OneFacts
  <2>2. CASE upc \in {"wait", "copy"} \/ (upc = "clear" /\ local = resp)
    <3>1. Waits' = <<local.id>>
      <4>1. One(probe)' = <<local.id>>
        BY <1>1, <2>1 DEF One, Waiting
      <4>2. One(resp)' = One(resp)
        BY <1>1 DEF One, Waiting
      <4>3. local = resp => One(resp) \o <<>> = <<local.id>>
        BY <2>1
      <4>4. QED
        BY <1>1, <2>2, <4>1, <4>2, <4>3 DEF Waits
    <3>2. Waits \in Seq(Nat)
      BY <1>3, <2>1, <2>2, ConcatProperties DEF Waits
    <3>3. SubSeq(Waits, 1, 0) = <<>> /\ 0 \in 0..Len(Waits)
      BY <3>2, SubSeqEmpty
    <3>4. QED
      BY <3>1, <3>3
  <2>3. CASE upc \in {"flag", "publish"} \/ (upc = "clear" /\ local # resp)
    <3>1. Waits' = One(resp) \o <<local.id>>
      <4>1. One(probe)' = <<local.id>> /\ One(resp)' = One(resp)
        BY <1>1, <2>1 DEF One, Waiting
      <4>2. QED
        BY <1>1, <2>3, <4>1 DEF Waits
    <3>2. PICK b \in Seq(Nat) : Waits = One(resp) \o b
      <4>1. <<>> \in Seq(Nat)
        OBVIOUS
      <4>2. QED
        BY <2>1, <2>3, <4>1 DEF Waits
    <3>3. SubSeq(Waits, 1, Len(One(resp))) = One(resp) /\ Len(One(resp)) \in 0..Len(Waits)
      BY <2>1, <3>2, SplitAt
    <3>4. One(resp) \o <<local.id>> = Append(One(resp), local.id)
      BY <1>2, <2>1, AppendIsConcat DEF Sample
    <3>5. QED
      BY <3>1, <3>3, <3>4
  <2>4. QED
    BY <1>3, <2>2, <2>3
<1>5. Lane' = [Lane EXCEPT !.made = local.id, !.waiting = Append(SubSeq(Lane.waiting, 1, k), local.id)]
  <2>1. Delivered' = Delivered
    BY <1>1 DEF Delivered
  <2>2. QED
    BY <1>1, <1>4, <2>1, LaneTyped, LaneParts
<1>6. QED
  BY <1>2, <1>4, <1>5 DEF Channel!Put, Channel!Oldest, Lane

\* What was stored since the copy is lost when probe is cleared.
LEMMA ClearLoses == IInv /\ Clear => Channel!Lose(Lane, Lane')
<1> SUFFICES ASSUME IInv, Clear PROVE Channel!Lose(Lane, Lane')
  OBVIOUS
<1>1. upc = "clear" /\ upc' = "flag" /\ probe' = Empty /\ UNCHANGED <<resp, stored, sent>>
  BY DEF Clear, history
<1>2. One(probe) \in Seq(Nat) /\ One(resp) \in Seq(Nat) /\ One(Empty) = <<>>
  BY OneFacts DEF IInv, Types, TypeOK
<1>3. Waits' = One(resp)
  <2>1. One(resp)' = One(resp) /\ One(probe)' = One(Empty)
    BY <1>1 DEF One, Waiting
  <2>2. Waits' = One(resp) \o One(Empty)
    BY <1>1, <2>1 DEF Waits
  <2>3. QED
    BY <1>2, <2>2
<1>4. PICK b \in Seq(Nat) : Waits = One(resp) \o b
  <2>1. <<>> \in Seq(Nat)
    OBVIOUS
  <2>2. QED
    BY <1>1, <1>2, <2>1 DEF Waits
<1>5. SubSeq(Waits, 1, Len(One(resp))) = One(resp) /\ Len(One(resp)) \in 0..Len(Waits)
  BY <1>2, <1>4, SplitAt
<1>6. Lane' = [Lane EXCEPT !.waiting = SubSeq(Lane.waiting, 1, Len(One(resp)))]
  <2>1. Delivered' = Delivered
    BY <1>1 DEF Delivered
  <2>2. QED
    <3>1. Lane' = [Lane EXCEPT !.waiting = Lane'.waiting]
      <4>1. Lane'.made = Lane.made /\ Lane'.delivered = Lane.delivered
        BY <1>1, <2>1, LaneTyped
      <4>2. QED
        BY <4>1, LaneTyped, LaneParts
    <3>2. Lane'.waiting = SubSeq(Lane.waiting, 1, Len(One(resp)))
      BY <1>3, <1>5, LaneTyped
    <3>3. QED
      BY <3>1, <3>2
<1>7. QED
  BY <1>5, <1>6 DEF Channel!Lose, Channel!Oldest, Lane

\* Publishing delivers the copy, if it is a sample.
LEMMA PublishDelivers == IInv /\ Publish => Lane' = Lane \/ Channel!Deliver(Lane, Lane')
<1> SUFFICES ASSUME IInv, Publish PROVE Lane' = Lane \/ Channel!Deliver(Lane, Lane')
  OBVIOUS
<1>1. /\ upc = "publish" /\ upc' = "wait" /\ UNCHANGED <<probe, resp, stored>>
      /\ sent' = IF Waiting(resp) THEN Append(sent, resp) ELSE sent
  BY DEF Publish
<1>2. resp \in Sample /\ sent \in Seq(Sample) /\ One(probe) \in Seq(Nat) /\ One(resp) \in Seq(Nat)
  BY OneFacts DEF IInv, Types, TypeOK
<1>3. Waits = One(resp) \o One(probe)
  BY <1>1 DEF Waits
<1>4. Waits' = One(probe)
  <2>1. One(probe)' = One(probe)
    BY <1>1 DEF One, Waiting
  <2>2. QED
    BY <1>1, <2>1 DEF Waits
<1>5. CASE ~Waiting(resp)
  <2>1. Waits' = Waits
    <3>1. One(resp) = <<>>
      BY <1>2, <1>5, OneFacts
    <3>2. QED
      BY <1>2, <1>3, <1>4, <3>1
  <2>2. Delivered' = Delivered
    BY <1>1, <1>5 DEF Delivered
  <2>3. QED
    BY <1>1, <2>1, <2>2 DEF Lane
<1>6. CASE Waiting(resp)
  <2>1. One(resp) = <<resp.id>> /\ Len(One(resp)) = 1
    BY <1>2, <1>6, OneFacts
  <2>2. /\ SubSeq(Waits, 1, 1) = <<resp.id>> /\ 1 \in 0..Len(Waits)
        /\ SubSeq(Waits, 1 + 1, Len(Waits)) = One(probe)
    <3>1. /\ SubSeq(Waits, 1, Len(One(resp))) = One(resp) /\ Len(One(resp)) \in 0..Len(Waits)
          /\ SubSeq(Waits, Len(One(resp)) + 1, Len(Waits)) = One(probe)
      BY <1>2, <1>3, SplitAt
    <3>2. QED
      BY <2>1, <3>1
  <2>3. Delivered' = Append(Delivered, <<resp.id>>)
    BY <1>1, <1>2, <1>6, DeliveredAppended DEF Delivered
  <2>4. Lane' = [Lane EXCEPT !.waiting = SubSeq(Lane.waiting, 1 + 1, Len(Lane.waiting)),
                             !.delivered = Append(Lane.delivered, SubSeq(Lane.waiting, 1, 1))]
    BY <1>1, <1>4, <2>2, <2>3, LaneTyped, LaneParts
  <2>5. QED
    BY <2>2, <2>4 DEF Channel!Deliver, Channel!Oldest, Lane
<1>7. QED
  BY <1>5, <1>6

\* Each step is one of the lane, or the lane does not see it.
LEMMA LaneStepped == IInv /\ [Next]_vars => Lane' = Lane \/ Channel!LaneStep(Lane, Lane')
<1> SUFFICES ASSUME IInv, [Next]_vars PROVE Lane' = Lane \/ Channel!LaneStep(Lane, Lane')
  OBVIOUS
<1> USE DEF file, flags, history
<1>1. CASE Store
  BY <1>1, StorePuts DEF Channel!LaneStep
<1>2. CASE Clear
  BY <1>2, ClearLoses DEF Channel!LaneStep
<1>3. CASE Publish
  BY <1>3, PublishDelivers DEF Channel!LaneStep
<1>4. CASE Copy
  <2>1. One(probe) \in Seq(Nat)
    BY OneFacts DEF IInv, Types, TypeOK
  <2>2. Waits = One(probe) /\ Waits' = One(probe) \o <<>>
    BY <1>4 DEF Copy, Waits, One, Waiting
  <2>3. Waits' = Waits
    BY <2>1, <2>2
  <2>4. QED
    BY <1>4, <2>3 DEF Copy, Lane, Delivered
<1>5. CASE UploadTest \/ Flag
  <2>1. Waits' = Waits
    BY <1>5 DEF UploadTest, Flag, Waits, One, Waiting
  <2>2. QED
    BY <1>5, <2>1 DEF UploadTest, Flag, Lane, Delivered
<1>6. CASE Collector \/ Test \/ Unflag \/ ResetJson \/ Open \/ Parse \/ Mark
  <2>1. UNCHANGED <<probe, resp, upc, stored, sent>>
    BY <1>6 DEF Collector, Test, Unflag, ResetJson, Open, Parse, Mark
  <2>2. QED
    BY <2>1 DEF Lane, Delivered, Waits, One, Waiting
<1>7. CASE ParseThrows \/ PublishThrows \/ RaceKills \/ UNCHANGED vars
  <2>1. UNCHANGED <<probe, resp, upc, stored, sent>>
    BY <1>7 DEF ParseThrows, PublishThrows, RaceKills, vars
  <2>2. QED
    BY <2>1 DEF Lane, Delivered, Waits, One, Waiting
<1>8. QED
  BY <1>1, <1>2, <1>3, <1>4, <1>5, <1>6, <1>7 DEF Next, SampleTask, UploadTask

\* The flow channel is a lossy channel, in each adapter's order of the sampler's
\* steps (FlowCollection.cpp, SampleTask and UploadTask).
THEOREM IsLossyChannel == Spec => ImplementsChannel
<1>1. Init => Channel!Init
  <2> SUFFICES ASSUME Init PROVE Channel!Init
    OBVIOUS
  <2>1. stored = 0 /\ sent = <<>> /\ Waits = <<>>
    BY DEF Init, Waits, One, Waiting
  <2>2. [n \in DOMAIN sent |-> <<sent[n].id>>] = <<>>
    BY <2>1
  <2>3. StoresFirst \in BOOLEAN
    BY DEF StoresFirst
  <2>4. QED
    BY <2>1, <2>2, <2>3 DEF Channel!Init
<1>2. IInv /\ [Next]_vars => [Channel!Next]_(Channel!vars)
  <2> SUFFICES ASSUME IInv, [Next]_vars PROVE Channel!Next
    OBVIOUS
  <2>1. Lane' = Lane \/ Channel!LaneStep(Lane, Lane')
    BY LaneStepped
  <2>2. adapter' = adapter
    BY DEF Next, vars, Collector, SampleTask, UploadTask, Test, Unflag, ResetJson, Open, Parse, ParseThrows,
           Mark, Store, UploadTest, Copy, Clear, Flag, Publish, PublishThrows, RaceKills, file
  <2>3. UNCHANGED StoresFirst
    BY <2>2 DEF StoresFirst
  <2>4. QED
    BY <2>1, <2>3 DEF Channel!Next, Lane, Delivered
<1>3. QED
  BY Inductive, <1>1, <1>2, PTL DEF Spec, ImplementsChannel, Channel!Spec
=============================================================================
