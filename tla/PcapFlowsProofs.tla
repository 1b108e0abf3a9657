---------------------------- MODULE PcapFlowsProofs ----------------------------
(***************************************************************************)
(* Proofs about PcapFlows, for any flows, protocols, lengths and number of *)
(* packets: its types, that the names of the protocols are never printed,  *)
(* that it rewrites its file as RewrittenFile says, and that a complete    *)
(* file lists every flow wanted once, with what its packets sum up to.     *)
(***************************************************************************)
EXTENDS PcapFlows, FiniteSetTheorems, SequenceTheorems, TLAPS

-----------------------------------------------------------------------------
(* The inductive invariant *)

Token == [is : {"header", "footer", "comma", "name"}]
           \cup [is : {"flow"}, key : Keys, bytes : Counter, first : Times, last : Times, label : Labels]

\* The table grows a flow at a time. No flow is counted for its protocol: a
\* counter of its width does not reach n_packets.
TableInv ==
  /\ DOMAIN flows \subseteq Keys /\ flows \in [DOMAIN flows -> Flow]
  /\ IsFiniteSet(DOMAIN flows)
  /\ protocolFlows = [l \in Labels |-> 0]
  /\ seen \in Seq(Packet) /\ Len(seen) <= MaxPackets

\* The stream is open while the flows are walked; else the file holds all of
\* what was printed.
StreamInv ==
  /\ pc \in {"capture", "count", "walk", "end"}
  /\ out \in Seq(Token) /\ flushed \in 0..Len(out)
  /\ walk \subseteq DOMAIN flows /\ commaFlag \in {0, 1}
  /\ writes \in Nat
  /\ writes > 0 => Len(out) > 0
  /\ pc = "walk" => writes > 0
  /\ pc # "walk" => flushed = Len(out)

\* A rewrite has its packet, or is among the first for packets without a flow.
RewriteInv ==
  /\ writes + (IF pc = "count" THEN 1 ELSE 0) <= MaxPackets + Len(seen)
  /\ ~conf.live /\ pc = "capture" => writes = 0

IInv == conf \in Confs /\ alive \in BOOLEAN /\ TableInv /\ StreamInv /\ RewriteInv

-----------------------------------------------------------------------------
(* What is listed: a stronger invariant, for ListingExact *)

\* The lengths of the packets of seq at the positions in S, added.
SumOf(seq, S) == MapThenSumSet(LAMBDA n : seq[n].len, S)

\* A flow says of the packets at these positions of the log what a listing must
\* say; in those found a protocol was guessed.
Summarises(f, log, packets, found) ==
  /\ f.first \in packets /\ \A n \in packets : f.first <= n
  /\ f.last \in packets /\ \A n \in packets : n <= f.last
  /\ f.bytes = SumOf(log, packets) % Width
  /\ IF f.completed
     THEN \E n \in found : f.label = log[n].guess /\ \A m \in found : n <= m
     ELSE f.label = Unknown /\ found = {}

TruthInv ==
  \A k \in Keys :
    /\ k \in DOMAIN flows <=> PacketsOf(k) # {}
    /\ k \in DOMAIN flows => Summarises(flows[k], seen, PacketsOf(k), Found(k))

\* As far as the walk has come, the flows permitted are listed, each in a line
\* of its own, with a comma before all of them but the first.
Listed == {k \in DOMAIN flows \ walk : Permitted(flows[k].label)}
Entries == {Entry(k, flows[k]) : k \in Listed}
Lines(o) == {n \in DOMAIN o : n % 2 = 0}
Says(o, lines) == {o[n] : n \in lines}
ListInv ==
  pc = "walk" =>
    /\ out[1] = Mark("header")
    /\ IF commaFlag = 0 THEN Listed = {} /\ Len(out) = 1 ELSE Len(out) % 2 = 0
    /\ \A n \in 2..Len(out) : n % 2 = 1 => out[n] = Mark("comma")
    /\ Says(out, Lines(out)) = Entries
    /\ \A m, n \in Lines(out) : out[m] = out[n] => m = n

-----------------------------------------------------------------------------
\* What a packet makes of its flow.
LEMMA CountedTyped ==
  ASSUME NEW f \in Flow, NEW p \in Packet, NEW time \in Times
  PROVE  Counted(f, p, time) \in Flow
<1> DEFINE g == [f EXCEPT !.packets = Inc(f.packets, 1), !.bytes = Inc(f.bytes, p.len), !.last = time]
<1>1. /\ f.packets \in Int /\ f.bytes \in Int /\ p.len \in Int
      /\ Width \in Nat \ {0}
  <2>1. Width \in Nat \ {0} /\ (\A n \in Counter : n \in Int) /\ (\A n \in Lengths : n \in Int)
    BY LengthsAssumption DEF Counter
  <2>2. f.packets \in Counter /\ f.bytes \in Counter /\ p.len \in Lengths
    BY DEF Flow, Packet
  <2>3. QED
    BY <2>1, <2>2
<1>2. Inc(f.packets, 1) \in Counter /\ Inc(f.bytes, p.len) \in Counter
  BY <1>1 DEF Inc, Counter
<1>3. g \in Flow
  BY <1>2 DEF Flow
<1>4. p.guess \in Labels
  BY DEF Packet
<1> HIDE DEF g
<1>5. Detect(g, p.guess) \in Flow
  <2>1. (p.guess # Unknown) \in BOOLEAN
    OBVIOUS
  <2>2. QED
    BY <1>3, <1>4, <2>1 DEF Detect, Flow
<1>6. QED
  BY <1>5 DEF Counted, g

\* No protocol has a flow with that many packets.
LEMMA NothingTallied ==
  ASSUME TableInv
  PROVE  Tally = [l \in Labels |-> 0] /\ Names = <<>>
<1>1. ASSUME NEW l \in Labels
      PROVE  {k \in DOMAIN flows : flows[k].label = l /\ flows[k].packets >= NPackets} = {}
  <2>1. ASSUME NEW k \in DOMAIN flows PROVE ~(flows[k].packets >= NPackets)
    <3>1. flows[k].packets \in Counter
      BY DEF TableInv, Flow
    <3>2. QED
      BY <3>1, LengthsAssumption, LimitsAssumption DEF Counter
  <2>2. QED
    BY <2>1
<1>2. Cardinality({}) = 0
  BY FS_EmptySet
<1>3. ASSUME NEW l \in Labels
      PROVE  protocolFlows[l] + Cardinality({k \in DOMAIN flows :
                flows[k].label = l /\ flows[k].packets >= NPackets}) = 0
  <2>1. protocolFlows[l] = 0
    BY DEF TableInv
  <2>2. Cardinality({k \in DOMAIN flows : flows[k].label = l /\ flows[k].packets >= NPackets}) = 0
    BY <1>1, <1>2
  <2>3. QED
    BY <2>1, <2>2
<1>4. Tally = [l \in Labels |-> 0]
  BY <1>3 DEF Tally
<1>5. {l \in Labels : Tally[l] >= MinObjects} = {}
  BY <1>4, LimitsAssumption
<1>6. Names = <<>>
  <2>1. Names = [n \in 1..0 |-> Mark("name")]
    BY <1>2, <1>5 DEF Names
  <2>2. QED
    BY <2>1
<1>7. QED
  BY <1>4, <1>6

-----------------------------------------------------------------------------
(* Each step keeps the invariant *)

LEMMA PacketStep ==
  ASSUME IInv, NEW p \in Packet, FlowPacket(p)
  PROVE  IInv'
<1> DEFINE time == Len(seen) + 1
           keys == DOMAIN flows \cup {p.key}
<1>1. /\ alive /\ pc = "capture" /\ time <= MaxPackets
      /\ flows' = [k \in keys |-> IF k = p.key THEN Counted(FlowOf(k, time), p, time) ELSE flows[k]]
      /\ seen' = Append(seen, p)
      /\ pc' = IF conf.live THEN "count" ELSE "capture"
      /\ UNCHANGED <<conf, protocolFlows, walk, commaFlag, out, flushed, writes, alive>>
  BY DEF FlowPacket, output
<1>2. seen \in Seq(Packet) /\ Len(seen) \in Nat /\ time \in Times /\ MaxPackets \in Nat
  BY <1>1, LimitsAssumption DEF IInv, TableInv, Times
<1>3. seen' \in Seq(Packet) /\ Len(seen') = Len(seen) + 1
  BY <1>1, <1>2
<1>4. p.key \in Keys
  BY DEF Packet
<1>5. FlowOf(p.key, time) \in Flow
  <2>1. NewFlow(time) \in Flow
    <3>1. 0 \in Counter /\ Unknown \in Labels
      BY LengthsAssumption DEF Counter, Labels
    <3>2. QED
      BY <1>2, <3>1 DEF NewFlow, Flow
  <2>2. QED
    BY <2>1 DEF FlowOf, IInv, TableInv
<1>6. Counted(FlowOf(p.key, time), p, time) \in Flow
  BY <1>2, <1>5, CountedTyped
<1>7. TableInv'
  <2>1. DOMAIN flows' = keys /\ flows' \in [keys -> Flow]
    BY <1>1, <1>6 DEF IInv, TableInv
  <2>2. IsFiniteSet(keys)
    BY FS_AddElement DEF IInv, TableInv
  <2>3. QED
    BY <1>1, <1>2, <1>3, <1>4, <2>1, <2>2 DEF IInv, TableInv
<1>8. StreamInv'
  BY <1>1, <1>7 DEF IInv, StreamInv
<1>9. RewriteInv'
  BY <1>1, <1>2, <1>3 DEF IInv, RewriteInv, StreamInv
<1>10. QED
  BY <1>1, <1>7, <1>8, <1>9 DEF IInv

LEMMA OpenStep == IInv /\ Open => IInv'
<1> SUFFICES ASSUME IInv, Open PROVE IInv'
  OBVIOUS
<1>1. Tally = [l \in Labels |-> 0] /\ Names = <<>>
  BY NothingTallied DEF IInv
<1>2. out' = <<Mark("header")>>
  <2>1. <<Mark("header")>> \in Seq(Token)
    BY DEF Mark, Token
  <2>2. QED
    BY <1>1, <2>1, ConcatEmptySeq DEF Open
<1>3. out' \in Seq(Token) /\ Len(out') = 1
  BY <1>2 DEF Mark, Token
<1>4. TableInv'
  BY <1>1 DEF Open, IInv, TableInv
<1>5. StreamInv'
  BY <1>3 DEF Open, IInv, StreamInv
<1>6. RewriteInv'
  BY DEF Open, IInv, RewriteInv, StreamInv
<1>7. QED
  BY <1>4, <1>5, <1>6 DEF Open, IInv

LEMMA VisitStep == ASSUME IInv, NEW k \in Keys, Visit(k) PROVE IInv'
<1>1. /\ pc = "walk" /\ k \in walk /\ walk' = walk \ {k}
      /\ UNCHANGED <<conf, flows, protocolFlows, pc, flushed, writes, alive, seen>>
  BY DEF Visit, table
<1>2. commaFlag' \in {0, 1}
  BY DEF Visit, IInv, StreamInv
<1>3. out' \in Seq(Token) /\ Len(out') >= Len(out)
  <2>1. out \in Seq(Token)
    BY DEF IInv, StreamInv
  <2>2. CASE ~Permitted(flows[k].label)
    BY <2>1, <2>2 DEF Visit
  <2>3. CASE Permitted(flows[k].label)
    <3> DEFINE comma == IF commaFlag = 1 THEN <<Mark("comma")>> ELSE <<>>
    <3>1. comma \in Seq(Token)
      <4>1. Mark("comma") \in Token
        BY DEF Mark, Token
      <4>2. <<Mark("comma")>> \in Seq(Token) /\ <<>> \in Seq(Token)
        BY <4>1
      <4>3. QED
        BY <4>2
    <3>2. k \in Keys /\ flows[k] \in Flow
      BY <1>1 DEF IInv, TableInv, StreamInv
    <3>3. Entry(k, flows[k]) \in Token
      BY <3>2 DEF Entry, Token, Flow
    <3>4. <<Entry(k, flows[k])>> \in Seq(Token) /\ Len(<<Entry(k, flows[k])>>) = 1
      BY <3>3
    <3>5. out' = (out \o comma) \o <<Entry(k, flows[k])>>
      BY <2>3 DEF Visit
    <3> HIDE DEF comma
    <3>6. out \o comma \in Seq(Token) /\ Len(out \o comma) = Len(out) + Len(comma)
      BY <2>1, <3>1, ConcatProperties
    <3>7. out' \in Seq(Token) /\ Len(out') = Len(out \o comma) + 1
      BY <3>4, <3>5, <3>6, ConcatProperties
    <3>8. Len(comma) \in Nat /\ Len(out) \in Nat
      BY <2>1, <3>1
    <3>9. QED
      BY <3>6, <3>7, <3>8
  <2>4. QED
    BY <2>2, <2>3
<1>4. StreamInv'
  <2>1. Len(out) \in Nat /\ Len(out') \in Nat
    BY <1>3 DEF IInv, StreamInv
  <2>2. QED
    BY <1>1, <1>2, <1>3, <2>1 DEF IInv, StreamInv
<1>5. TableInv' /\ RewriteInv'
  BY <1>1 DEF IInv, TableInv, RewriteInv
<1>6. QED
  BY <1>1, <1>4, <1>5 DEF IInv

LEMMA CloseStep == IInv /\ Close => IInv'
<1> SUFFICES ASSUME IInv, Close PROVE IInv'
  OBVIOUS
<1>1. /\ pc = "walk" /\ out' = Append(out, Mark("footer")) /\ flushed' = Len(out')
      /\ pc' = IF conf.live THEN "capture" ELSE "end"
      /\ UNCHANGED <<conf, flows, protocolFlows, walk, commaFlag, writes, alive, seen>>
  BY DEF Close, table
<1>2. out' \in Seq(Token) /\ Len(out') = Len(out) + 1 /\ Len(out) \in Nat
  BY <1>1 DEF IInv, StreamInv, Mark, Token
<1>3. StreamInv'
  BY <1>1, <1>2 DEF IInv, StreamInv
<1>4. TableInv' /\ RewriteInv'
  BY <1>1 DEF IInv, TableInv, RewriteInv
<1>5. QED
  BY <1>1, <1>3, <1>4 DEF IInv

LEMMA Step == IInv /\ [Next]_vars => IInv'
<1> SUFFICES ASSUME IInv, [Next]_vars PROVE IInv'
  OBVIOUS
<1>1. CASE \E p \in Packet : FlowPacket(p)
  BY <1>1, PacketStep
<1>2. CASE OtherPacket \/ EndOfCapture
  <2>1. /\ pc = "capture" /\ pc' = "count" /\ (writes < MaxPackets \/ ~conf.live)
        /\ UNCHANGED <<conf, table, output, alive, seen>>
    BY <1>2 DEF OtherPacket, EndOfCapture
  <2>2. writes \in Nat /\ Len(seen) \in Nat /\ MaxPackets \in Nat \ {0}
    BY LimitsAssumption DEF IInv, StreamInv, TableInv
  <2>3. RewriteInv'
    BY <2>1, <2>2 DEF IInv, RewriteInv, output
  <2>4. QED
    BY <2>1, <2>3 DEF IInv, TableInv, StreamInv, table, output
<1>3. CASE TableFull
  BY <1>3 DEF TableFull, IInv, TableInv, StreamInv, RewriteInv, table, output
<1>4. CASE Open
  BY <1>4, OpenStep
<1>5. CASE OpenFails
  <2>1. protocolFlows' = protocolFlows
    BY <1>5, NothingTallied DEF OpenFails, IInv, TableInv
  <2>2. QED
    BY <1>5, <2>1 DEF OpenFails, IInv, TableInv, StreamInv, RewriteInv, output
<1>6. CASE \E k \in Keys : Visit(k)
  BY <1>6, VisitStep
<1>7. CASE Flush
  BY <1>7 DEF Flush, IInv, TableInv, StreamInv, RewriteInv, table
<1>8. CASE Close
  BY <1>8, CloseStep
<1>9. CASE UNCHANGED vars
  BY <1>9 DEF vars, IInv, TableInv, StreamInv, RewriteInv, table, output
<1>10. QED
  BY <1>1, <1>2, <1>3, <1>4, <1>5, <1>6, <1>7, <1>8, <1>9 DEF Next, Capture, PrintResults

\* Nothing is captured and the file is that of an earlier run.
LEMMA InitHolds == Init => IInv
<1> SUFFICES ASSUME Init PROVE IInv
  OBVIOUS
<1>1. TableInv
  <2>1. DOMAIN flows = {} /\ flows \in [DOMAIN flows -> Flow]
    BY DEF Init
  <2>2. seen \in Seq(Packet) /\ Len(seen) = 0
    BY DEF Init
  <2>3. QED
    BY <2>1, <2>2, FS_EmptySet, LimitsAssumption DEF Init, TableInv
<1>2. StreamInv /\ RewriteInv
  BY LimitsAssumption DEF Init, StreamInv, RewriteInv
<1>3. alive \in BOOLEAN
  BY DEF Init
<1>4. QED
  BY <1>1, <1>2, <1>3 DEF Init, IInv

LEMMA Inductive == Spec => []IInv
  BY InitHolds, Step, PTL DEF Spec

-----------------------------------------------------------------------------
(* Sums. What a fold gives is known from the smallest set for which it would   *)
(* be something else.                                                         *)

Weighed(seq, S) == \A n \in S : seq[n].len \in Nat

\* F is the sum of each part of S, whichever element is taken out first.
Sums(F, seq, S) ==
  /\ F \in [SUBSET S -> Nat]
  /\ F[{}] = 0
  /\ \A T \in SUBSET S : \A x \in T : F[T] = seq[x].len + F[T \ {x}]

\* Of subsets of a finite set there is a smallest one.
LEMMA SmallestSubset ==
  ASSUME NEW S, IsFiniteSet(S), NEW B \in SUBSET (SUBSET S), B # {}
  PROVE  \E T \in B : \A U \in B : U \subseteq T => U = T
<1>1. IsWellFoundedOn(StrictSubsetOrdering(S), SUBSET S)
  BY FS_StrictSubsetOrderingWellFounded, FS_FiniteSubsetsOfFinite
<1>2. PICK T \in B : \A U \in B : ~(<<U, T>> \in StrictSubsetOrdering(S))
  BY <1>1, WFMin
<1>3. ASSUME NEW U \in B, U \subseteq T PROVE U = T
  <2>1. U \in SUBSET S /\ T \in SUBSET S
    OBVIOUS
  <2>2. ~(<<U, T>> \in StrictSubsetOrdering(S))
    BY <1>2
  <2>3. QED
    BY <1>3, <2>1, <2>2 DEF StrictSubsetOrdering
<1>4. QED
  BY <1>3

\* With a further element there are sums if there are without it.
LEMMA SumsGrow ==
  ASSUME NEW seq, NEW S, NEW x, x \notin S, Weighed(seq, S \cup {x}), NEW F, Sums(F, seq, S)
  PROVE  \E G : Sums(G, seq, S \cup {x})
<1> DEFINE G == [T \in SUBSET (S \cup {x}) |-> F[T \ {x}] + (IF x \in T THEN seq[x].len ELSE 0)]
<1>1. \A T \in SUBSET (S \cup {x}) : T \ {x} \in SUBSET S
  OBVIOUS
<1>2. /\ \A T \in SUBSET S : F[T] \in Nat
      /\ F[{}] = 0
      /\ \A T \in SUBSET S : \A y \in T : F[T] = seq[y].len + F[T \ {y}]
      /\ \A y \in S \cup {x} : seq[y].len \in Nat
  BY DEF Sums, Weighed
<1>3. G \in [SUBSET (S \cup {x}) -> Nat]
  BY <1>1, <1>2
<1>4. G[{}] = 0
  <2>1. {} \ {x} = {} /\ {} \in SUBSET (S \cup {x}) /\ x \notin {}
    OBVIOUS
  <2>2. QED
    BY <1>2, <2>1
<1>5. ASSUME NEW T \in SUBSET (S \cup {x}), NEW y \in T PROVE G[T] = seq[y].len + G[T \ {y}]
  <2>1. T \ {y} \in SUBSET (S \cup {x}) /\ F[T \ {x}] \in Nat
    BY <1>1, <1>2
  <2>2. /\ G[T] = F[T \ {x}] + (IF x \in T THEN seq[x].len ELSE 0)
        /\ G[T \ {y}] = F[(T \ {y}) \ {x}] + (IF x \in T \ {y} THEN seq[x].len ELSE 0)
    BY <2>1
  <2> HIDE DEF G
  <2>3. CASE y = x
    <3>1. (T \ {y}) \ {x} = T \ {x} /\ x \in T /\ x \notin T \ {y}
      BY <2>3
    <3>2. seq[x].len \in Nat
      BY <1>2
    <3>3. G[T] = F[T \ {x}] + seq[x].len /\ G[T \ {y}] = F[T \ {x}]
      BY <2>1, <2>2, <3>1
    <3>4. QED
      BY <2>1, <2>3, <3>2, <3>3
  <2>4. CASE y # x
    <3>1. (T \ {y}) \ {x} = (T \ {x}) \ {y} /\ y \in T \ {x} /\ (x \in T \ {y} <=> x \in T)
      BY <2>4
    <3>2. (T \ {x}) \ {y} \in SUBSET S /\ T \ {x} \in SUBSET S
      OBVIOUS
    <3>3. /\ F[T \ {x}] = seq[y].len + F[(T \ {x}) \ {y}]
          /\ F[(T \ {x}) \ {y}] \in Nat
      BY <1>2, <3>1, <3>2
    <3>4. seq[y].len \in Nat /\ seq[x].len \in Nat
      BY <1>2
    <3>5. QED
      BY <2>2, <3>1, <3>3, <3>4
  <2>5. QED
    BY <2>3, <2>4
<1> HIDE DEF G
<1>6. Sums(G, seq, S \cup {x})
  BY <1>3, <1>4, <1>5 DEF Sums
<1>7. QED
  BY <1>6

\* A finite set has sums: it has no smallest subset without.
LEMMA SumsExist ==
  ASSUME NEW seq, NEW S, IsFiniteSet(S), Weighed(seq, S)
  PROVE  \E F : Sums(F, seq, S)
<1> DEFINE B == {T \in SUBSET S : ~ \E F : Sums(F, seq, T)}
<1>1. SUFFICES ASSUME B # {} PROVE FALSE
  <2>1. S \in SUBSET S
    OBVIOUS
  <2>2. QED
    BY <1>1, <2>1
<1>2. PICK T \in B : \A U \in B : U \subseteq T => U = T
  <2>1. B \in SUBSET (SUBSET S)
    OBVIOUS
  <2> HIDE DEF B
  <2>2. QED
    BY <1>1, <2>1, SmallestSubset
<1>3. CASE T = {}
  <2> DEFINE F == [U \in SUBSET T |-> 0]
  <2>1. Sums(F, seq, T)
    BY <1>3 DEF Sums
  <2>2. QED
    BY <2>1
<1>4. CASE T # {}
  <2>1. PICK x \in T : TRUE
    BY <1>4
  <2> DEFINE U == T \ {x}
  <2>2. U \in SUBSET S /\ U \subseteq T /\ U # T /\ U \cup {x} = T /\ x \notin U
    BY <2>1
  <2>3. U \notin B
    BY <1>2, <2>2
  <2>4. PICK F : Sums(F, seq, U)
    BY <2>2, <2>3
  <2>5. Weighed(seq, U \cup {x})
    BY <2>2 DEF Weighed
  <2> HIDE DEF U
  <2>6. \E G : Sums(G, seq, U \cup {x})
    BY <2>2, <2>4, <2>5, SumsGrow
  <2>7. QED
    BY <2>2, <2>6
<1>5. QED
  BY <1>3, <1>4

\* The recursion of the fold.
Folded(F, seq, S) ==
  F = [s \in SUBSET S |->
         IF s = {} THEN 0 ELSE LET x == CHOOSE x \in s : TRUE IN seq[x].len + F[s \ {x}]]

\* Two functions that follow the fold are the same: there is no smallest set on
\* which they differ.
LEMMA FoldsAlike ==
  ASSUME NEW seq, NEW S, IsFiniteSet(S), NEW F, NEW G, Folded(F, seq, S), Folded(G, seq, S)
  PROVE  F = G
<1>1. /\ DOMAIN F = SUBSET S /\ DOMAIN G = SUBSET S
      /\ F = [s \in SUBSET S |-> F[s]] /\ G = [s \in SUBSET S |-> G[s]]
  BY DEF Folded
<1> DEFINE B == {T \in SUBSET S : F[T] # G[T]}
<1>2. SUFFICES ASSUME B # {} PROVE FALSE
  <2>1. \A s \in SUBSET S : F[s] = G[s]
    BY <1>2
  <2>2. QED
    BY <1>1, <2>1
<1>3. PICK T \in B : \A U \in B : U \subseteq T => U = T
  <2>1. B \in SUBSET (SUBSET S)
    OBVIOUS
  <2> HIDE DEF B
  <2>2. QED
    BY <1>2, <2>1, SmallestSubset
<1>4. T \in SUBSET S /\ F[T] # G[T]
  OBVIOUS
<1>5. CASE T = {}
  BY <1>4, <1>5 DEF Folded
<1>6. CASE T # {}
  <2> DEFINE x == CHOOSE x \in T : TRUE
             U == T \ {x}
  <2>1. x \in T
    BY <1>6
  <2>2. U \in SUBSET S /\ U \subseteq T /\ U # T
    BY <2>1
  <2>3. F[U] = G[U]
    BY <1>3, <2>2
  <2>4. F[T] = seq[x].len + F[U] /\ G[T] = seq[x].len + G[U]
    BY <1>4, <1>6 DEF Folded
  <2>5. QED
    BY <1>4, <2>3, <2>4
<1>7. QED
  BY <1>5, <1>6

\* The sums follow the fold, whichever element it takes.
LEMMA SumsFold ==
  ASSUME NEW seq, NEW S, NEW F, Sums(F, seq, S)
  PROVE  Folded(F, seq, S)
<1> DEFINE G == [s \in SUBSET S |->
         IF s = {} THEN 0 ELSE LET x == CHOOSE x \in s : TRUE IN seq[x].len + F[s \ {x}]]
<1>1. ASSUME NEW s \in SUBSET S PROVE F[s] = G[s]
  <2>1. CASE s = {}
    BY <2>1 DEF Sums
  <2>2. CASE s # {}
    <3> DEFINE x == CHOOSE x \in s : TRUE
    <3>1. x \in s
      BY <2>2
    <3> HIDE DEF x
    <3>2. F[s] = seq[x].len + F[s \ {x}]
      BY <3>1 DEF Sums
    <3>3. G[s] = seq[x].len + F[s \ {x}]
      BY <2>2 DEF x
    <3>4. QED
      BY <3>2, <3>3
  <2>3. QED
    BY <2>1, <2>2
<1>2. F = [s \in SUBSET S |-> F[s]]
  BY DEF Sums
<1>3. F = G
  <2> HIDE DEF G
  <2>1. G = [s \in SUBSET S |-> G[s]]
    BY DEF G
  <2>2. QED
    BY <1>1, <1>2, <2>1
<1>4. QED
  BY <1>3 DEF Folded

\* What the fold gives is the sum.
LEMMA SumIs ==
  ASSUME NEW seq, NEW S, IsFiniteSet(S), NEW F, Sums(F, seq, S)
  PROVE  SumOf(seq, S) = F[S]
<1> DEFINE iter == CHOOSE iter : Folded(iter, seq, S)
<1>1. Folded(F, seq, S)
  BY SumsFold
<1>2. Folded(iter, seq, S)
  BY <1>1
<1>3. iter = F
  <2> HIDE DEF iter
  <2>1. QED
    BY <1>1, <1>2, FoldsAlike
<1>4. SumOf(seq, S) = iter[S]
  BY DEF SumOf, MapThenSumSet, MapThenFoldSet, Folded
<1>5. QED
  BY <1>3, <1>4

\* A further packet adds its length, whatever follows in the sequence.
LEMMA SumGrows ==
  ASSUME NEW seq, NEW S, IsFiniteSet(S), NEW x, x \notin S, Weighed(seq, S \cup {x})
  PROVE  SumOf(seq, S \cup {x}) = SumOf(seq, S) + seq[x].len /\ SumOf(seq, S) \in Nat
<1>1. Weighed(seq, S)
  BY DEF Weighed
<1>2. IsFiniteSet(S \cup {x})
  BY FS_AddElement
<1>3. PICK F : Sums(F, seq, S \cup {x})
  BY <1>2, SumsExist
<1> DEFINE G == [T \in SUBSET S |-> F[T]]
<1>4. Sums(G, seq, S)
  <2>1. SUBSET S \subseteq SUBSET (S \cup {x}) /\ {} \in SUBSET S
    OBVIOUS
  <2>2. G \in [SUBSET S -> Nat] /\ G[{}] = 0
    BY <1>3, <2>1 DEF Sums
  <2>3. ASSUME NEW T \in SUBSET S, NEW y \in T PROVE G[T] = seq[y].len + G[T \ {y}]
    BY <1>3, <2>1 DEF Sums
  <2>4. QED
    BY <2>2, <2>3 DEF Sums
<1>5. SumOf(seq, S) = F[S] /\ F[S] \in Nat
  <2>1. SumOf(seq, S) = G[S] /\ G[S] \in Nat
    <3>1. G[S] \in Nat
      BY <1>4 DEF Sums
    <3> HIDE DEF G
    <3>2. QED
      BY <1>4, <3>1, SumIs
  <2>2. QED
    BY <2>1
<1>6. SumOf(seq, S \cup {x}) = F[S \cup {x}]
  BY <1>2, <1>3, SumIs
<1>7. F[S \cup {x}] = seq[x].len + F[S]
  <2>1. (S \cup {x}) \ {x} = S /\ S \cup {x} \in SUBSET (S \cup {x}) /\ x \in S \cup {x}
    OBVIOUS
  <2>2. QED
    BY <1>3, <2>1 DEF Sums
<1>8. seq[x].len \in Nat
  BY DEF Weighed
<1>9. QED
  BY <1>5, <1>6, <1>7, <1>8

\* The sum depends on the packets at these positions only.
LEMMA SumAlike ==
  ASSUME NEW seq, NEW other, NEW S, IsFiniteSet(S), Weighed(seq, S), \A n \in S : other[n] = seq[n]
  PROVE  SumOf(other, S) = SumOf(seq, S)
<1>1. PICK F : Sums(F, seq, S)
  BY SumsExist
<1>2. Sums(F, other, S)
  BY <1>1 DEF Sums
<1>3. QED
  BY <1>1, <1>2, SumIs

\* No packets, no bytes.
LEMMA SumEmpty == ASSUME NEW seq PROVE SumOf(seq, {}) = 0
<1> DEFINE F == [U \in SUBSET {} |-> 0]
<1>1. Sums(F, seq, {})
  BY DEF Sums
<1>2. F[{}] = 0
  OBVIOUS
<1> HIDE DEF F
<1>3. QED
  BY <1>1, <1>2, SumIs, FS_EmptySet

-----------------------------------------------------------------------------
(* Counters wrap *)

\* What is left of a number lies below the divisor.
LEMMA DivMod ==
  ASSUME NEW a \in Nat, NEW w \in Nat \ {0}
  PROVE  a \div w \in Nat /\ a % w \in 0..(w-1) /\ a = w * (a \div w) + (a % w)
  OBVIOUS

\* A counter that wraps at each step holds what the sum wraps to at the end.
LEMMA ModAdds ==
  ASSUME NEW a \in Nat, NEW d \in Nat, NEW w \in Nat \ {0}
  PROVE  ((a % w) + d) % w = (a + d) % w
<1> DEFINE b == (a % w) + d
           c == a + d
           r == b % w
           s == c % w
           q == (a \div w) + (b \div w) - (c \div w)
<1>1. a % w \in Nat /\ a \div w \in Nat /\ a = w * (a \div w) + (a % w)
  BY DivMod
<1>2. b \in Nat /\ c \in Nat
  BY <1>1
<1>3. c = w * (a \div w) + b
  BY <1>1
<1> HIDE DEF b, c
<1>4. /\ b \div w \in Nat /\ r \in 0..(w - 1) /\ b = w * (b \div w) + r
      /\ c \div w \in Nat /\ s \in 0..(w - 1) /\ c = w * (c \div w) + s
  BY <1>2, DivMod
<1> HIDE DEF r, s
<1>5. q \in Int /\ w * q = s - r
  <2>1. \A i, j, k \in Int : w * (i + j - k) = w * i + w * j - w * k
    OBVIOUS
  <2>2. w * q = w * (a \div w) + w * (b \div w) - w * (c \div w)
    BY <1>1, <1>4, <2>1
  <2> DEFINE wa == w * (a \div w)
             wb == w * (b \div w)
             wc == w * (c \div w)
  <2>3. wa \in Int /\ wb \in Int /\ wc \in Int
    BY <1>1, <1>4
  <2>4. c = wa + b /\ b = wb + r /\ c = wc + s /\ w * q = wa + wb - wc
    BY <1>3, <1>4, <2>2
  <2>5. q \in Int
    BY <1>1, <1>4
  <2> HIDE DEF wa, wb, wc, q
  <2>6. QED
    BY <1>2, <1>4, <2>3, <2>4, <2>5
<1> HIDE DEF q
<1>6. CASE q >= 1
  <2>1. w * q >= w
    BY <1>5, <1>6
  <2>2. QED
    BY <1>4, <1>5, <2>1
<1>7. CASE q <= -1
  <2>1. w * q <= -w
    BY <1>5, <1>7
  <2>2. QED
    BY <1>4, <1>5, <2>1
<1>8. CASE q = 0
  <2>1. r = s
    BY <1>4, <1>5, <1>8
  <2>2. QED
    BY <2>1 DEF b, c, r, s
<1>9. QED
  BY <1>5, <1>6, <1>7, <1>8

-----------------------------------------------------------------------------
(* A flow summarises its packets *)

\* A member that none is below is the minimum.
LEMMA LeastIs ==
  ASSUME NEW S \in SUBSET Int, NEW m \in S, \A n \in S : m <= n
  PROVE  Min(S) = m
<1>1. Min(S) \in S /\ \A n \in S : Min(S) <= n
  BY DEF Min
<1>2. Min(S) <= m /\ m <= Min(S) /\ Min(S) \in Int /\ m \in Int
  BY <1>1
<1>3. QED
  BY <1>2

\* A member that none is above is the maximum.
LEMMA GreatestIs ==
  ASSUME NEW S \in SUBSET Int, NEW m \in S, \A n \in S : n <= m
  PROVE  Max(S) = m
<1>1. Max(S) \in S /\ \A n \in S : Max(S) >= n
  BY DEF Max
<1>2. Max(S) >= m /\ m >= Max(S) /\ Max(S) \in Int /\ m \in Int
  BY <1>1
<1>3. QED
  BY <1>2

\* The packets of a flow, before another packet and after it.
LEMMA PacketsNext ==
  ASSUME seen \in Seq(Packet), NEW p \in Packet, seen' = Append(seen, p), NEW k,
         NEW time, time = Len(seen) + 1
  PROVE  /\ PacketsOf(k) \subseteq 1..Len(seen) /\ Len(seen) \in Nat /\ time \notin PacketsOf(k)
         /\ PacketsOf(k)' = IF p.key = k THEN PacketsOf(k) \cup {time} ELSE PacketsOf(k)
         /\ Found(k)' = IF p.key = k /\ p.guess # Unknown THEN Found(k) \cup {time} ELSE Found(k)
         /\ Found(k) \subseteq PacketsOf(k)
         /\ \A n \in PacketsOf(k) : seen'[n] = seen[n]
         /\ seen'[time] = p
<1>1. /\ Len(seen) \in Nat /\ DOMAIN seen = 1..Len(seen) /\ DOMAIN seen' = 1..time
      /\ \A n \in 1..Len(seen) : seen'[n] = seen[n]
      /\ seen'[time] = p
  OBVIOUS
<1>2. 1..time = (1..Len(seen)) \cup {time} /\ time \notin 1..Len(seen)
  BY <1>1
<1>3. PacketsOf(k) = {n \in 1..Len(seen) : seen[n].key = k}
  BY <1>1 DEF PacketsOf
<1>4. PacketsOf(k)' = {n \in 1..time : seen'[n].key = k}
  BY <1>1 DEF PacketsOf
<1>5. PacketsOf(k)' = IF p.key = k THEN PacketsOf(k) \cup {time} ELSE PacketsOf(k)
  BY <1>1, <1>2, <1>3, <1>4
<1>6. Found(k) = {n \in PacketsOf(k) : seen[n].guess # Unknown}
  BY DEF Found
<1>7. Found(k)' = {n \in PacketsOf(k)' : seen'[n].guess # Unknown}
  BY DEF Found
<1>8. \A n \in PacketsOf(k) : seen'[n] = seen[n]
  BY <1>1, <1>3
<1>9. Found(k)' = IF p.key = k /\ p.guess # Unknown THEN Found(k) \cup {time} ELSE Found(k)
  <2> HIDE DEF PacketsOf, Found
  <2>1. time \notin PacketsOf(k)
    BY <1>2, <1>3
  <2>2. CASE p.key # k
    BY <1>5, <1>6, <1>7, <1>8, <2>2
  <2>3. CASE p.key = k
    <3>1. PacketsOf(k)' = PacketsOf(k) \cup {time}
      BY <1>5, <2>3
    <3>2. \A n \in PacketsOf(k) : n \in Found(k)' <=> n \in Found(k)
      BY <1>6, <1>7, <1>8, <3>1
    <3>3. time \in Found(k)' <=> p.guess # Unknown
      BY <1>1, <1>7, <3>1
    <3>4. Found(k)' \subseteq PacketsOf(k) \cup {time} /\ Found(k) \subseteq PacketsOf(k)
      BY <1>6, <1>7, <3>1
    <3>5. CASE p.guess # Unknown
      <4>1. Found(k)' = Found(k) \cup {time}
        BY <3>2, <3>3, <3>4, <3>5
      <4>2. QED
        BY <2>3, <3>5, <4>1
    <3>6. CASE p.guess = Unknown
      <4>1. Found(k)' = Found(k)
        BY <2>1, <3>2, <3>3, <3>4, <3>6
      <4>2. QED
        BY <2>3, <3>6, <4>1
    <3>7. QED
      BY <3>5, <3>6
  <2>4. QED
    BY <2>2, <2>3
<1>10. QED
  BY <1>1, <1>2, <1>3, <1>5, <1>6, <1>8, <1>9

\* A flow has finitely many packets, and each has a length.
LEMMA PacketsWeighed ==
  ASSUME seen \in Seq(Packet), NEW k
  PROVE  IsFiniteSet(PacketsOf(k)) /\ Weighed(seen, PacketsOf(k))
<1>1. Len(seen) \in Nat /\ DOMAIN seen = 1..Len(seen) /\ \A n \in 1..Len(seen) : seen[n] \in Packet
  OBVIOUS
<1>2. PacketsOf(k) \in SUBSET (1..Len(seen))
  BY <1>1 DEF PacketsOf
<1>3. IsFiniteSet(1..Len(seen))
  BY <1>1, FS_Interval
<1>4. IsFiniteSet(PacketsOf(k))
  BY <1>2, <1>3, FS_Subset
<1>5. \A n \in Lengths : n \in Nat
  BY LengthsAssumption
<1>6. QED
  BY <1>1, <1>2, <1>4, <1>5 DEF Weighed, Packet

\* The flow that a packet belongs to.
LEMMA CountedSummarises ==
  ASSUME NEW log, NEW after, NEW time \in Times, NEW S \in SUBSET (1..(time - 1)), NEW F \in SUBSET S,
         NEW p \in Packet, NEW f \in Flow, IsFiniteSet(S), Weighed(log, S),
         \A n \in S : after[n] = log[n], after[time] = p,
         IF S = {} THEN f = NewFlow(time) ELSE Summarises(f, log, S, F),
         NEW G, G = IF p.guess # Unknown THEN F \cup {time} ELSE F
  PROVE  Summarises(Counted(f, p, time), after, S \cup {time}, G)
<1> DEFINE g == [f EXCEPT !.packets = Inc(f.packets, 1), !.bytes = Inc(f.bytes, p.len), !.last = time]
           h == Counted(f, p, time)
<1>1. time \in Nat /\ time \notin S /\ \A n \in S : n \in Nat /\ n <= time
  <2>1. time \in Nat
    BY LimitsAssumption DEF Times
  <2>2. \A n \in S : n \in 1..(time - 1)
    OBVIOUS
  <2>3. QED
    BY <2>1, <2>2
<1>2. /\ h = Detect(g, p.guess)
      /\ g.first = f.first /\ g.last = time /\ g.bytes = Inc(f.bytes, p.len)
      /\ g.completed = f.completed /\ g.label = f.label
      /\ DOMAIN g = {"packets", "bytes", "first", "last", "completed", "label"}
  BY DEF Counted, Flow
<1>3. /\ h.first = f.first /\ h.last = time /\ h.bytes = Inc(f.bytes, p.len)
      /\ h.completed <=> f.completed \/ p.guess # Unknown
      /\ h.label = IF f.completed THEN f.label ELSE p.guess
  <2> HIDE DEF g, h
  <2>1. CASE f.completed
    BY <1>2, <2>1 DEF Detect
  <2>2. CASE ~f.completed
    BY <1>2, <2>2 DEF Detect
  <2>3. QED
    BY <2>1, <2>2
<1> HIDE DEF g, h
<1>4. h.first \in S \cup {time} /\ \A n \in S \cup {time} : h.first <= n
  <2>1. CASE S = {}
    BY <1>1, <1>3, <2>1 DEF NewFlow
  <2>2. CASE S # {}
    BY <1>1, <1>3, <2>2 DEF Summarises
  <2>3. QED
    BY <2>1, <2>2
<1>5. h.last \in S \cup {time} /\ \A n \in S \cup {time} : n <= h.last
  BY <1>1, <1>3
<1>6. h.bytes = SumOf(after, S \cup {time}) % Width
  <2>1. p.len \in Nat /\ Width \in Nat \ {0}
    <3>1. Width \in Nat \ {0} /\ \A n \in Lengths : n \in Nat
      BY LengthsAssumption
    <3>2. p.len \in Lengths
      BY DEF Packet
    <3>3. QED
      BY <3>1, <3>2
  <2>2. Weighed(after, S \cup {time})
    BY <2>1 DEF Weighed
  <2>3. SumOf(after, S \cup {time}) = SumOf(after, S) + p.len /\ SumOf(after, S) \in Nat
    BY <1>1, <2>2, SumGrows
  <2>4. SumOf(after, S) = SumOf(log, S)
    BY SumAlike
  <2>5. f.bytes = SumOf(log, S) % Width
    <3>1. CASE S = {}
      <4>1. f.bytes = 0
        BY <3>1 DEF NewFlow
      <4>2. SumOf(log, S) = 0
        BY <3>1, SumEmpty
      <4>3. 0 % Width = 0
        BY <2>1
      <4>4. QED
        BY <4>1, <4>2, <4>3
    <3>2. CASE S # {}
      BY <3>2 DEF Summarises
    <3>3. QED
      BY <3>1, <3>2
  <2> DEFINE sum == SumOf(log, S)
  <2>6. sum \in Nat
    BY <2>3, <2>4
  <2>7. h.bytes = ((sum % Width) + p.len) % Width
    BY <1>3, <2>5 DEF Inc
  <2>8. SumOf(after, S \cup {time}) = sum + p.len
    BY <2>3, <2>4
  <2> HIDE DEF sum
  <2>9. ((sum % Width) + p.len) % Width = (sum + p.len) % Width
    BY <2>1, <2>6, ModAdds
  <2>10. QED
    BY <2>7, <2>8, <2>9
<1>7. IF h.completed
      THEN \E n \in G : h.label = after[n].guess /\ \A m \in G : n <= m
      ELSE h.label = Unknown /\ G = {}
  <2>1. IF f.completed
        THEN \E n \in F : f.label = log[n].guess /\ \A m \in F : n <= m
        ELSE f.label = Unknown /\ F = {}
    <3>1. CASE S = {}
      BY <3>1 DEF NewFlow
    <3>2. CASE S # {}
      BY <3>2 DEF Summarises
    <3>3. QED
      BY <3>1, <3>2
  <2>2. CASE f.completed
    <3>1. PICK n \in F : f.label = log[n].guess /\ \A m \in F : n <= m
      BY <2>1, <2>2
    <3>2. n \in G /\ after[n] = log[n] /\ n <= time
      BY <1>1
    <3>3. ASSUME NEW m \in G PROVE n <= m
      BY <1>1, <3>1, <3>2
    <3>4. QED
      BY <1>3, <2>2, <3>1, <3>2, <3>3
  <2>3. CASE ~f.completed /\ p.guess = Unknown
    BY <1>3, <2>1, <2>3
  <2>4. CASE ~f.completed /\ p.guess # Unknown
    <3>1. G = {time}
      BY <2>1, <2>4
    <3>2. QED
      BY <1>1, <1>3, <2>4, <3>1
  <2>5. QED
    BY <2>2, <2>3, <2>4
<1>8. QED
  BY <1>4, <1>5, <1>6, <1>7 DEF Summarises, h

\* A packet changes its own flow only.
LEMMA TruthPacket ==
  ASSUME IInv, TruthInv, NEW p \in Packet, FlowPacket(p)
  PROVE  TruthInv'
<1> PICK time : time = Len(seen) + 1
  OBVIOUS
<1> DEFINE keys == DOMAIN flows \cup {p.key}
           f == FlowOf(p.key, time)
<1>1. /\ flows' = [k \in keys |-> IF k = p.key THEN Counted(f, p, time) ELSE flows[k]]
      /\ seen' = Append(seen, p) /\ time <= MaxPackets
  BY DEF FlowPacket
<1>2. /\ seen \in Seq(Packet) /\ Len(seen) \in Nat /\ time \in Times /\ p.key \in Keys
      /\ flows \in [DOMAIN flows -> Flow] /\ time - 1 = Len(seen)
  BY <1>1, LimitsAssumption DEF IInv, TableInv, Times, Packet
<1> SUFFICES ASSUME NEW k \in Keys
             PROVE  /\ k \in DOMAIN flows' <=> PacketsOf(k)' # {}
                    /\ k \in DOMAIN flows' => Summarises(flows'[k], seen', PacketsOf(k)', Found(k)')
  BY DEF TruthInv
<1>3. /\ PacketsOf(k) \subseteq 1..Len(seen) /\ Len(seen) \in Nat /\ time \notin PacketsOf(k)
      /\ PacketsOf(k)' = IF p.key = k THEN PacketsOf(k) \cup {time} ELSE PacketsOf(k)
      /\ Found(k)' = IF p.key = k /\ p.guess # Unknown THEN Found(k) \cup {time} ELSE Found(k)
      /\ Found(k) \subseteq PacketsOf(k)
      /\ \A n \in PacketsOf(k) : seen'[n] = seen[n]
      /\ seen'[time] = p
  BY <1>1, <1>2, PacketsNext
<1>4. DOMAIN flows' = keys
  BY <1>1
<1>5. IsFiniteSet(PacketsOf(k)) /\ Weighed(seen, PacketsOf(k))
  BY <1>2, PacketsWeighed
<1>6. CASE k = p.key
  <2>1. /\ PacketsOf(k)' = PacketsOf(k) \cup {time}
        /\ Found(k)' = IF p.guess # Unknown THEN Found(k) \cup {time} ELSE Found(k)
    BY <1>3, <1>6
  <2>2. flows'[k] = Counted(f, p, time) /\ k \in DOMAIN flows'
    BY <1>1, <1>6
  <2>3. /\ f \in Flow
        /\ IF PacketsOf(k) = {} THEN f = NewFlow(time) ELSE Summarises(f, seen, PacketsOf(k), Found(k))
    <3>1. CASE k \in DOMAIN flows
      BY <1>2, <1>6, <3>1 DEF FlowOf, TruthInv
    <3>2. CASE k \notin DOMAIN flows
      <4>1. 0 \in Counter /\ Unknown \in Labels
        BY LengthsAssumption DEF Counter, Labels
      <4>2. NewFlow(time) \in Flow
        BY <1>2, <4>1 DEF NewFlow, Flow
      <4>3. PacketsOf(k) = {}
        BY <3>2 DEF TruthInv
      <4>4. QED
        BY <1>6, <3>2, <4>2, <4>3 DEF FlowOf
    <3>3. QED
      BY <3>1, <3>2
  <2> HIDE DEF f
  <2>4. Summarises(Counted(f, p, time), seen', PacketsOf(k) \cup {time},
                   IF p.guess # Unknown THEN Found(k) \cup {time} ELSE Found(k))
    <3>1. PacketsOf(k) \in SUBSET (1..(time - 1)) /\ Found(k) \in SUBSET PacketsOf(k)
      BY <1>2, <1>3
    <3>2. PICK log, after : log = seen /\ after = seen'
      OBVIOUS
    <3> DEFINE S == PacketsOf(k)
               F == Found(k)
               G == IF p.guess # Unknown THEN F \cup {time} ELSE F
    <3>3. /\ S \in SUBSET (1..(time - 1)) /\ F \in SUBSET S /\ time \in Times /\ f \in Flow
          /\ IsFiniteSet(S) /\ Weighed(log, S)
          /\ \A n \in S : after[n] = log[n]
          /\ after[time] = p
          /\ IF S = {} THEN f = NewFlow(time) ELSE Summarises(f, log, S, F)
      BY <1>2, <1>3, <1>5, <2>3, <3>1, <3>2
    <3> HIDE DEF S, F
    <3>4. G = IF p.guess # Unknown THEN F \cup {time} ELSE F
      OBVIOUS
    <3> HIDE DEF G
    <3>5. Summarises(Counted(f, p, time), after, S \cup {time}, G)
      BY <3>3, <3>4, CountedSummarises
    <3>6. QED
      BY <3>2, <3>5 DEF S, F, G
  <2>5. PacketsOf(k)' # {}
    BY <2>1
  <2>6. QED
    BY <2>1, <2>2, <2>4, <2>5
<1>7. CASE k # p.key
  <2>1. PacketsOf(k)' = PacketsOf(k) /\ Found(k)' = Found(k)
    BY <1>3, <1>7
  <2>2. k \in DOMAIN flows' <=> k \in DOMAIN flows
    BY <1>4, <1>7
  <2>3. ASSUME k \in DOMAIN flows PROVE Summarises(flows'[k], seen', PacketsOf(k), Found(k))
    <3>1. flows'[k] = flows[k]
      BY <1>1, <1>7, <2>3
    <3>2. SumOf(seen', PacketsOf(k)) = SumOf(seen, PacketsOf(k))
      BY <1>3, <1>5, SumAlike
    <3>3. Summarises(flows[k], seen, PacketsOf(k), Found(k))
      BY <2>3 DEF TruthInv
    <3>4. QED
      BY <1>3, <3>1, <3>2, <3>3 DEF Summarises
  <2>4. QED
    BY <2>1, <2>2, <2>3 DEF TruthInv
<1>8. QED
  BY <1>6, <1>7

\* The table stays true: what a flow says is what its packets say.
LEMMA TruthStep == IInv /\ TruthInv /\ [Next]_vars => TruthInv'
<1> SUFFICES ASSUME IInv, TruthInv, [Next]_vars PROVE TruthInv'
  OBVIOUS
<1>1. CASE \E p \in Packet : FlowPacket(p)
  BY <1>1, TruthPacket
<1>2. CASE UNCHANGED <<flows, seen>>
  <2>1. \A k \in Keys : PacketsOf(k)' = PacketsOf(k) /\ Found(k)' = Found(k)
    BY <1>2 DEF PacketsOf, Found
  <2>2. QED
    BY <1>2, <2>1 DEF TruthInv
<1>3. QED
  <2>1. (\E p \in Packet : FlowPacket(p)) \/ UNCHANGED <<flows, seen>>
    BY DEF Next, Capture, PrintResults, OtherPacket, TableFull, EndOfCapture, Open, OpenFails, Visit, Flush, Close, vars, table
  <2>2. QED
    BY <1>1, <1>2, <2>1

\* What a flow says is what a listing must say.
LEMMA FlowIsTruth ==
  ASSUME IInv, TruthInv, NEW k \in Keys, k \in DOMAIN flows
  PROVE  Entry(k, flows[k]) = Truth(k) /\ flows[k].label = LabelOf(k)
<1>1. Summarises(flows[k], seen, PacketsOf(k), Found(k))
  BY DEF TruthInv
<1>2. seen \in Seq(Packet)
  BY DEF IInv, TableInv
<1>3. PacketsOf(k) \in SUBSET Int /\ Found(k) \in SUBSET Int
  BY <1>2 DEF PacketsOf, Found
<1>4. Min(PacketsOf(k)) = flows[k].first
  BY <1>1, <1>3, LeastIs DEF Summarises
<1>5. Max(PacketsOf(k)) = flows[k].last
  BY <1>1, <1>3, GreatestIs DEF Summarises
<1>6. flows[k].label = LabelOf(k)
  <2>1. CASE flows[k].completed
    <3>1. PICK n \in Found(k) : flows[k].label = seen[n].guess /\ \A m \in Found(k) : n <= m
      BY <1>1, <2>1 DEF Summarises
    <3>2. Min(Found(k)) = n
      BY <1>3, <3>1, LeastIs
    <3>3. QED
      BY <3>1, <3>2 DEF LabelOf
  <2>2. CASE ~flows[k].completed
    BY <1>1, <2>2 DEF Summarises, LabelOf
  <2>3. QED
    BY <2>1, <2>2
<1>7. flows[k].bytes = SumOf(seen, PacketsOf(k)) % Width
  BY <1>1 DEF Summarises
<1>8. Truth(k) = [is |-> "flow", key |-> k, bytes |-> SumOf(seen, PacketsOf(k)) % Width,
                  first |-> Min(PacketsOf(k)), last |-> Max(PacketsOf(k)), label |-> LabelOf(k)]
  BY DEF Truth, SumOf
<1>9. QED
  BY <1>4, <1>5, <1>6, <1>7, <1>8 DEF Entry

-----------------------------------------------------------------------------
(* The listing as far as the walk has come *)

\* The positions of a listing.
LEMMA Positions ==
  ASSUME NEW S, NEW o \in Seq(S)
  PROVE  /\ Len(o) \in Nat /\ DOMAIN o = 1..Len(o)
         /\ Lines(o) = {n \in 1..Len(o) : n % 2 = 0}
  BY DEF Lines

\* What a flow that is permitted adds to the listing.
LEMMA LineAdded ==
  ASSUME IInv, ListInv, NEW k \in Keys, Visit(k), Permitted(flows[k].label)
  PROVE  /\ Len(out) \in Nat /\ Len(out') \in {Len(out) + 1, Len(out) + 2} /\ Len(out') % 2 = 0
         /\ \A n \in 1..Len(out) : out'[n] = out[n]
         /\ \A n \in (Len(out) + 1)..(Len(out') - 1) : out'[n] = Mark("comma")
         /\ out'[Len(out')] = Entry(k, flows[k])
         /\ out' \in Seq(Token) /\ out \in Seq(Token)
<1> DEFINE comma == Mark("comma")
           e == Entry(k, flows[k])
<1>1. /\ out' = out \o (IF commaFlag = 1 THEN <<comma>> ELSE <<>>) \o <<e>>
      /\ out \in Seq(Token) /\ commaFlag \in {0, 1} /\ pc = "walk"
  BY DEF Visit, IInv, StreamInv
<1>2. comma \in Token /\ e \in Token
  <2>1. k \in Keys /\ flows[k] \in Flow
    BY DEF Visit, IInv, TableInv, StreamInv
  <2>2. QED
    BY <2>1 DEF Mark, Entry, Token, Flow
<1>3. IF commaFlag = 0 THEN Len(out) = 1 ELSE Len(out) % 2 = 0
  BY <1>1 DEF ListInv
<1> HIDE DEF comma, e
<1>4. \A o \in Seq(Token), t \in Token :
        /\ o \o <<t>> \in Seq(Token) /\ Len(o \o <<t>>) = Len(o) + 1 /\ (o \o <<t>>)[Len(o) + 1] = t
        /\ \A n \in 1..Len(o) : (o \o <<t>>)[n] = o[n]
  <2> TAKE o \in Seq(Token), t \in Token
  <2>1. o \o <<t>> = Append(o, t)
    BY AppendIsConcat
  <2>2. QED
    BY <2>1, AppendProperties
<1>5. CASE commaFlag = 0
  <2>1. out' = out \o <<e>>
    <3>1. out \o <<>> = out
      BY <1>1, ConcatEmptySeq
    <3>2. QED
      BY <1>1, <1>5, <3>1
  <2> DEFINE o == out \o <<e>>
  <2>2. /\ o \in Seq(Token) /\ Len(o) = Len(out) + 1 /\ o[Len(out) + 1] = e
        /\ \A n \in 1..Len(out) : o[n] = out[n]
    BY <1>1, <1>2, <1>4
  <2>3. Len(out) = 1
    BY <1>3, <1>5
  <2> HIDE DEF o
  <2>4. out' = o
    BY <2>1 DEF o
  <2>5. Len(out') = 2 /\ 2 % 2 = 0 /\ \A n \in 2..1 : FALSE
    <3>1. Len(o) = 1 + 1
      BY <2>2, <2>3
    <3>2. QED
      BY <2>4, <3>1
  <2>6. out' \in Seq(Token) /\ out'[2] = e /\ \A n \in 1..Len(out) : out'[n] = out[n]
    BY <2>2, <2>3, <2>4
  <2>7. Len(out) + 1 = 2 /\ Len(out') - 1 = 1 /\ Len(out') % 2 = 0
    BY <2>3, <2>5
  <2>8. \A n \in (Len(out) + 1)..(Len(out') - 1) : FALSE
    BY <2>5, <2>7
  <2>9. Len(out) \in Nat /\ out'[Len(out')] = e
    BY <2>3, <2>5, <2>6
  <2>10. \A n \in (Len(out) + 1)..(Len(out') - 1) : out'[n] = Mark("comma")
    BY <2>8
  <2>11. Len(out') = Len(out) + 1
    BY <2>3, <2>5
  <2>12. QED
    BY <1>1, <2>6, <2>7, <2>9, <2>10, <2>11 DEF e
<1>6. CASE commaFlag = 1
  <2> DEFINE o == out \o <<comma>>
  <2>1. out' = o \o <<e>>
    BY <1>1, <1>6
  <2>2. /\ o \in Seq(Token) /\ Len(o) = Len(out) + 1 /\ o[Len(out) + 1] = comma
        /\ \A n \in 1..Len(out) : o[n] = out[n]
    BY <1>1, <1>2, <1>4
  <2> HIDE DEF o
  <2>3. /\ out' \in Seq(Token) /\ Len(out') = Len(o) + 1 /\ out'[Len(o) + 1] = e
        /\ \A n \in 1..Len(o) : out'[n] = o[n]
    BY <1>2, <1>4, <2>1, <2>2
  <2>4. Len(out) \in Nat /\ Len(out) % 2 = 0
    BY <1>1, <1>3, <1>6
  <2>5. /\ Len(out') = Len(out) + 2 /\ Len(out') % 2 = 0 /\ out'[Len(out')] = e
        /\ \A n \in 1..Len(out) : out'[n] = out[n]
        /\ out'[Len(out) + 1] = comma
    BY <2>2, <2>3, <2>4
  <2>6. \A n \in (Len(out) + 1)..(Len(out') - 1) : n = Len(out) + 1
    BY <2>4, <2>5
  <2>7. QED
    BY <1>1, <2>3, <2>4, <2>5, <2>6 DEF comma, e
<1>7. QED
  BY <1>1, <1>5, <1>6

\* What must be shown of the listing after a step.
LEMMA ListNext ==
  ASSUME out'[1] = Mark("header"),
         IF commaFlag' = 0 THEN Listed' = {} /\ Len(out') = 1 ELSE Len(out') % 2 = 0,
         \A n \in 2..Len(out') : n % 2 = 1 => out'[n] = Mark("comma"),
         Says(out', Lines(out')) = Entries',
         \A m, n \in Lines(out') : out'[m] = out'[n] => m = n
  PROVE  ListInv'
BY DEF ListInv

\* Each flow visited adds its line, or nothing.
LEMMA VisitList ==
  ASSUME IInv, ListInv, NEW k \in Keys, Visit(k)
  PROVE  ListInv'
<1>1. /\ pc = "walk" /\ pc' = "walk" /\ k \in walk /\ walk' = walk \ {k}
      /\ k \in DOMAIN flows /\ UNCHANGED <<conf, flows>>
      /\ walk \subseteq DOMAIN flows /\ DOMAIN flows \subseteq Keys
  BY DEF Visit, table, IInv, StreamInv, TableInv
<1>2. \A label : Permitted(label)' = Permitted(label)
  BY <1>1 DEF Permitted, ValidLabels, InvalidLabels
<1>3. Listed' = {j \in DOMAIN flows \ (walk \ {k}) : Permitted(flows[j].label)}
  BY <1>1, <1>2 DEF Listed
<1>4. CASE ~Permitted(flows[k].label)
  <2>1. UNCHANGED <<out, commaFlag>>
    BY <1>4 DEF Visit
  <2>2. Listed' = Listed
    BY <1>1, <1>3, <1>4 DEF Listed
  <2>3. Entries' = Entries
    BY <1>1, <2>2 DEF Entries
  <2>4. QED
    BY <1>1, <2>1, <2>2, <2>3, ListNext DEF ListInv
<1>5. CASE Permitted(flows[k].label)
  <2>1. Listed' = Listed \cup {k} /\ k \notin Listed
    BY <1>1, <1>3, <1>5 DEF Listed
  <2>2. /\ Len(out) \in Nat /\ Len(out') \in {Len(out) + 1, Len(out) + 2} /\ Len(out') % 2 = 0
        /\ \A n \in 1..Len(out) : out'[n] = out[n]
        /\ \A n \in (Len(out) + 1)..(Len(out') - 1) : out'[n] = Mark("comma")
        /\ out'[Len(out')] = Entry(k, flows[k])
        /\ out' \in Seq(Token) /\ out \in Seq(Token)
    BY <1>5, LineAdded
  <2>3. /\ commaFlag' = 1 /\ commaFlag \in {0, 1}
        /\ IF commaFlag = 0 THEN Listed = {} /\ Len(out) = 1 ELSE Len(out) % 2 = 0
        /\ out[1] = Mark("header")
        /\ \A n \in 2..Len(out) : n % 2 = 1 => out[n] = Mark("comma")
        /\ Says(out, Lines(out)) = Entries
        /\ \A m, n \in Lines(out) : out[m] = out[n] => m = n
    BY <1>1, <1>5 DEF Visit, ListInv, IInv, StreamInv
  <2> DEFINE end == Len(out')
             e == Entry(k, flows[k])
  <2>4. Len(out) >= 1
    <3>1. Len(out) > 0
      BY <1>1, <2>2 DEF IInv, StreamInv
    <3>2. QED
      BY <2>2, <3>1
  <2>5. end \in Nat /\ end > Len(out) /\ end % 2 = 0
    BY <2>2
  <2>6. Lines(out') = Lines(out) \cup {end} /\ end \notin Lines(out)
    <3>1. Lines(out) = {n \in 1..Len(out) : n % 2 = 0} /\ Lines(out') = {n \in 1..end : n % 2 = 0}
      BY <2>2, Positions
    <3>2. ASSUME NEW n \in (Len(out) + 1)..(end - 1) PROVE n % 2 # 0
      <4>1. n = Len(out) + 1 /\ end = Len(out) + 2
        BY <2>2, <3>2
      <4>2. QED
        BY <2>2, <2>5, <4>1
    <3>3. ASSUME NEW n \in Lines(out') PROVE n \in Lines(out) \/ n = end
      BY <2>2, <2>5, <3>1, <3>2, <3>3
    <3>4. Lines(out) \subseteq Lines(out') /\ end \in Lines(out')
      BY <2>2, <2>5, <3>1
    <3>5. end \notin Lines(out)
      BY <2>2, <2>5, <3>1
    <3>6. QED
      BY <3>3, <3>4, <3>5
  <2>7. \A n \in Lines(out) : n \in 1..Len(out) /\ out'[n] = out[n]
    BY <2>2, Positions
  <2>8. \A n \in Lines(out) : out[n] # e
    <3>1. ASSUME NEW n \in Lines(out), out[n] = e PROVE FALSE
      <4>1. PICK j \in Listed : out[n] = Entry(j, flows[j])
        BY <2>3 DEF Says, Entries
      <4>2. j = k
        BY <3>1, <4>1 DEF Entry
      <4>3. QED
        BY <2>1, <4>1, <4>2
    <3>2. QED
      BY <3>1
  <2> HIDE DEF end, e
  <2>9. out'[end] = e
    BY <2>2 DEF end, e
  <2>10. Says(out', Lines(out')) = Entries'
    <3>1. Says(out', Lines(out')) = Says(out, Lines(out)) \cup {e}
      BY <2>6, <2>7, <2>9 DEF Says
    <3>2. Entries' = Entries \cup {e}
      BY <1>1, <2>1 DEF e, Entries
    <3>3. QED
      BY <2>3, <3>1, <3>2
  <2>11. ASSUME NEW m \in Lines(out'), NEW n \in Lines(out'), out'[m] = out'[n] PROVE m = n
    BY <2>3, <2>6, <2>7, <2>8, <2>9, <2>11
  <2>12. out'[1] = Mark("header")
    BY <2>2, <2>3, <2>4
  <2>13. ASSUME NEW n \in 2..Len(out'), n % 2 = 1 PROVE out'[n] = Mark("comma")
    <3>1. CASE n \in 2..Len(out)
      BY <2>2, <2>3, <2>13, <3>1
    <3>2. CASE n \in (Len(out) + 1)..(Len(out') - 1)
      BY <2>2, <3>2
    <3>3. CASE n = Len(out')
      BY <2>2, <2>13, <3>3
    <3>4. QED
      BY <2>2, <2>4, <3>1, <3>2, <3>3
  <2>14. QED
    BY <1>1, <2>2, <2>3, <2>10, <2>11, <2>12, <2>13, ListNext
<1>6. QED
  BY <1>4, <1>5

\* A listing begins with its header alone.
LEMMA OpenList == IInv /\ Open => ListInv'
<1> SUFFICES ASSUME IInv, Open PROVE ListInv'
  OBVIOUS
<1>1. out' = <<Mark("header")>>
  <2>1. <<Mark("header")>> \in Seq(Token)
    BY DEF Mark, Token
  <2>2. QED
    BY <2>1, NothingTallied, ConcatEmptySeq DEF Open, IInv
<1>2. Len(out') = 1 /\ out'[1] = Mark("header") /\ out' \in Seq({Mark("header")})
  BY <1>1
<1>3. Lines(out') = {}
  <2>1. Lines(out') = {n \in 1..1 : n % 2 = 0}
    BY <1>2, Positions
  <2>2. QED
    BY <2>1
<1>4. commaFlag' = 0 /\ Listed' = {}
  BY DEF Open, Listed
<1>5. Says(out', Lines(out')) = {} /\ Entries' = {}
  BY <1>3, <1>4 DEF Says, Entries
<1>6. \A n \in 2..Len(out') : FALSE
  BY <1>2
<1>7. QED
  BY <1>2, <1>3, <1>4, <1>5, <1>6, ListNext

\* The listing stays in step with the walk.
LEMMA ListStep == IInv /\ ListInv /\ [Next]_vars => ListInv'
<1> SUFFICES ASSUME IInv, ListInv, [Next]_vars PROVE ListInv'
  OBVIOUS
<1>1. CASE Open
  BY <1>1, OpenList
<1>2. CASE \E k \in Keys : Visit(k)
  BY <1>2, VisitList
<1>3. CASE Flush \/ UNCHANGED vars
  <2>1. UNCHANGED <<pc, out, commaFlag, flows, walk, conf>>
    BY <1>3 DEF Flush, vars, table, output
  <2>2. Listed' = Listed
    BY <2>1 DEF Listed, Permitted, ValidLabels, InvalidLabels
  <2>3. Entries' = Entries
    BY <2>1, <2>2 DEF Entries
  <2>4. CASE pc = "walk"
    BY <2>1, <2>2, <2>3, <2>4, ListNext DEF ListInv
  <2>5. CASE pc # "walk"
    BY <2>1, <2>5 DEF ListInv
  <2>6. QED
    BY <2>4, <2>5
<1>4. CASE Capture \/ OpenFails \/ Close
  <2>1. pc' # "walk"
    BY <1>4 DEF Capture, FlowPacket, OtherPacket, TableFull, EndOfCapture, OpenFails, Close
  <2>2. QED
    BY <2>1 DEF ListInv
<1>5. QED
  BY <1>1, <1>2, <1>3, <1>4 DEF Next, PrintResults

-----------------------------------------------------------------------------
(* The listing when it is complete *)

WantedLines == {Truth(k) : k \in {j \in Keys : Wanted(j)}}

\* No label is ever given as an invalid one, as in the shipped conf.json.
NoBlackList == BlackLists \subseteq {{}}

\* The flows that were permitted are those that are wanted.
LEMMA ListedWanted ==
  ASSUME NoBlackList, IInv, TruthInv, walk = {}
  PROVE  Entries = WantedLines
<1>1. DOMAIN flows \subseteq Keys
  BY DEF IInv, TableInv
<1>2. \A k \in DOMAIN flows : Entry(k, flows[k]) = Truth(k) /\ flows[k].label = LabelOf(k)
  BY <1>1, FlowIsTruth
<1>3. \A j \in DOMAIN flows : Permitted(flows[j].label) <=>
        /\ conf.usingInvalid = 0 => flows[j].label \in conf.valid
        /\ conf.usingInvalid = 1 => flows[j].label \notin conf.invalid
  <2>1. conf.invalid = {}
    BY DEF NoBlackList, IInv, Confs
  <2>2. QED
    BY <2>1 DEF Permitted, ValidLabels, InvalidLabels
<1>4. Listed = {j \in Keys : Wanted(j)}
  <2>1. \A j \in Keys : j \in DOMAIN flows <=> PacketsOf(j) # {}
    BY DEF TruthInv
  <2>2. \A j \in DOMAIN flows : Permitted(flows[j].label) <=>
          /\ conf.usingInvalid = 0 => LabelOf(j) \in conf.valid
          /\ conf.usingInvalid = 1 => LabelOf(j) \notin conf.invalid
    <3> SUFFICES ASSUME NEW j \in DOMAIN flows
                 PROVE  Permitted(flows[j].label) <=>
                          /\ conf.usingInvalid = 0 => LabelOf(j) \in conf.valid
                          /\ conf.usingInvalid = 1 => LabelOf(j) \notin conf.invalid
      OBVIOUS
    <3>1. flows[j].label = LabelOf(j)
      BY <1>2
    <3>2. Permitted(flows[j].label) <=>
            /\ conf.usingInvalid = 0 => flows[j].label \in conf.valid
            /\ conf.usingInvalid = 1 => flows[j].label \notin conf.invalid
      BY <1>3
    <3>3. QED
      BY <3>1, <3>2
  <2>3. \A j \in Keys : j \in Listed <=> Wanted(j)
    <3> SUFFICES ASSUME NEW j \in Keys PROVE j \in Listed <=> Wanted(j)
      OBVIOUS
    <3>1. j \in Listed <=> j \in DOMAIN flows /\ Permitted(flows[j].label)
      BY DEF Listed
    <3>2. Wanted(j) <=> /\ j \in DOMAIN flows
                        /\ conf.usingInvalid = 0 => LabelOf(j) \in conf.valid
                        /\ conf.usingInvalid = 1 => LabelOf(j) \notin conf.invalid
      BY <2>1, Zenon DEF Wanted
    <3>3. QED
      BY <2>2, <3>1, <3>2, Zenon
  <2>4. QED
    BY <1>1, <2>3 DEF Listed
<1>5. \A k \in Listed : Entry(k, flows[k]) = Truth(k)
  BY <1>2 DEF Listed
<1>6. QED
  BY <1>4, <1>5 DEF WantedLines, Entries

\* Distinct lines are as many as what they say.
LEMMA LinesCounted ==
  ASSUME NEW lines, IsFiniteSet(lines), NEW o, \A m, n \in lines : o[m] = o[n] => m = n
  PROVE  Cardinality(lines) = Cardinality(Says(o, lines))
<1> DEFINE says == Says(o, lines)
           f == [n \in lines |-> o[n]]
<1>1. f \in [lines -> says] /\ \A s \in says : \E n \in lines : f[n] = s
  BY DEF Says
<1>2. \A m, n \in lines : f[m] = f[n] => m = n
  OBVIOUS
<1> HIDE DEF says, f
<1>3. f \in Bijection(lines, says)
  BY <1>1, <1>2 DEF Bijection, Injection, Surjection, IsInjective
<1>4. ExistsBijection(lines, says)
  BY <1>3 DEF ExistsBijection
<1>5. Cardinality(says) = Cardinality(lines)
  BY <1>4, FS_Bijection
<1>6. QED
  BY <1>5 DEF says

\* With all flows visited, the footer makes the document that is wanted.
LEMMA ListedExactly ==
  ASSUME NoBlackList, IInv, TruthInv, ListInv, pc = "walk", walk = {},
         NEW o, o = Append(out, Mark("footer"))
  PROVE  LET lines == {n \in DOMAIN o : n % 2 = 0 /\ n < Len(o)}
         IN  /\ o[1] = Mark("header") /\ o[Len(o)] = Mark("footer")
             /\ \A n \in 2..(Len(o) - 1) : n % 2 = 1 => o[n] = Mark("comma")
             /\ Says(o, lines) = WantedLines
             /\ Cardinality(lines) = Cardinality(WantedLines)
<1> DEFINE lines == {n \in DOMAIN o : n % 2 = 0 /\ n < Len(o)}
<1>1. out \in Seq(Token) /\ Len(out) \in Nat /\ Len(out) >= 1
  BY DEF IInv, StreamInv
<1>2. /\ Len(o) = Len(out) + 1 /\ DOMAIN o = 1..Len(o) /\ o[Len(o)] = Mark("footer")
      /\ \A n \in 1..Len(out) : o[n] = out[n]
  <2>1. Mark("footer") \in Token
    BY DEF Mark, Token
  <2>2. QED
    BY <1>1, <2>1
<1>3. lines = Lines(out)
  <2>1. Lines(out) = {n \in 1..Len(out) : n % 2 = 0}
    BY <1>1, Positions
  <2>2. QED
    BY <1>1, <1>2, <2>1
<1>4. /\ out[1] = Mark("header")
      /\ \A n \in 2..Len(out) : n % 2 = 1 => out[n] = Mark("comma")
      /\ Says(out, Lines(out)) = WantedLines
      /\ \A m, n \in Lines(out) : out[m] = out[n] => m = n
  BY ListedWanted DEF ListInv
<1>5. \A n \in Lines(out) : o[n] = out[n]
  BY <1>1, <1>2, Positions
<1>6. Says(o, Lines(out)) = WantedLines
  <2>1. Says(o, Lines(out)) = Says(out, Lines(out))
    BY <1>5 DEF Says
  <2>2. QED
    BY <1>4, <2>1
<1>7. Cardinality(Lines(out)) = Cardinality(WantedLines)
  <2>1. IsFiniteSet(Lines(out))
    <3>1. IsFiniteSet(1..Len(out)) /\ Lines(out) \in SUBSET (1..Len(out))
      BY <1>1, FS_Interval, Positions
    <3>2. QED
      BY <3>1, FS_Subset
  <2>2. \A m, n \in Lines(out) : o[m] = o[n] => m = n
    BY <1>4, <1>5
  <2>3. Cardinality(Lines(out)) = Cardinality(Says(o, Lines(out)))
    BY <2>1, <2>2, LinesCounted
  <2>4. QED
    BY <1>6, <2>3
<1>8. o[1] = Mark("header") /\ \A n \in 2..(Len(o) - 1) : n % 2 = 1 => o[n] = Mark("comma")
  BY <1>1, <1>2, <1>4
<1>9. QED
  BY <1>2, <1>3, <1>6, <1>7, <1>8

\* What a listing must say of a flow, now and after the next step.
TruthOf(k) == [is |-> "flow", key |-> k, bytes |-> SumOf(seen, PacketsOf(k)) % Width,
               first |-> Min(PacketsOf(k)), last |-> Max(PacketsOf(k)), label |-> LabelOf(k)]
TruthsSay == \A k : Truth(k) = TruthOf(k)

LEMMA TruthSays == TruthsSay
BY DEF TruthsSay, TruthOf, Truth, SumOf

\* What is wanted depends on the packets and the configuration.
LEMMA SameWanted ==
  ASSUME UNCHANGED <<conf, seen>>
  PROVE  WantedLines' = WantedLines
<1>1. \A k : PacketsOf(k)' = PacketsOf(k) /\ Found(k)' = Found(k)
  BY DEF PacketsOf, Found
<1>2. \A k : LabelOf(k)' = LabelOf(k)
  BY <1>1 DEF LabelOf
<1>3. \A k : Truth(k)' = Truth(k)
  <2>1. \A k : TruthOf(k)' = TruthOf(k)
    BY <1>1, <1>2 DEF TruthOf
  <2>2. TruthsSay /\ TruthsSay'
    BY TruthSays, PTL
  <2>3. QED
    BY <2>1, <2>2 DEF TruthsSay
<1>4. \A k : Wanted(k)' <=> Wanted(k)
  BY <1>1, <1>2 DEF Wanted
<1>5. QED
  BY <1>3, <1>4 DEF WantedLines

\* What is closed is exact.
LEMMA CloseExact ==
  ASSUME NoBlackList, IInv, TruthInv, ListInv, Close
  PROVE  ListingExact'
<1>1. /\ pc = "walk" /\ walk = {} /\ flushed' = Len(out') /\ UNCHANGED <<conf, seen>>
  BY DEF Close
<1>2. PICK o : o = out' /\ o = Append(out, Mark("footer"))
  BY DEF Close
<1>3. LET lines == {n \in DOMAIN o : n % 2 = 0 /\ n < Len(o)}
      IN  /\ o[1] = Mark("header") /\ o[Len(o)] = Mark("footer")
          /\ \A n \in 2..(Len(o) - 1) : n % 2 = 1 => o[n] = Mark("comma")
          /\ Says(o, lines) = WantedLines
          /\ Cardinality(lines) = Cardinality(WantedLines)
  BY <1>1, <1>2, ListedExactly
<1>4. WantedLines' = WantedLines
  BY <1>1, SameWanted
<1>5. WantedLines' = {Truth(k)' : k \in {j \in Keys : Wanted(j)'}}
  BY DEF WantedLines
<1>6. QED
  BY <1>1, <1>2, <1>3, <1>4, <1>5 DEF ListingExact, Says

\* It stays exact until the file is opened again.
LEMMA ExactStep ==
  ASSUME NoBlackList
  PROVE  IInv /\ TruthInv /\ ListInv /\ ListingExact /\ [Next]_vars => ListingExact'
<1> SUFFICES ASSUME IInv, TruthInv, ListInv, ListingExact, [Next]_vars PROVE ListingExact'
  OBVIOUS
<1>1. CASE Close
  BY <1>1, CloseExact
<1>2. CASE \E p \in Packet : FlowPacket(p)
  <2>1. pc = "capture" /\ (IF conf.live THEN pc' = "count" ELSE writes' = 0)
    BY <1>2 DEF FlowPacket, output, IInv, RewriteInv
  <2>2. QED
    BY <2>1 DEF ListingExact
<1>3. CASE TableFull \/ UNCHANGED vars
  <2>1. UNCHANGED <<pc, writes, flushed, out, conf, seen>>
    BY <1>3 DEF TableFull, vars, output
  <2>2. WantedLines' = WantedLines
    BY <2>1, SameWanted
  <2>3. /\ WantedLines = {Truth(k) : k \in {j \in Keys : Wanted(j)}}
        /\ WantedLines' = {Truth(k)' : k \in {j \in Keys : Wanted(j)'}}
    BY DEF WantedLines
  <2>4. QED
    BY <2>1, <2>2, <2>3 DEF ListingExact
<1>4. CASE OtherPacket \/ EndOfCapture \/ Open \/ OpenFails \/ (\E k \in Keys : Visit(k)) \/ Flush
  <2>1. pc' \in {"count", "walk"}
    BY <1>4 DEF OtherPacket, EndOfCapture, Open, OpenFails, Visit, Flush
  <2>2. QED
    BY <2>1 DEF ListingExact
<1>5. QED
  BY <1>1, <1>2, <1>3, <1>4 DEF Next, Capture, PrintResults

-----------------------------------------------------------------------------
(* The theorems *)

\* The counters, the table and the listing keep their types.
THEOREM TypeCorrect == Spec => []TypeOK
<1>1. IInv => TypeOK
  <2> SUFFICES ASSUME IInv PROVE TypeOK
    OBVIOUS
  <2>1. \A n \in DOMAIN out : out[n].is \in {"header", "footer", "comma", "name", "flow"}
    <3>1. \A t \in Token : t.is \in {"header", "footer", "comma", "name", "flow"}
      BY DEF Token
    <3>2. \A n \in DOMAIN out : out[n] \in Token
      BY DEF IInv, StreamInv
    <3>3. QED
      BY <3>1, <3>2
  <2>2. QED
    BY <2>1 DEF IInv, TableInv, StreamInv, TypeOK
<1>2. QED
  BY Inductive, <1>1, PTL

\* The names of the protocols, which would stand before the document and spoil
\* it, are never printed (pcap_to_flows.c, printResults).
THEOREM NoNamesPrinted == Spec => [](Names = <<>>)
<1>1. IInv => Names = <<>>
  BY NothingTallied DEF IInv
<1>2. QED
  BY Inductive, <1>1, PTL

\* The collector rewrites its file as the adapters expect (pcap_to_flows.c,
\* packet_processing and printResults).
THEOREM RewritesFile == Spec => ImplementsFile
<1>1. Init => File!Init
  BY DEF Init, File!Init
<1>2. IInv /\ [Next]_vars => [File!Next]_(File!vars)
  <2> SUFFICES ASSUME IInv, [Next]_vars PROVE File!Next \/ UNCHANGED File!vars
    OBVIOUS
  <2>0. /\ out \in Seq(Token) /\ Len(out) \in Nat /\ flushed \in 0..Len(out) /\ writes \in Nat
        /\ writes > 0 => Len(out) > 0
        /\ pc = "walk" => writes > 0
        /\ pc # "walk" => flushed = Len(out)
    BY DEF IInv, StreamInv
  <2>1. CASE \E p \in Packet : FlowPacket(p)
    BY <2>0, <2>1 DEF FlowPacket, output, File!vars
  <2>2. CASE OtherPacket \/ EndOfCapture \/ TableFull \/ OpenFails \/ UNCHANGED vars
    <3>1. UNCHANGED <<out, flushed, writes>> /\ (pc = "walk" <=> pc' = "walk")
      BY <2>2 DEF OtherPacket, EndOfCapture, TableFull, OpenFails, vars, output
    <3>2. QED
      BY <3>1 DEF File!vars
  <2>3. CASE Open
    <3>1. /\ pc = "count" /\ pc' = "walk" /\ flushed' = 0 /\ writes' = writes + 1
      BY <2>3 DEF Open
    <3>2. writes < 2 * MaxPackets
      <4>1. writes + 1 <= MaxPackets + Len(seen) /\ Len(seen) <= MaxPackets /\ Len(seen) \in Nat
        BY <3>1 DEF IInv, RewriteInv, TableInv
      <4>2. QED
        BY <2>0, <4>1, LimitsAssumption
    <3>3. File!Truncate
      BY <2>0, <3>1, <3>2 DEF File!Truncate, File!Missing
    <3>4. QED
      BY <3>3 DEF File!Next
  <2>4. CASE \E k \in Keys : Visit(k)
    <3>1. pc = "walk" /\ UNCHANGED <<pc, flushed, writes>>
      BY <2>4 DEF Visit
    <3>2. QED
      BY <2>0, <3>1 DEF File!vars
  <2>5. CASE Flush
    <3>1. pc = "walk" /\ UNCHANGED <<pc, out, writes>> /\ flushed' \in (flushed + 1)..Len(out)
      BY <2>5 DEF Flush
    <3>2. CASE flushed = 0
      BY <2>0, <3>1, <3>2 DEF File!Next, File!WriteHead, File!Missing
    <3>3. CASE flushed # 0
      BY <2>0, <3>1, <3>3 DEF File!vars
    <3>4. QED
      BY <3>2, <3>3
  <2>6. CASE Close
    <3>1. /\ pc = "walk" /\ pc' # "walk" /\ writes' = writes /\ flushed' = Len(out')
          /\ out' = Append(out, Mark("footer"))
      BY <2>6 DEF Close
    <3>2. Len(out') = Len(out) + 1
      BY <2>0, <3>1 DEF Mark, Token
    <3>3. QED
      BY <2>0, <3>1, <3>2 DEF File!Next, File!WriteTail, File!Missing
  <2>7. QED
    BY <2>1, <2>2, <2>3, <2>4, <2>5, <2>6 DEF Next, Capture, PrintResults
<1>3. QED
  BY Inductive, <1>1, <1>2, PTL DEF Spec, ImplementsFile, File!Spec

\* Without black lists, whenever the file is complete it lists the flows wanted,
\* each once, with the bytes, the times and the protocol of all its packets,
\* whatever the white lists (pcap_to_flows.c, packet_processing and printResults).
THEOREM ListsExactly ==
  ASSUME NoBlackList
  PROVE  Spec => []ListingExact
<1>1. Init => TruthInv /\ ListInv /\ ListingExact
  BY DEF Init, TruthInv, ListInv, ListingExact, PacketsOf
<1>2. IInv /\ TruthInv /\ ListInv /\ ListingExact /\ [Next]_vars => ListingExact'
  BY ExactStep
<1>3. QED
  BY Inductive, <1>1, <1>2, TruthStep, ListStep, PTL DEF Spec
=============================================================================
