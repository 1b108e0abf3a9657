------------------------------- MODULE PcapFlows -------------------------------
(***************************************************************************)
(* The flow collector (pcap_to_flows.c): it adds each packet to its flow,  *)
(* lets nDPI name the flow's protocol, and lists the flows that the label  *)
(* lists permit in a JSON file. Live it rewrites the file after every      *)
(* packet; from a capture it writes it once, at the end.                   *)
(*                                                                         *)
(* What nDPI guesses for a packet is arbitrary. The time of a packet is    *)
(* its number. The file is a sequence of tokens, of which a first part has *)
(* left the buffer of the stream.                                          *)
(***************************************************************************)
EXTENDS Integers, Sequences, FiniteSetsExt

CONSTANTS
  Keys,        \* addresses, ports and protocol of a flow, in one direction
  Protocols,   \* the protocols nDPI knows
  Unknown,     \* NDPI_PROTOCOL_UNKNOWN
  LabelLists,  \* the sets of labels conf.json may give as valid_labels
  BlackLists,  \* and as invalid_labels; the shipped one is empty
  Lengths,     \* lengths of packets
  Width,       \* packets and bytes are counted modulo this: 2^16
  NPackets,    \* n_packets: 2^30
  MinObjects,  \* min_number_objects: 30
  MaxFlows,    \* MAX_NDPI_FLOWS: 20000000
  MaxPackets   \* bound: packets captured

Labels == Protocols \cup {Unknown}

ASSUME LabelsAssumption ==
  Unknown \notin Protocols /\ LabelLists \cup BlackLists \subseteq SUBSET Labels
ASSUME LengthsAssumption == Width \in Nat \ {0} /\ Lengths \subseteq 0..(Width - 1)
ASSUME LimitsAssumption ==
  /\ NPackets \in Nat /\ NPackets >= Width
  /\ MinObjects \in Nat \ {0} /\ MaxFlows \in Nat /\ MaxPackets \in Nat \ {0}

VARIABLES
  conf,          \* how it was started, and conf.json
  flows,         \* ndpi_flows_root, by key
  protocolFlows, \* protocol_flows
  pc,            \* pcap_loop, or the step of printResults
  walk,          \* flows node_output_flow_info_walker has not visited
  commaFlag,     \* comma_flag
  out,           \* what was printed to the file
  flushed,       \* how much of that the file holds
  writes,        \* history: times the file was opened
  alive,         \* the process runs
  seen           \* history: the packets that belong to a flow

table == <<flows, protocolFlows>>
output == <<walk, commaFlag, out, flushed, writes>>
vars == <<conf, table, pc, output, alive, seen>>

Counter == 0..(Width - 1)
Times == 1..MaxPackets
Packet == [key : Keys, len : Lengths, guess : Labels]
Flow == [packets : Counter, bytes : Counter, first : Times, last : Times, completed : BOOLEAN,
         label : Labels]

\* Live, conf.json chooses the list; a capture is listed as the variables are
\* initialised.
Confs == [live : {TRUE}, usingInvalid : {0, 1, 2}, valid : LabelLists, invalid : BlackLists]
           \cup [live : {FALSE}, usingInvalid : {1}, valid : {{}}, invalid : {{}}]

Mark(token) == [is |-> token]
Entry(k, f) == [is |-> "flow", key |-> k, bytes |-> f.bytes, first |-> f.first, last |-> f.last,
                label |-> f.label]

TypeOK ==
  /\ conf \in Confs
  /\ DOMAIN flows \subseteq Keys /\ flows \in [DOMAIN flows -> Flow]
  /\ protocolFlows \in [Labels -> Nat]
  /\ pc \in {"capture", "count", "walk", "end"}
  /\ walk \subseteq DOMAIN flows
  /\ commaFlag \in {0, 1}
  /\ \A n \in DOMAIN out : out[n].is \in {"header", "footer", "comma", "name", "flow"}
  /\ flushed \in 0..Len(out)
  /\ writes \in Nat
  /\ alive \in BOOLEAN
  /\ seen \in Seq(Packet)

Init ==
  /\ conf \in Confs
  /\ flows = [k \in {} |-> {}]
  /\ protocolFlows = [l \in Labels |-> 0]
  /\ pc = "capture"
  /\ walk = {} /\ commaFlag = 0 /\ out = <<>> /\ flushed = 0 /\ writes = 0
  /\ alive = TRUE
  /\ seen = <<>>

-----------------------------------------------------------------------------
(* The label lists. In either mode main copies the list it reads to           *)
(* valid_labels: invalid_labels stays empty.                                  *)

ValidLabels ==
  CASE conf.usingInvalid = 0 -> conf.valid
    [] conf.usingInvalid = 1 -> conf.invalid
    [] OTHER                 -> {}
InvalidLabels == {}

Permitted(label) ==
  IF conf.usingInvalid # 0 THEN label \notin InvalidLabels ELSE label \in ValidLabels

-----------------------------------------------------------------------------
(* Packets *)

\* Faulty variant: the counter wraps one too late.
IncTooFar(n, d) == (n + d) % (Width + 1)

\* packets and bytes are u_int16_t.
Inc(n, d) == (n + d) % Width

\* Faulty variant: each packet is guessed anew.
DetectAgain(f, guess) == [f EXCEPT !.label = guess, !.completed = guess # Unknown]

\* Detection goes on until a protocol is found.
Detect(f, guess) ==
  IF f.completed THEN f ELSE [f EXCEPT !.label = guess, !.completed = guess # Unknown]

NewFlow(time) ==
  [packets |-> 0, bytes |-> 0, first |-> time, last |-> time, completed |-> FALSE, label |-> Unknown]

\* get_ndpi_flow
FlowOf(k, time) == IF k \in DOMAIN flows THEN flows[k] ELSE NewFlow(time)

Counted(f, p, time) ==
  Detect([f EXCEPT !.packets = Inc(f.packets, 1), !.bytes = Inc(f.bytes, p.len), !.last = time],
         p.guess)

FlowPacket(p) ==
  LET time == Len(seen) + 1 IN
    /\ alive /\ pc = "capture" /\ time <= MaxPackets
    /\ p.key \in DOMAIN flows \/ Cardinality(DOMAIN flows) # MaxFlows
    /\ flows' = [k \in DOMAIN flows \cup {p.key} |->
                   IF k = p.key THEN Counted(FlowOf(k, time), p, time) ELSE flows[k]]
    /\ seen' = Append(seen, p)
    /\ pc' = IF conf.live THEN "count" ELSE "capture"
    /\ UNCHANGED <<conf, protocolFlows, output, alive>>

\* Fragments and packets that are too short have no flow; the file is rewritten
\* for them as well.
OtherPacket ==
  /\ alive /\ pc = "capture" /\ conf.live /\ writes < MaxPackets
  /\ pc' = "count"
  /\ UNCHANGED <<conf, table, output, alive, seen>>

\* The table is full: exit(-1).
TableFull ==
  /\ alive /\ pc = "capture" /\ Cardinality(DOMAIN flows) = MaxFlows
  /\ Keys # DOMAIN flows
  /\ alive' = FALSE
  /\ UNCHANGED <<conf, table, pc, output, seen>>

EndOfCapture ==
  /\ alive /\ pc = "capture" /\ ~conf.live
  /\ pc' = "count"
  /\ UNCHANGED <<conf, table, output, alive, seen>>

-----------------------------------------------------------------------------
(* printResults *)

\* node_proto_guess_walker: the flows of each protocol are added to those of
\* the listings before.
Tally == [l \in Labels |->
  protocolFlows[l] + Cardinality({k \in DOMAIN flows : flows[k].label = l /\ flows[k].packets >= NPackets})]

\* The names of the protocols with many flows are written before the header.
\* There are none: a counter of 16 bits does not reach n_packets.
Names == [n \in 1..Cardinality({l \in Labels : Tally[l] >= MinObjects}) |-> Mark("name")]

\* comma_flag is reset for each listing.
Open ==
  /\ alive /\ pc = "count"
  /\ protocolFlows' = Tally
  /\ out' = Names \o <<Mark("header")>>
  /\ flushed' = 0 /\ walk' = DOMAIN flows /\ commaFlag' = 0 /\ writes' = writes + 1
  /\ pc' = "walk"
  /\ UNCHANGED <<conf, flows, alive, seen>>

\* The file cannot be opened: the stream that is printed to is NULL.
OpenFails ==
  /\ alive /\ pc = "count"
  /\ protocolFlows' = Tally
  /\ alive' = FALSE
  /\ UNCHANGED <<conf, flows, pc, output, seen>>

\* printFlow
Visit(k) ==
  /\ alive /\ pc = "walk" /\ k \in walk
  /\ walk' = walk \ {k}
  /\ IF Permitted(flows[k].label)
     THEN /\ out' = out \o (IF commaFlag = 1 THEN <<Mark("comma")>> ELSE <<>>)
                        \o <<Entry(k, flows[k])>>
          /\ commaFlag' = 1
     ELSE UNCHANGED <<out, commaFlag>>
  /\ UNCHANGED <<conf, table, pc, flushed, writes, alive, seen>>

\* The buffer of the stream is written out.
Flush ==
  /\ alive /\ pc = "walk"
  /\ flushed' \in (flushed + 1)..Len(out)
  /\ UNCHANGED <<conf, table, pc, walk, commaFlag, out, writes, alive, seen>>

\* Faulty variant: the stream is not closed.
CloseForgotten ==
  /\ alive /\ pc = "walk" /\ walk = {}
  /\ out' = Append(out, Mark("footer"))
  /\ pc' = IF conf.live THEN "capture" ELSE "end"
  /\ UNCHANGED <<conf, table, walk, commaFlag, flushed, writes, alive, seen>>

Close ==
  /\ alive /\ pc = "walk" /\ walk = {}
  /\ out' = Append(out, Mark("footer"))
  /\ flushed' = Len(out')
  /\ pc' = IF conf.live THEN "capture" ELSE "end"
  /\ UNCHANGED <<conf, table, walk, commaFlag, writes, alive, seen>>

-----------------------------------------------------------------------------
Capture == (\E p \in Packet : FlowPacket(p)) \/ OtherPacket \/ TableFull \/ EndOfCapture
PrintResults == Open \/ OpenFails \/ (\E k \in Keys : Visit(k)) \/ Flush \/ Close

Next == Capture \/ PrintResults

Spec == Init /\ [][Next]_vars

-----------------------------------------------------------------------------
(* Properties *)

\* What a listing must say of a flow, from the packets seen.
PacketsOf(k) == {n \in DOMAIN seen : seen[n].key = k}
Found(k) == {n \in PacketsOf(k) : seen[n].guess # Unknown}
LabelOf(k) == IF Found(k) = {} THEN Unknown ELSE seen[Min(Found(k))].guess
Truth(k) ==
  [is |-> "flow", key |-> k,
   bytes |-> MapThenSumSet(LAMBDA n : seen[n].len, PacketsOf(k)) % Width,
   first |-> Min(PacketsOf(k)), last |-> Max(PacketsOf(k)), label |-> LabelOf(k)]

\* The lists as the comments of the source and readme.md describe them: a white
\* list permits its labels only, a black list all but its own.
Wanted(k) ==
  /\ PacketsOf(k) # {}
  /\ conf.usingInvalid = 0 => LabelOf(k) \in conf.valid
  /\ conf.usingInvalid = 1 => LabelOf(k) \notin conf.invalid

\* What a reader finds between two rewrites is a JSON document that lists every
\* flow wanted once and nothing else: its bytes modulo the width of the counter,
\* its first and last packet, and the first protocol that was found for it,
\* however often the file was rewritten (packet_processing, printResults). A flow
\* is wanted if the list in use permits its label: false where a black list has
\* labels, which main copies to the other list (pcap_to_flows.c:735-743).
ListingExact ==
  pc \in {"capture", "end"} /\ writes > 0 =>
    LET wanted == {Truth(k) : k \in {j \in Keys : Wanted(j)}}
        lines == {n \in DOMAIN out : n % 2 = 0 /\ n < Len(out)}
    IN
      /\ flushed = Len(out)
      /\ out[1] = Mark("header") /\ out[Len(out)] = Mark("footer")
      /\ \A n \in 2..(Len(out) - 1) : n % 2 = 1 => out[n] = Mark("comma")
      /\ {out[n] : n \in lines} = wanted
      /\ Cardinality(lines) = Cardinality(wanted)

File == INSTANCE RewrittenFile WITH
  MaxWrites <- 2 * MaxPackets,
  head <- IF writes = 0 THEN 0 ELSE IF flushed = 0 THEN -1 ELSE writes,
  tail <- IF writes = 0 THEN 0 ELSE IF pc = "walk" \/ flushed < Len(out) THEN -1 ELSE writes

\* The file is rewritten as the adapters expect (FlowCollection): it is emptied
\* only when it was complete, and then holds a growing part of one listing,
\* never a piece of an older one.
ImplementsFile == File!Spec
=============================================================================
