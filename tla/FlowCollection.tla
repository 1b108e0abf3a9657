---------------------------- MODULE FlowCollection ----------------------------
(***************************************************************************)
(* The flow channel of an adapter (FlowCollection.cpp): a thread that      *)
(* parses the file of the flow collector into probe, a thread that copies, *)
(* clears and publishes probe, and the collector itself, which rewrites    *)
(* the file in place for every packet (RewrittenFile, which PcapFlows      *)
(* implements).                                                            *)
(*                                                                         *)
(* The three adapters order the sampler's steps differently: the one that  *)
(* runs is chosen at the start. The file is its two halves, each the       *)
(* number of the rewrite it is from: what matters is that it is written    *)
(* and read in pieces.                                                     *)
(***************************************************************************)
EXTENDS Integers, Sequences

CONSTANTS
  Adapters,     \* the adapters that may run
  MaxSamples,   \* bound: samples taken
  MaxWrites     \* bound: rewrites of the file

ASSUME AdaptersAssumption == Adapters \subseteq {"ModBus", "OPC-UA", "MTConnect"}
ASSUME BoundsAssumption == MaxSamples \in Nat /\ MaxWrites \in Nat

VARIABLES
  adapter,    \* the adapter that runs
  head, tail, \* the halves of the file: the rewrite they are from, or Missing
  writes,     \* rewrites begun
  isClear, isJson,
  probe,      \* the sample that waits
  resp,       \* responseJson["probe"]
  spc,        \* program counter of SampleTask
  local,      \* SampleTask's own probe
  upc,        \* program counter of UploadTask
  alive,      \* the process runs
  samples,    \* history: samples parsed
  stored,     \* history: the last sample stored in probe
  window,     \* history: samples stored between the copy and the clear
  sent        \* history: the samples published

file == <<adapter, head, tail, writes>>
flags == <<isClear, isJson>>
history == <<samples, stored, window, sent>>
vars == <<file, flags, probe, resp, spc, local, upc, alive, history>>

File == INSTANCE RewrittenFile

Missing == File!Missing

\* A sample: its number and the rewrites its two halves are from.
Sample == [id : Nat, head : Nat, tail : Nat]
Empty == [id |-> 0, head |-> 0, tail |-> 0]
Waiting(value) == value # Empty

\* The sampler resets isJson where it resets isClear.
ResetsJson == adapter \in {"ModBus", "MTConnect"}

\* The sampler stores probe before it marks isJson, and once more after.
StoresFirst == adapter = "MTConnect"

TypeOK ==
  /\ adapter \in Adapters
  /\ head \in 0..MaxWrites \cup {Missing}
  /\ tail \in 0..MaxWrites \cup {Missing}
  /\ writes \in 0..MaxWrites
  /\ isClear \in {0, 1} /\ isJson \in {0, 1}
  /\ probe \in Sample /\ resp \in Sample
  /\ spc \in {"test", "unflag", "unjson", "open", "parse", "early", "mark", "store"}
  /\ local.id \in 0..MaxSamples
  /\ local.head \in 0..MaxWrites \cup {Missing}
  /\ local.tail \in 0..MaxWrites
  /\ upc \in {"wait", "copy", "clear", "flag", "publish"}
  /\ alive \in BOOLEAN
  /\ samples \in 0..MaxSamples
  /\ stored \in 0..MaxSamples
  /\ window \subseteq 1..MaxSamples
  /\ sent \in Seq(Sample)

\* The constructor sets isClear and leaves isJson as the memory was.
Init ==
  /\ adapter \in Adapters
  /\ File!Init
  /\ isClear = 1 /\ isJson \in {0, 1}
  /\ probe = Empty /\ resp = Empty
  /\ spc = "test" /\ local = Empty
  /\ upc = "wait"
  /\ alive = TRUE
  /\ samples = 0 /\ stored = 0 /\ window = {} /\ sent = <<>>

-----------------------------------------------------------------------------
(* The collector rewrites the file. *)

Collector ==
  /\ File!Next
  /\ UNCHANGED <<adapter, flags, probe, resp, spc, local, upc, alive, history>>

-----------------------------------------------------------------------------
(* Faulty variants of the definitions that follow. *)

\* The stream is opened once and never rewound.
OpenOnce ==
  /\ alive /\ spc = "open"
  /\ local' = IF samples = 0 THEN [local EXCEPT !.head = head] ELSE local
  /\ spc' = "parse"
  /\ UNCHANGED <<file, flags, probe, resp, upc, alive, history>>

\* The sample stays where it was.
ClearForgets ==
  /\ alive /\ upc = "clear"
  /\ upc' = "flag"
  /\ UNCHANGED <<file, flags, probe, resp, spc, local, alive, history>>

\* The sampler clears the probe with the flag.
UnflagClears ==
  /\ alive /\ spc = "unflag"
  /\ isClear' = 0 /\ UNCHANGED isJson
  /\ probe' = Empty
  /\ spc' = IF ResetsJson THEN "unjson" ELSE "open"
  /\ UNCHANGED <<file, resp, local, upc, alive, history>>

\* A sample that cannot be parsed is kept.
ParseKeeps ==
  /\ alive /\ spc = "parse"
  /\ local' = [id |-> samples + 1, head |-> local.head, tail |-> tail]
  /\ samples' = samples + 1
  /\ spc' = IF StoresFirst THEN "early" ELSE "mark"
  /\ UNCHANGED <<file, flags, probe, resp, upc, alive, stored, window, sent>>

\* The mark is made only where the flag was reset.
MarkOnce ==
  /\ alive /\ spc = "mark"
  /\ isJson' = IF stored = 0 THEN 1 ELSE isJson
  /\ UNCHANGED isClear
  /\ spc' = "store"
  /\ UNCHANGED <<file, probe, resp, local, upc, alive, history>>

-----------------------------------------------------------------------------
(* SampleTask *)

Test ==
  /\ alive /\ spc = "test" /\ samples < MaxSamples
  /\ spc' = IF isClear = 1 THEN "unflag" ELSE "open"
  /\ UNCHANGED <<file, flags, probe, resp, local, upc, alive, history>>

Unflag ==
  /\ alive /\ spc = "unflag"
  /\ isClear' = 0 /\ UNCHANGED isJson
  /\ spc' = IF ResetsJson THEN "unjson" ELSE "open"
  /\ UNCHANGED <<file, probe, resp, local, upc, alive, history>>

ResetJson ==
  /\ alive /\ spc = "unjson"
  /\ isJson' = 0 /\ UNCHANGED isClear
  /\ spc' = "open"
  /\ UNCHANGED <<file, probe, resp, local, upc, alive, history>>

\* The file is opened and its first part read.
Open ==
  /\ alive /\ spc = "open"
  /\ local' = [local EXCEPT !.head = head]
  /\ spc' = "parse"
  /\ UNCHANGED <<file, flags, probe, resp, upc, alive, history>>

\* The rest is read. parse throws on a file that lacks a part, it never returns
\* a discarded value; what is put together from two rewrites may parse or not.
Parse ==
  /\ alive /\ spc = "parse"
  /\ local.head # Missing /\ tail # Missing
  /\ local' = [id |-> samples + 1, head |-> local.head, tail |-> tail]
  /\ samples' = samples + 1
  /\ spc' = IF StoresFirst THEN "early" ELSE "mark"
  /\ UNCHANGED <<file, flags, probe, resp, upc, alive, stored, window, sent>>

ParseThrows ==
  /\ alive /\ spc = "parse"
  /\ local.head = Missing \/ tail = Missing \/ local.head # tail
  /\ alive' = FALSE
  /\ UNCHANGED <<file, flags, probe, resp, spc, local, upc, history>>

Mark ==
  /\ alive /\ spc = "mark"
  /\ isJson' = 1 /\ UNCHANGED isClear
  /\ spc' = "store"
  /\ UNCHANGED <<file, probe, resp, local, upc, alive, history>>

\* probe is assigned, before the mark too where StoresFirst.
Store ==
  /\ alive /\ spc \in {"early", "store"}
  /\ probe' = local
  /\ stored' = local.id
  /\ window' = IF upc = "clear" THEN window \cup {local.id} ELSE window
  /\ spc' = IF spc = "early" THEN "mark" ELSE "test"
  /\ UNCHANGED <<file, flags, resp, local, upc, alive, samples, sent>>

-----------------------------------------------------------------------------
(* UploadTask *)

UploadTest ==
  /\ alive /\ upc = "wait" /\ isJson = 1
  /\ upc' = "copy"
  /\ UNCHANGED <<file, flags, probe, resp, spc, local, alive, history>>

Copy ==
  /\ alive /\ upc = "copy"
  /\ resp' = probe
  /\ upc' = "clear"
  /\ UNCHANGED <<file, flags, probe, spc, local, alive, history>>

Clear ==
  /\ alive /\ upc = "clear"
  /\ probe' = Empty
  /\ upc' = "flag"
  /\ UNCHANGED <<file, flags, resp, spc, local, alive, history>>

Flag ==
  /\ alive /\ upc = "flag"
  /\ isClear' = 1 /\ UNCHANGED isJson
  /\ upc' = "publish"
  /\ UNCHANGED <<file, probe, resp, spc, local, alive, history>>

\* An empty probe is published like any other; only samples are recorded.
Publish ==
  /\ alive /\ upc = "publish"
  /\ sent' = IF Waiting(resp) THEN Append(sent, resp) ELSE sent
  /\ upc' = "wait"
  /\ UNCHANGED <<file, flags, probe, resp, spc, local, alive, samples, stored, window>>

\* publish throws while the client is not connected.
PublishThrows ==
  /\ alive /\ upc = "publish"
  /\ alive' = FALSE
  /\ UNCHANGED <<file, flags, probe, resp, spc, local, upc, history>>

\* probe is assigned while the other thread copies or clears it: the storage
\* it uses has been freed.
RaceKills ==
  /\ alive /\ spc \in {"early", "store"} /\ upc \in {"copy", "clear"}
  /\ alive' = FALSE
  /\ UNCHANGED <<file, flags, probe, resp, spc, local, upc, history>>

-----------------------------------------------------------------------------
SampleTask == Test \/ Unflag \/ ResetJson \/ Open \/ Parse \/ ParseThrows \/ Mark \/ Store
UploadTask == UploadTest \/ Copy \/ Clear \/ Flag \/ Publish \/ PublishThrows

Next == Collector \/ SampleTask \/ UploadTask \/ RaceKills

Spec == Init /\ [][Next]_vars

\* The loops go on while the process runs: their waits have timeouts. The
\* collector may stop anywhere, and is not fair.
FairSpec == Spec /\ WF_vars(SampleTask) /\ WF_vars(UploadTask)

-----------------------------------------------------------------------------
(* Properties *)

InFlight == upc \in {"clear", "flag", "publish"} /\ Waiting(resp)

Published == {sent[n].id : n \in DOMAIN sent}

\* The flows published never go back in time, even when a message is put
\* together from two rewrites of the file.
FlowsInOrder ==
  /\ \A n \in DOMAIN sent : sent[n].head <= sent[n].tail
  /\ \A m, n \in DOMAIN sent : m < n =>
       sent[m] = sent[n] \/ sent[m].tail <= sent[n].head

\* The newest sample is lost only by being stored between the copy and the
\* clear; else it waits, is on its way or has been published.
LossOnlyInWindow ==
  stored = 0 \/ stored \in Published \cup window
    \/ probe.id = stored \/ (InFlight /\ resp.id = stored)

\* The uploader does not sit on a sample: it is published, replaced by a newer
\* one or lost in the window, unless the process ended.
EverySampleSettles ==
  \A s \in 1..MaxSamples :
    (stored = s) ~> (stored > s \/ s \in Published \cup window \/ ~alive)
-----------------------------------------------------------------------------
(* The channel as its reader sees it *)

One(sample) == IF Waiting(sample) THEN <<sample.id>> ELSE <<>>

\* What waits: the copy on its way, then what was stored since it was taken.
Waits ==
  CASE upc \in {"wait", "copy"}    -> One(probe)
    [] upc = "clear"               -> One(resp) \o (IF probe = resp THEN <<>> ELSE One(probe))
    [] upc \in {"flag", "publish"} -> One(resp) \o One(probe)

Channel == INSTANCE LossyChannel WITH
  Lanes <- {"FlowCollection"},
  lane <- [l \in {"FlowCollection"} |->
             [made |-> stored, waiting |-> Waits,
              delivered |-> [n \in DOMAIN sent |-> <<sent[n].id>>]]],
  broken <- {},
  repeats <- StoresFirst

\* In each adapter's statement order the flow channel implements a lossy
\* channel: no message steps back to an older sample, and none is published
\* again but by the adapter that stores each sample twice.
ImplementsChannel == Channel!Spec
=============================================================================
