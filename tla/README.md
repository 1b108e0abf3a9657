# Verification of the NC-Link adapters

The repository holds three adapters in C++ that carry data between an MQTT broker, which speaks
the NC-Link protocol, and a machine: one for Modbus/TCP (`src/ModBus`), one for OPC-UA
(`src/OPC-UA`) and one for MTConnect (`src/MTConnect`); and a collector in C
(`src/flow_collection/ndpi/pcap_to_flows.c`) that classifies captured packets and writes the flows
it knows to a JSON file, which each adapter forwards. Everything else is vendored.

This directory holds TLA+ models of the parts where threads, callbacks, networks and files meet, the
TLC configurations that check them on small instances, and TLAPS proofs, for every size, of all the safety properties.
A reader who wants one thing first should open `SampleChannel.tla` and its proofs.

## 1. Inventory

### Processes and threads

An adapter is one process. In each adapter `main` starts two threads, `adapter_init`
and `pcap_to_flows`; the latter starts the collector (`pcap.exe`) as a process of its own, and its only
link with the adapter is the file `test.json`. `adapter_init` connects to the device, parses the model file, connects to the broker,
starts two threads per channel and then idles (Modbus) or polls (OPC-UA, MTConnect). The MQTT library
(Paho) runs the callbacks one after the other on a thread of its own.

    device <---- calls ----- sampler thread ----> datas, isClear, beginTime ----> uploader --> broker
      ^                                                                                      |
      +----- calls ---- callback thread (Query, Set) <---- requests, CallBack.cpp <----------+
    collector --> test.json --> flow sampler ----> probe, isClear, isJson ------> flow uploader --> broker

No lock is taken anywhere. An exception that leaves a thread or a callback ends the process
(`std::terminate`), and nothing restarts it.

### Components

| Component | State | Operations | What is hard | What makes it correct |
|---|---|---|---|---|
| Sample channel, `Sample.cpp` | columns `datas`, flag `isClear`, `beginTime` | sample a row, push it column by column; copy, clear, flag, publish | two threads, no lock; flag tested and reset apart | order, no gap, no loss outside one window, true `beginTime`, aligned rows |
| MQTT session, `CallBack.cpp` | connection, retry counter, `topicMap`, subscriptions at the broker | connect, refuse, lose, reconnect, subscribe, dispatch, reply | losses at any point, timers that publish meanwhile, attempts and handlers that throw | subscribed again after any loss, one reply per request, gives up on time, no sound request ends it, comes back |
| Flow channel, `FlowCollection.cpp` of the three adapters | `probe`, `isClear`, `isJson`, the file | parse the file, mark, store; test, copy, clear, flag, publish | the file is rewritten in place while it is read; three statement orders | order, no time travel between messages, no loss outside one window |
| Modbus connection, `ModbusInterface.cpp`, modbuslib | transaction counter, stream of replies | one call: build, send, read in pieces, check | shared by all threads; late, split and lost replies | a call returns the reply to its own request, and returns |
| OPC-UA client, `OPCUAInterface.cpp`, `OPCUAAdapter.cpp`, `QueryRequest.cpp` | `SampleTestmap`, monitored items, the global `opcreturn` | monitor and first read; deliver, sample, publish; read for a query | notifications against first reads and queries; a global that outlives its request | own node's value, order, newest value published |
| Modbus requests, `QueryRequest.cpp`, `SetRequest.cpp` | `model`, `idPathMap` (read only), the device's registers | Query, Set, QuerySample | one step of several failing; codes and errors that live across items; byte orders | each answer follows from the request; what is refused is not written; a value written is read back |
| Modbus model file, `Probe*Request.cpp` | the file, `model` in memory | Probe/Set, Probe/Query, Probe/Version | a crash between truncation and write; file against memory | the next start succeeds; one model is answered from |
| Model paths and conversions, `Utils.cpp` | `idPath`, `sampleChannel` | recursive parse, `TypeConversion` | paths through missing lists; word orders | every id's path leads to it; read inverts write |
| `CEvent`, `Sample.h` | semaphore or Windows event | wait, set, reset | - | its use is a timer: the event is only set in destructors that never run |
| MTConnect polling, `MTConnectAdapter.cpp`, `QueryRequest.cpp` | http client, `deviceModel` | GET /probe, GET /current, publish; GET /current for a query | http client shared with the callback thread; a result without a response; a poll given up half way | what may end the adapter; channels in order; newest data published |
| Flow collector, `pcap_to_flows.c` | flow table, label lists, `comma_flag`, `test.json` | account a packet, detect, match labels, rewrite the file | 16-bit counters; state kept over rewrites; a full table | the file lists each permitted flow once, exactly; it is rewritten as its readers expect |
| Start-up, `main.cpp`, `*Adapter.cpp`, `Config.cpp` | globals | sequential set-up | - | - |

The rest (register and version responses, action listener, empty base classes, the OPC-UA and MTConnect handlers that
echo a constant) keeps no state. `PROJECT.json` lists each part with its status and every hazard
at its line, with the properties that cover it or the reason why none does.

## 2. The modules

A module models each handler or loop iteration as actions cut at the points where another thread
could come in: an access to shared state is one action, work on locals belongs to the action before or after it.
Names are those of the source. Operators under "Faulty variants" are plausible bugs in a definition; each
property was tried against one of them and catches it. They take no part in the specification.

### `SampleChannel` - `ModBus/src/Sample.cpp`

`SampleTask` is `CheckClear`, `Stamp`, `Unflag`, `Push` (lines 76-103); `UploadTask` is
`UploadBegin`, `CopyColumn` and `ClearColumn` (once per column), `MarkClear`, `Publish` or
`PublishThrows` (108-134). A value is the number of the row it was sampled in, and time is counted in rows.
The waits on `terminateEvent` always time out, because no `Sample` is ever deleted, so they are
no action. The data races are actions of their own with the outcomes a build can produce: a push that undoes a
clear (`PushUndoesClear`), a `beginTime` copied while it is assigned (`TornBegin`), freed storage
(`RaceKills`). Properties exempt exactly the columns where a race happened.

### `MqttSession` - `CallBack.cpp`

The three adapters share the shape of this file; the topic tables are constants. `Start` is the first attempt of `init`, and `Accepted`, `Refused`,
`ConnectionLost`, `Reconnect` are the connection callbacks with the retry counter `_nretry`; `Start` and `Reconnect` call `Connect`, which may throw,
and then they exit. `Subscribe` and `Announce` are the steps of `connected`, `Arrive` and `Reply` those of `message_arrived`. A request is sound or faulty: `faulty` is one at which
the handlers of the topics `Parsing` throw (no JSON text, a field that is missing or of another type, a model file that cannot be parsed), and nothing catches that
(`Returns`). What the handlers do with a request is in `ModbusRequests`, `OpcUaClient` and `MTConnectPoll`. `Upload` is a
timer of a sampling or flow thread: `Guarded` publishers catch what `publish` throws, the others end the process.
`Lose` and `Request` are the network and the broker, with clean sessions. Whether the client is connected is
checked in each call (`Online`), since a loss can come in at any point of a callback. Two simplifications: `subscribe` is asynchronous in the library and
done when it returns here, and `publish_method_qos` is taken to have every topic that is published, as the shipped configurations do.

### `FlowCollection` - `FlowCollection.cpp` of the three adapters, `printResults` of the collector

The adapters differ in the order of a few statements, so `adapter` is chosen at the start and two operators say what
differs (`ResetsJson`, `StoresFirst`). The file is the one of `RewrittenFile`, whose next-state relation is the action
`Collector`: two halves that carry the number of the rewrite they are from, changed by `Truncate`, `WriteHead` and
`WriteTail`. `Open` and `Parse` read one half each, `ParseThrows` is a parse error, which leaves the thread. `isJson` starts with any value, as the
constructor does not set it.

### `LossyChannel` and `RewrittenFile` - what the parts promise each other

`LossyChannel` is what a reader may expect of a channel: in each lane items are numbered as they are made, wait, and are delivered in
batches, in order and at most once; items are only lost while they wait, and only the newest of them. `SampleChannel` (a lane per column) and
`FlowCollection` (one lane) implement it; the mapping is in their definitions of `Channel`, and both runs check `ImplementsChannel`. It is
what ties the properties about order, gaps and losses together: one waiting list must account for every message at once. A lane whose storage
two threads touched at one time is `broken` and promises nothing; `repeats` is the adapter that stores a sample twice.

`RewrittenFile` is what an adapter may expect of `test.json`: it is emptied only when it was complete, and a part that was written stays until
then. `FlowCollection` takes it as its collector and `PcapFlows` implements it (`ImplementsFile`), so that the assumption of the one is what
the other is shown to keep.

### `PcapFlows` - `pcap_to_flows.c`

`FlowPacket` is `packet_processing` for a packet of a flow (table, counters, detection), `OtherPacket` a fragment or a packet too short to have
one, `TableFull` the exit at `MAX_NDPI_FLOWS`. `Open`, `Visit`, `Flush` and `Close` are `printResults`: the count of flows by protocol with the names
that many flows would put before the header, the header, one flow of the walk, the stream's buffer going out at any time, footer and close.
`conf` holds how the program was started: live it lists after every packet, from a capture once at the end, and the
label lists are only read when live (`LabelLists` for the white list, `BlackLists` for the black one). What nDPI answers is arbitrary for every packet. Packets and bytes are counted modulo `Width`.
The walk is taken in any order; the file is a sequence of tokens. Lengths and inter-arrival times are kept by the code and written nowhere.

### `MTConnectPoll` - `MTConnectAdapter.cpp` and `QueryRequest.cpp` of the MTConnect adapter

Both threads ask the agent through one `httplib::Client`, and a request is `SetAddress` (which replaces the connection object and destroys the
former, whoever waits on it), `Get` (requests on one object take turns on its mutex) and one of `Fetched`, `Refused` (a status
other than 200) and `NoResponse`. The last ends the process: a `Result` without a response holds a null pointer, which
`res->status` dereferences, and no `catch` sees that. The start is the loop's first request and the first attempt to connect, `Begin` or `BeginThrows`, which exits. From then on the loop is `Poll`, then
`Publish` for each channel or `PublishThrows`, which gives the poll up. A query is `Arrive`, the request and `Answer`, which ends the process at an entry without an id and when the link is down;
`Unparsable` is a request that is no JSON text. `RaceKills` is the freed object in use. `ended` says what ended the process: one of the two threads, the race, the session of the callbacks (`SessionEnds`, as in
`MqttSession`) or the threads of the flow channel (`FlowsEnd`, as in `FlowCollection`), which are here as nothing else.
A document is the version of the agent's data; agent, link and clients are the environment.

### `ModbusLink` - `ModbusInterface.cpp`, `modbus.c`, `modbus-tcp.c`

A call is `Begin`, `LoadTid`, `StoreTid`, `StampTid` (the three accesses to the transaction counter), `Send` or `SendFails`,
`ReadHead`, `ReadBody`, `Check`, with the ways it fails. A request that the socket takes in part is left out: what the server makes of it is its own affair. A reply is a head and a body on the stream. `Misread` and
`ReadForeignBody` are what happens when another thread took a piece. The server answers in order, late, in pieces
or never. `crowded` remembers that two threads were in a call at once: what holds of calls that never overlap is stated under `~crowded`,
for any threads, and `MaxCrowded` bounds the calls of the others. Values, exception replies and the connection's set-up are left out; the library never
flushes the stream nor reconnects, because the adapter sets no error recovery.

### `OpcUaClient` - `OPCUAAdapter.cpp`, `OPCUAInterface.cpp`, `QueryRequest.cpp`

A value is the number of changes of its node. `Monitor` and `FirstRead` are the start, where the item exists before
the first read; `Deliver` is one iteration of the main loop (`handler_DataChanged`), `FillEntry` and
`Publish` the sampler, `Ask` to `Reply` a query, which reads each node through the global `opcreturn`. An entry of a query names its node by the id alone, by identifier and a type a read exists for (String or Int32), or by
another type, or it is faulty. `BeginRead` and `EndRead` are for the entries that are read (`Readable`), `SkipRead` for those that nothing is read for and that are answered from `opcreturn` all the same: an id the model
file does not know, or whose type is another one. `Refuse` is the exception a faulty entry meets, which refuses the request; so does the id alone of a node whose identifier is a number, which the model file holds as text.
The server samples into a queue of one, the default of the client library. The library is built without
multithreading: `ClientRace` is a read that collides with a delivery.

### `ModbusRequests` - `QueryRequest.cpp`, `SetRequest.cpp`, `ProbeSetRequest.cpp`, `ProbeQueryRequest.cpp`, `Utils.cpp`

What requests mean, where `ModbusLink` looks at the calls they make. `ProbeOpen` and `ProbeClose` are Probe/Set, cut where the file
is truncated but not written; `Start` reads the file into `memory`, the globals `model` and `idPathMap`, `Crash` forgets it.
`SetItem` and `QueryItem` take one item of a request, `Echo` an item of a Set that is sent back as it came; `EntryCode` is the order of tests by which `SetRequest::set` comes to a
code. `Writes` is the loop of `setValue` over the write methods of an id, which a method of code 16 with a type of one register leaves with 202 (`Refuses`, `Reached`). `Malformed` is a request whose handler
throws as a whole or at an item, `QueryThrows` an item without a result while no item before it has one, `SampleThrows` a read method of the sampler without an address. `Sample` is one id of `QuerySample`. A value is a version, and on the wire the sequence of its bytes, so that `Encode` (a
write) and `Decode` (a read) are the permutations the code performs; that they are inverse is `ReadsBack`. They are
only for `big_endian`: a little-endian float written `ABCD` goes out as `BADC` and is read as `CDAB`, so `ReadsBack` says so in
its premise. Other behaviour the module keeps as it is: an item that is not
setable, and a write that failed, are answered OK; a read that failed is answered OK with what the memory held; an operation the Set
does not know is answered with the code of the item before it; an answer OK shows the reason and error of the last item that was refused (`CodesFollow` states which); an item refused by its second method
has been written by its first (`RefusedUnwritten` names it as the one exception); Probe/Set answers OK when the file could not be opened or written. Write methods are taken to have an address, a number, a code and a data type. Left out: a Set
without an array of values, which changes nothing, and an operation that stands beside `params`.

## 3. The runs

Run TLC as `tlc -config X.cfg M`. All bounds are constants of the modules and appear only in guards.

| Run | Configuration | Bounds | What it shows |
|---|---|---|---|
| `sample_channel` | `MCSampleChannel.cfg` | 2 columns, 2 rows | six safety properties, `EveryValueSettles`, and that each column is a `LossyChannel` |
| `mqtt_session` | `MqttSession.cfg` | 3 losses, 5 retries, 2 requests, sound or faulty | safety of the session, and `LossEnds`; attempts may throw, the channel publisher is unguarded, the flow publisher guarded |
| `mqtt_upload_offline` | `MqttSessionUpload.cfg` | 1 loss | a violation: a timer ends the process during an outage, before the reconnection is tried |
| `flow_channel` | `FlowCollection.cfg` | 3 samples, 2 rewrites, each adapter | order, losses, liveness in all three statement orders, and that the channel is a `LossyChannel` |
| `pcap_flows` | `PcapFlows.cfg` | 3 packets, up to 3 flows, at most 2 fit, live and capture, counters modulo 3, two white lists, the empty black list | the file between two rewrites lists exactly what it should, and it is a `RewrittenFile` |
| `pcap_black_list` | `PcapFlowsBlackList.cfg` | the same, two black lists | a violation: a flow whose label is on the black list is listed |
| `mtconnect_poll` | `MTConnectPoll.cfg` | 2 channels, 2 versions, 2 queries, 2 faults | what the two threads end the adapter for, channels in order, newest data published |
| `modbus_calls` | `ModbusLink.cfg` | 2 threads, 5 calls (3 once two overlap), identifiers modulo 3 | in turn, a late reply is never taken for another's, even over a wrap; overlapping, no reply is taken twice and every call returns |
| `modbus_shared` | `ModbusLinkShared.cfg` | 2 threads, 2 calls, modulo 8 | a violation: two calls at once and one returns what is not its reply, far from any wrap |
| `opcua_client` | `OpcUaClient.cfg` | 2 nodes, one with a number for its identifier, 1 that does not exist, 1 change per node, 1 entry per request, read, not read or faulty | order, freshness, own node, and that the newest value is published |
| `opcua_unread` | `OpcUaUnread.cfg` | 2 entries per request, by id | a violation: an id nothing is read for is answered OK with the value of the node before it |
| `modbus_requests` | `ModbusRequests.cfg` | 3 ids and an unknown one, 2 models, 2 items per request, 2 values set, 1 Probe/Set, 2 starts | the code and error of each answer, what a refused item has written, written values read back, the file as answered, aligned rows |

Why the bounds are enough for the questions asked. A column interacts with another only through the loops' order, so
two columns show every order of a push loop against a copy and a clear loop; two rows let a message be followed by another. The safety properties were
checked with three rows as well (2.6 million states). For the safety properties the proofs remove the bounds altogether (section 5); the runs
remain for liveness, and the invariants of the proofs were checked by TLC before they were proved.
Losses in `MqttSession` matter in their position in a callback and in the state a former outage left, so two would
do. Identifiers modulo 3 wrap within five calls. Three packets with lengths 1 and 2 and counters modulo 3 wrap the bytes of a flow, leave a flow without a guess, with one, and with a second that must be ignored, and fill a table of two flows; the limit of the counters is `NPackets`, as the code's lies above what 16 bits hold. Two faults in `MTConnectPoll` put a loss or a refusal before and between the channels of a poll, and two queries overlap one poll twice. For `OpcUaClient` one change per node already
puts a first read ahead of a waiting notification and a query between the two; with two ids in a request the run takes
several minutes and shows nothing else, as `opcreturn` outlives requests. `ModbusRequests` needs two items for one to leave something behind for
the other, two values for an old one to be read, and two starts for a model to change between a write and a read; its ids are a float, a coil and a
register that has a second write method of a code that does not fit; the second model describes them as little-endian, with that method first and no address to read from, and as a dict without methods. `MTConnectPoll` has two versions: the poll under
way, or a query, can be behind what is published next, which is all that versions are compared for.

`CHECK_DEADLOCK FALSE` is set in every run: the process may end, and the bounded counters run out. Every module with a type invariant has it checked and
proved; `ModbusRequests` and `MTConnectPoll` state none, as their other properties fail at once on a value out of its set.

Fairness. `WF` of a sampler or uploader stands for a loop whose wait has a timeout and for the operating system's
scheduling of a thread; no stronger fairness is used. The collector, the broker, the clients and the servers are not fair, with two exceptions: a
connection attempt has some outcome (the library's own timeout), and an OPC-UA server samples the items it has
accepted. In `MTConnectPoll` the two threads are fair, as requests to the agent have timeouts and the loop sleeps for a fixed time; agent and link are not: `NewestPublished` assumes
that they are up from some time on. A `publish` that throws is never excluded by fairness: each liveness property
names the end of the process as an outcome.

## 4. Findings

Four runs show behaviour that a line of the repository contradicts; `PROJECT.json` quotes each.

1. `mqtt_upload_offline`: `Sample.cpp:129` publishes during an outage without a handler, so the
   reconnection that `CallBack.h:38-39` describes may never start.
2. `modbus_shared`: two threads can be given one transaction identifier (`modbus-tcp.c:105-111`), and split the
   stream between them.
3. `opcua_unread`: for an id without an identity (`QueryRequest.cpp:82` of the OPC-UA adapter), and for one whose type is neither String nor Int32 (52-62, 68-78), nothing is read and the
   `opcreturn` of an earlier id is answered as its own.
4. `pcap_black_list`: `pcap_to_flows.c:743` copies `invalid_labels` of `conf.json` to `valid_labels`, so that the black list stays empty and permits everything, while the comments at lines 67, 68, 240 and 735
   and `src/flow_collection/ndpi/readme.md:21` call it a list that filters. `ListingExact` states the documented filter; that it holds without a black list is the run `pcap_flows` and the theorem `ListsExactly`.

Two more disagreements need no run, since a single line shows each. `src/ModBus/conf/Modbus.json:24-25` has topics subscribed to whose handlers are commented out in `CallBack.cpp`
(39-40), so that a request on one calls a null pointer (99-100): it is the premise of `NoRequestKills`. And `MTConnectAdapter.cpp:161` and `QueryRequest.cpp:31` mean to catch a request that failed, but httplib
returns a `Result` without a response instead of throwing, and `res->status` dereferences null: `EndsOnlyBy` lists a silent agent among the reasons to end.

## 5. The proofs

Each component has a module of proofs, `<component>Proofs.tla`; run `tlapm` on it. The theorems hold for every value of the constants that the
module's `ASSUME`s admit, and of the bounds, which only count as natural numbers. Except where this section says so the assumptions are of no more than that: what the model values are not,
that a list of ids lists ids. Each theorem follows from an inductive invariant `Init => IInv`, `IInv /\ [Next]_vars => IInv'`; a lemma named
after a step says what the step does to it.

### `SampleChannelProofs`

For any number of columns and rows. `TypeCorrect` is inductive as it stands. The others are not: that nothing is lost cannot be concluded from what is published now,
without knowing how the copy relates to the column. `IInv` adds, for each column that never raced, that the
column is a run of consecutive rows ending with the last one pushed (`BufferIsRun`); that between copy and clear
the copy is its beginning, followed by rows of the window only (`CopyIsPrefix`); and that what left it lies before it, in
order (`CopyIsPast`, `SentIsPast`, `SentInOrder`). From it follow `NoOtherLoss`, `InOrder` and `NoGap`: a value is lost only between
copy and clear of its column, no value is published twice or out of order, and no message has a gap.

`WholeRows` relates the columns to each other, so it needs an invariant of its own (`Whole`): what a message in the making will carry of one
column it will carry of the others, except the row that is being pushed now and those pushed during an upload. The columns that were cleared
hold only such rows until the last is cleared. `ExactBegin` needs where the flag stands (`Flag`, `TimeInv`): while `isClear` is set, a
column holds only rows pushed during an upload; while it is not, none is older than `beginTime` and none is missing since. This is why a clear
marked between the test and the reset of the flag does no harm: the row being pushed is then one that the property exempts.

`IsLossyChannel` is the refinement: a push puts (`PushPuts`), a clear loses what came after the copy (`ClearLoses`), a publish delivers
(`PublishDelivers`), a copy and the rest stutter, and a collision breaks its lane. What waits is the copy followed by the rest of the column (`CopyAndRest`).

### `FlowCollectionProofs`

For each adapter's statement order, any number of samples and rewrites. The order needs that whatever was sent, is in flight, waits or is in hand
comes, in this order, from ever later rewrites (`OrderInv`, with `Before` for two samples and `Behind` for the one being parsed), and that a half of the file is missing or of the rewrite under way (`FileInv`).
The losses need that what waits between copy and clear was copied or stored since (`WindowInv`). `IsLossyChannel` is the refinement, with one lane.

### `PcapFlowsProofs`

For any flows, protocols, lengths and packets. `RewritesFile` is the refinement of `RewrittenFile`: wherever the stream's buffer goes out, the file is emptied only when it was
complete. `NoNamesPrinted` is why `ListingExact` can leave out the names that `printResults` may put before the header: they are for
flows with at least `n_packets` packets, and a counter of their width does not get there. It rests on `NPackets >= Width`, which holds of the code (2^30 and 2^16).

`ListsExactly` is `Spec => []ListingExact`. Its invariant has two more parts. `TruthInv` says of each flow in the table what `ListingExact` says of its line,
from the packets seen: it is there if and only if it has packets, its times are those of the least and the greatest of them, its bytes their sum modulo `Width`, and its label the
first guess. The premise is `NoBlackList`: no list of labels is configured as a black one, as shipped; the run `pcap_black_list` shows that it cannot be dropped. `ListInv` says of the listing that the flows permitted among those visited stand in it, each once and each on its own line, with commas
between them. At the end of the walk (`CloseExact`) the two meet. The sum is a fold over a set, and the library's induction on finite sets cannot be cited,
so the lemmas on sums argue with the smallest subset instead (`SmallestSubset`, from `WFMin`): of the finite sets without a sum, and of those on which two functions that follow the fold
differ, there is no smallest one, hence none. That a counter which wraps at each packet ends where the sum wraps (`ModAdds`) is the rest.

### `ModbusLinkProofs`

For any set of threads, any modulus, any number of calls. `TypeCorrect` is inductive with the fact that a thread in a call has a number. `SerialCallsOwnAnswer` is
`Spec => []SerialOwnAnswer`: while no two threads have been in a call at once, a call that succeeds returns its own reply unless replies are `TidMod` calls (65536 in the code)
late. The invariant (`IInv`, about the thread in a call, or any if none is) says that the stream is framed - a head is followed by its own body, or the server still owes it - and
that a reply less than `TidMod` calls old carries the identifier the counter had that many calls ago; `InTurn` adds that at most one thread is in a call, and `Serial` that
the invariant holds of every thread whose fellows are idle, so that it passes from a thread that returned to whichever calls next. The run `modbus_shared` shows that the premise cannot be dropped, and the adapter does not meet it.

`InSync` needs the order of the line as well (`InLine`): pieces to read, the reply the server owes and the requests stand in the order of their calls, so that
nothing is behind the newest. `ReadOnce` needs neither and holds whether calls overlap or not: the number of a call is in one place at
a time, with its caller, in a request, in a head to be read, in a head that was read, or in a result (`Once`).

### `MqttSessionProofs`

For any topics, limit of retries, losses and requests, sound or faulty. `_nretry` is not reset when an attempt succeeds but when the next loss is reported, so `RetriesExhausted` needs `RetryInv`: the counter is
the number of refusals in a row exactly while the connection is down and the loss was reported; a `connect` that throws exits earlier, and is the only thing that does. `SubscribedAgain` needs that what `connected` has still to do is what is missing (`SubscribeInv`), `AnsweredOnce` that the
request being answered is the only one without its reply (`ReplyInv`). `NoRequestKills` says that an exception ends a connected process only at a faulty request to a handler that parses. It has a premise, that each configured topic has a handler, which the
topics of `conf/Modbus.json` do not meet.

### `OpcUaClientProofs`

For any nodes, changes and requests of any length. A value on its way from server to broker is ahead of none behind it, but for the one of a first read
(`Pipeline`), and none is from the future (`FromPast`); `SamplesOrdered` and `NotBehindSamples` follow. `OwnNodeAnswered` rests on the order in which a query
sets and uses `opcreturn`. Both theorems about queries are about the entries that are read; what the others are answered with is the run `opcua_unread`.

### `ModbusRequestsProofs`

For any models, requests, widths of items, crashes and restarts. `FileIsAnswered` needs that the file is open and empty while a Probe/Set runs (`StoredInv`). `WhatIsSetIsRead` needs that the
registers hold, for each item, what was written last in the byte order of that item (`Held`), and that `Decode` undoes `Encode` when big-endian
(`BytesRead`). `ColumnsInPlace` needs that a row is as long as the loop has come (`RowInv`). `AnswersFollow` needs that `retCode` is the code of the last item that decided one, and the error that of the last item refused; `RefusedIsUndone`
that the only code an item that writes can be refused with is 202, behind a method that has written (`RefusedClean`). Both use `Turn`, which says how far a request has come.
`ItemAssumption` is about configuration: the addresses of an id, and so the width of its value, are those of the device, whatever model describes
it, and function codes 5, 6 and 15 are used for what they write. The code checks neither.

### `MTConnectPollProofs`

For any number of channels, queries, faults and versions. `ChannelsInOrder` needs that the poll under way is at least as new as everything published and that the channels before the next have it (`PollInv`);
`OnlyTheseEnd` that the connection object can only be destroyed under a thread when requests overlap, that only a silent agent leaves one without a response, and that an answer is only refused for a malformed request or an absent link (`EndInv`). It
is about the polling loop, the callback of a Query and the race of the two: the session and the flow threads end the adapter for reasons of their own, which `MqttSession` and `FlowCollection` state.

### Only model-checked

- The liveness properties (`EveryValueSettles`, `EverySampleSettles`, `LossEnds`, `EveryCallReturns`, `SamplesCatchUp`, `NewestPublished`): the prover does not reach fairness and `ENABLED`.

## 6. Not modelled, and why

- `PathParse` of `Utils.cpp`: a recursion over one tree, without state. In `ModbusRequests` an id is known to a model or not. Data types that
  `TypeConversionCode` does not list (`"LIST"` in the shipped model, item 010308, where `QueryRequest.cpp:107` uses `end()`) are not
  modelled, nor an item whose first method is not its read method.
- What nDPI finds in a packet, the choice of the network device, and lengths and inter-arrival times of a flow, which are never written.
- `DeviceModel.cpp` and `utils.cpp` of the MTConnect adapter: conversions of XML to JSON, without state; `MTConnectPoll` takes the number of channels.
- `CEvent`: only its use. `ResetEvent` is never called and `SetEvent` only in destructors that never run.
- Time as such: intervals, the text of time stamps, keep-alive.
- Formatting, logging, memory leaks, and the vendored libraries beyond what section 2 names.
- The only JavaScript in the repository, by far its largest part in lines, is below `src/工业互联网协议模拟器/`: the bundled MTConnect simulator with a copy of
  three.js for its demonstration page. No program of this repository loads it, so nothing of it is modelled. The adapters and the collector are C++ and C.

## 7. Plan

The modules of the plan are written, and the safety properties the runs check are proved. What is left:

1. `LossyChannel`: that what a lane delivers increases and is delivered once, and `RewrittenFile`: that its second half is never newer than
   its first, from the abstract specifications alone, so that the refinements carry them to every channel.
2. `MTConnectPoll` and `ModbusRequests`: types as theorems, which the proofs have as parts of their invariants.
