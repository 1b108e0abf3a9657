--------------------------- MODULE MCModbusRequests ---------------------------
(* An instance of ModbusRequests for TLC. *)
EXTENDS ModbusRequests

CONSTANTS plain, other

Entry(id, op) ==
  [id |-> id, op |-> op, key |-> FALSE, index |-> FALSE, offset |-> FALSE,
   number |-> TRUE, nested |-> FALSE]
Thing(regs, funcs, little) ==
  [methods |-> TRUE, dict |-> FALSE, setable |-> TRUE, little |-> little,
   regs |-> regs, values |-> 1, missing |-> "nothing", funcs |-> funcs]

\* "f" is a number of two registers, "c" a coil, "r" one register. The last two
\* have in one model a write method of the function code that wants several registers,
\* which SetRequest.cpp:185-194 expects to meet: behind or before another method.
MCIds == {"f", "c", "r"}
MCItem ==
  (plain :> [f |-> Thing(2, <<16>>, FALSE), c |-> Thing(0, <<5>>, FALSE),
             r |-> Thing(1, <<6, 16>>, FALSE)]) @@
  (other :> [f |-> Thing(2, <<16>>, TRUE),
             c |-> [Thing(0, <<16, 5>>, FALSE) EXCEPT !.missing = "address"],
             r |-> [Thing(1, <<6>>, FALSE) EXCEPT !.dict = TRUE, !.methods = FALSE]])

MCSample == <<"f", "c">>
MCSetEntries ==
  {Entry(id, "set") : id \in MCIds \cup {"unknown"}} \cup
  {[Entry("f", "set") EXCEPT !.number = FALSE], [Entry("c", "set") EXCEPT !.nested = TRUE],
   [Entry("r", "add") EXCEPT !.key = TRUE], Entry("f", "add"),
   [Entry("c", "add") EXCEPT !.offset = TRUE],
   [Entry("c", "other") EXCEPT !.index = TRUE], Entry("f", "other")}
MCQueryEntries ==
  [id : MCIds \cup {"unknown"}, op : {"get_value"}] \cup
  [id : {"c"}, op : {"get_attributes", "other"}]
=============================================================================
