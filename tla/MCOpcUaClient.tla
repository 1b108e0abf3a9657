---------------------------- MODULE MCOpcUaClient ----------------------------
(* Instances of OpcUaClient for TLC. *)
EXTENDS OpcUaClient

CONSTANTS n1, n2, stranger

\* The second node has a number for its identifier.
TwoNodes == <<n1, n2>>
MCEntries ==
  [id : {n1}, way : {"own", "other", "faulty"}] \cup [id : {n2}, way : {"own", "named"}]
    \cup [id : {stranger}, way : {"named"}]
MCUnread == [id : {n1, stranger}, way : {"own"}]
=============================================================================
