----------------------------- MODULE MCPipeline ------------------------------
(***************************************************************************)
(* Instances of Pipeline for TLC: configurations, entries and updates.     *)
(***************************************************************************)
EXTENDS Pipeline, TLC

CONSTANTS acl, fwd, prof, ctr, toCpu, drop, ip, arp

NoMatch == EmptyMap
On(i, v) == i :> [kind |-> Ternary, extra |-> <<"ff">>, value |-> <<v>>]

Entry(t, match, priority, id, agent) ==
    [table |-> t, match |-> match, priority |-> priority, default |-> FALSE,
     action |-> [id |-> id, agent |-> agent], counter |-> Nil, meter |-> Nil]

\* Two rules for one ether type, with another role agent each, the first one
\* again as a rule that drops, and a rule for another field of the same width.
Ip1 == Entry(acl, On(1, ip), 1, toCpu, 1)
Ip2 == Entry(acl, On(1, ip), 2, toCpu, 2)
IpDropped == Entry(acl, On(1, ip), 1, drop, 0)
Other == Entry(acl, On(2, ip), 1, drop, 0)
Both == Entry(acl, On(1, arp) @@ On(2, ip), 1, toCpu, 1)
Route == [Entry(fwd, On(1, ip), 0, drop, 0) EXCEPT !.counter = 7]
TooLong == Entry(fwd, On(1, arp) @@ On(2, ip), 0, drop, 0)
Default == [Entry(fwd, NoMatch, 0, drop, 0) EXCEPT !.default = TRUE]

\* A configuration whose access list sends packets to the CPU, and one that has
\* an action profile and a counter instead.
Punting == [tables |-> (acl :> 2) @@ (fwd :> 1), actionRefs |-> (acl :> {toCpu, drop}) @@ (fwd :> {drop}),
            ethType |-> (acl :> 1) @@ (fwd :> Nil), cpuActions |-> {toCpu},
            profiles |-> EmptyMap, arrays |-> EmptyMap]
Plain == [tables |-> fwd :> 1, actionRefs |-> fwd :> {drop}, ethType |-> fwd :> Nil, cpuActions |-> {toCpu},
          profiles |-> prof :> 1, arrays |-> ctr :> 1]
MCConfigs == {Punting, Plain}

On1(type, e) == [type |-> type, kind |-> "entry", entry |-> e]
Direct(kind, type, e) == [type |-> type, kind |-> kind, entry |-> e, data |-> 9]
Cell(type, i) == [type |-> type, kind |-> "cell", array |-> ctr, index |-> i, data |-> 9]
Record(type, slot, id, data) == [type |-> type, kind |-> "record", slot |-> slot, id |-> id, data |-> data]
Ignored == [type |-> "insert", kind |-> "ignored"]

Members == <<"member", prof>>
Groups == <<"group", prof>>
Multicasts == <<"multicast", Nil>>

\* Batches of one and of two updates; some fail in the first, some in the second.
TableBatches ==
    {<<On1("insert", Ip1), On1("insert", Ip2)>>, <<On1("insert", Ip2), On1("modify", IpDropped)>>,
     <<On1("delete", Ip1)>>, <<On1("delete", Ip2), On1("insert", Route)>>, <<On1("insert", Both)>>,
     <<On1("modify", Default), On1("insert", Default)>>, <<On1("insert", TooLong)>>,
     <<Ignored, Direct("counter", "modify", Ip1)>>, <<Direct("meter", "modify", Route)>>,
     <<Direct("counter", "insert", Ip1)>>}
RecordBatches ==
    {<<Record("insert", Members, i, 1)>> : i \in 1..3}
    \cup {<<Record("delete", Members, 1, 1)>>, <<Record("modify", Members, 2, 2)>>,
          <<Record("insert", Groups, 1, 1), Record("modify", Groups, 1, 2)>>,
          <<Record("insert", Multicasts, 1, 1)>>, <<Record("delete", Multicasts, 1, 1)>>,
          <<Cell("modify", 0), Cell("modify", 1)>>, <<Cell("insert", 0)>>}
MCBatches == TableBatches \cup RecordBatches
CollidingBatches == {<<On1("insert", Ip1)>>, <<On1("insert", Other)>>, <<On1("delete", Other)>>}

MCReadRequests ==
    {{<<"table", acl>>, <<"table", fwd>>}, {Members, Multicasts}}
==============================================================================
