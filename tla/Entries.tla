------------------------------- MODULE Entries -------------------------------
(***************************************************************************)
(* The stores of a pipeline (simulator/entries): table rows with their     *)
(* direct resources, default rows, the cells of counters and meters, and   *)
(* the records of action profiles and of packet replication.  A store is a *)
(* value; the operators say which updates it refuses and what an update    *)
(* makes of it.                                                            *)
(*                                                                         *)
(* Members, groups, multicast groups and clone sessions are maps by ID     *)
(* with the same operations, and are one map here, from <<slot, ID>>, a    *)
(* slot being one of these collections.  Counters and meters are both      *)
(* arrays of cells.  What actions, meters and replicas contain is left     *)
(* out, except for what decides where packets go to.                       *)
(***************************************************************************)
EXTENDS Integers, FiniteSets, Functions, SequencesExt

CONSTANTS Nil

\* Go maps: m[k] = v, and delete(m, k).
EmptyMap == [k \in {} |-> Nil]
Put(m, k, v) == [x \in DOMAIN m \cup {k} |-> IF x = k THEN v ELSE m[x]]
Drop(m, k) == Restrict(m, DOMAIN m \ {k})

------------------------------------------------------------------------------
\* Table entries.  A match is a map from field IDs to [kind, extra, value],
\* the kind being the tag byte that is hashed, and extra the bytes of the
\* prefix length, lower bound or mask.

Ternary == 4

Written(field) == <<field.kind>> \o field.extra \o field.value

\* What is hashed of an entry: its fields one after the other by their IDs,
\* but not the IDs; then the priority.  Hashes are taken to be as different
\* as what is hashed.
HashedKey(table, match, priority) ==
    LET ids == SetToSortSeq(DOMAIN match, LAMBDA i, j : i < j)
    IN  <<table, FlattenSeq([i \in DOMAIN ids |-> Written(match[ids[i]])]), priority>>

\* Mutant: entries that differ in their priority have one key.
KeyWithoutPriority(e) == <<e.table, e.match>>

EntryKey(e) == HashedKey(e.table, e.match, e.priority)

\* What tells one entry from another for the client.
EntryName(e) == <<"entry", e.table, e.match, e.priority>>

\* A fresh row, with empty counter data unless some are given.
NewRow(e) ==
    [entry |-> e, counter |-> IF e.counter = Nil THEN 0 ELSE e.counter, meter |-> e.meter]

\* Row r after its entry is modified: the meter is always replaced, the
\* counter only if the request has one.
Updated(r, e) ==
    [entry |-> e, counter |-> IF e.counter = Nil THEN r.counter ELSE e.counter, meter |-> e.meter]

\* The stores of configuration c, which names its tables with their numbers
\* of fields, its profiles and arrays with their sizes, its CPU actions, and
\* for each table the actions it refers to and the field for the ether type.
NewStores(c) ==
    [config   |-> c,
     rows     |-> EmptyMap,     \* key -> row
     defaults |-> EmptyMap,     \* table -> row of its default action
     records  |-> EmptyMap,     \* <<slot, ID>> -> value
     cells    |-> [x \in UNION {{a} \X (0..c.arrays[a] - 1) : a \in DOMAIN c.arrays} |-> 0]]

------------------------------------------------------------------------------
\* Updates are records with a type (insert, modify or delete), a kind of
\* entity, and the entity.

Known(st, e) == e.table \in DOMAIN st.config.tables
Complies(st, e) == Cardinality(DOMAIN e.match) <= st.config.tables[e.table]
Present(st, e) == EntryKey(e) \in DOMAIN st.rows

\* Why an update of a table entry is refused, "ok" if it is not.
EntryRefusal(st, u) ==
    LET e == u.entry
    IN  IF ~ Known(st, e) THEN "not found"
        ELSE IF e.default
             THEN IF u.type = "modify" /\ DOMAIN e.match = {} THEN "ok" ELSE "invalid"
        ELSE IF ~ Complies(st, e) THEN "invalid"
        ELSE IF u.type = "insert" /\ Present(st, e) THEN "already exists"
        ELSE IF u.type = "modify" /\ ~ Present(st, e) THEN "not found"
        ELSE "ok"

\* Direct counters and meters exist with the row, and only change.
DirectRefusal(st, u) ==
    IF u.type # "modify" THEN "invalid"
    ELSE IF ~ Known(st, u.entry) THEN "not found"
    ELSE IF ~ Complies(st, u.entry) THEN "invalid"
    ELSE IF ~ Present(st, u.entry) THEN "not found"
    ELSE "ok"

\* Mutant: the index is not compared with the size.
AnyIndex(st, u) ==
    IF u.type # "modify" THEN "invalid"
    ELSE IF u.array \notin DOMAIN st.config.arrays THEN "not found"
    ELSE "ok"

CellRefusal(st, u) ==
    IF u.type # "modify" THEN "invalid"
    ELSE IF <<u.array, u.index>> \notin DOMAIN st.cells THEN "not found"
    ELSE "ok"

\* Action profiles have a size; packet replication has none.
HasProfile(slot) == slot[1] \in {"member", "group"}
InSlot(st, slot) == {x \in DOMAIN st.records : x[1] = slot}
\* Mutant: the groups are counted, for members too.
CountsGroups(st, slot) ==
    HasProfile(slot) /\ Cardinality(InSlot(st, <<"group", slot[2]>>)) > st.config.profiles[slot[2]]

Exhausted(st, slot) ==
    HasProfile(slot) /\ Cardinality(InSlot(st, slot)) > st.config.profiles[slot[2]]

RecordRefusal(st, u) ==
    LET present == <<u.slot, u.id>> \in DOMAIN st.records
    IN  IF HasProfile(u.slot) /\ u.slot[2] \notin DOMAIN st.config.profiles THEN "not found"
        ELSE IF u.type = "insert" /\ present THEN "already exists"
        ELSE IF u.type = "modify" /\ ~ present THEN "not found"
        ELSE IF u.type = "insert" /\ Exhausted(st, u.slot) THEN "exhausted"
        ELSE "ok"

\* Register, value set, digest and extern entries are accepted and ignored.
Refusal(st, u) ==
    CASE u.kind = "entry" -> EntryRefusal(st, u)
      [] u.kind \in {"counter", "meter"} -> DirectRefusal(st, u)
      [] u.kind = "cell" -> CellRefusal(st, u)
      [] u.kind = "record" -> RecordRefusal(st, u)
      [] u.kind = "ignored" -> "ok"

------------------------------------------------------------------------------
\* What an update that is not refused makes of the stores.

EntryApplied(st, u) ==
    LET e == u.entry
        k == EntryKey(e)
    IN  IF e.default THEN [st EXCEPT !.defaults = Put(@, e.table, NewRow(e))]
        ELSE [st EXCEPT !.rows = CASE u.type = "insert" -> Put(@, k, NewRow(e))
                                   [] u.type = "modify" -> Put(@, k, Updated(st.rows[k], e))
                                   [] u.type = "delete" -> Drop(@, k)]

DirectApplied(st, u) ==
    LET k == EntryKey(u.entry)
        r == st.rows[k]
    IN  [st EXCEPT !.rows = Put(@, k, IF u.kind = "counter" THEN [r EXCEPT !.counter = u.data]
                                                            ELSE [r EXCEPT !.meter = u.data])]

CellApplied(st, u) == [st EXCEPT !.cells = Put(@, <<u.array, u.index>>, u.data)]

RecordApplied(st, u) ==
    LET x == <<u.slot, u.id>>
    IN  [st EXCEPT !.records = IF u.type = "delete" THEN Drop(@, x) ELSE Put(@, x, u.data)]

Applied(st, u) ==
    CASE u.kind = "entry" -> EntryApplied(st, u)
      [] u.kind \in {"counter", "meter"} -> DirectApplied(st, u)
      [] u.kind = "cell" -> CellApplied(st, u)
      [] u.kind = "record" -> RecordApplied(st, u)
      [] u.kind = "ignored" -> st
==============================================================================
