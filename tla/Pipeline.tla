------------------------------ MODULE Pipeline -------------------------------
(***************************************************************************)
(* The pipeline of a device (simulator/device.go): setting its             *)
(* configuration, batches of updates, reads, and the rules that punt       *)
(* packets to the controller, which are derived from the table entries.    *)
(*                                                                         *)
(* A batch holds ds.lock from beginning to end, reads share it.  The       *)
(* snapshots taken for GetDevice hold nothing, so that they meet a batch   *)
(* between any two of its steps.                                           *)
(***************************************************************************)
EXTENDS Entries

CONSTANTS
    Configs,        \* pipeline configurations
    Batches,        \* sequences of updates
    Readers,        \* concurrent reads
    ReadRequests,   \* sets of sources that are read together
    Walkers,        \* concurrent snapshots
    BufferSize      \* capacity of the buffer of a read

Updates == UNION {Range(us) : us \in Batches}

ASSUME PipelineAssumption ==
    /\ BufferSize \in Nat \ {0}
    /\ Nil \notin Configs
    /\ \A c \in Configs : \A p \in DOMAIN c.profiles : c.profiles[p] \in Nat
    /\ \A us \in Batches : us \in Seq(Updates)
    /\ \A u \in Updates :
          /\ u.type \in {"insert", "modify", "delete"}
          /\ u.kind \in {"entry", "counter", "meter", "cell", "record", "ignored"}

VARIABLES
    stores,     \* tables, counters, meters, profiles and pre; see Entries
    puntToCPU,  \* ether type -> role agent ID
    batch,      \* the batch being written and how it is answered, Nil if there is none
    reads,      \* progress of each read, Nil if idle
    walks,      \* the collection that each snapshot is iterating over, Nil if idle
    panicked

vars == <<stores, puntToCPU, batch, reads, walks, panicked>>

\* Mutant: reads take no lock.
NoLock == TRUE

\* Before the first configuration: nothing, where the code has nil pointers.
NoStores ==
    [config |-> Nil, rows |-> EmptyMap, defaults |-> EmptyMap, records |-> EmptyMap, cells |-> EmptyMap]
Configured == stores.config # Nil

MayLock == batch = Nil /\ \A r \in Readers : reads[r] = Nil
MayRLock == batch = Nil

------------------------------------------------------------------------------
\* Punt rules.

\* The tables that can send packets to the CPU: those with such an action and
\* a field for the ether type.
CPUTables(c) ==
    {t \in DOMAIN c.tables : c.actionRefs[t] \cap c.cpuActions # {} /\ c.ethType[t] # Nil}

\* The rules in row r: its entry has a CPU action and matches the ether type.
RulesOf(st, r) ==
    LET e == r.entry
        f == st.config.ethType[e.table]
    IN  IF /\ e.table \in CPUTables(st.config)
           /\ e.action # Nil
           /\ e.action.id \in st.config.cpuActions
           /\ f \in DOMAIN e.match
           /\ e.match[f].kind = Ternary
        THEN {[ethType |-> e.match[f].value, agent |-> e.action.agent]}
        ELSE {}

Rows(st) == {st.rows[k] : k \in DOMAIN st.rows} \cup {st.defaults[t] : t \in DOMAIN st.defaults}
PuntRules(st) == UNION {RulesOf(st, r) : r \in Rows(st)}

\* Rows are visited in any order, and the last rule of an ether type stays.
PuntMaps(st) ==
    LET rules == PuntRules(st)
    IN  {m \in [{r.ethType : r \in rules} -> {r.agent : r \in rules}] :
            \A t \in DOMAIN m : [ethType |-> t, agent |-> m[t]] \in rules}

\* Mutant: rules of entries that are gone stay.
OnlyAddsRules(st) ==
    \E m \in PuntMaps(st) :
        puntToCPU' = [t \in DOMAIN m \cup DOMAIN puntToCPU |-> IF t \in DOMAIN m THEN m[t] ELSE puntToCPU[t]]

CheckPuntToCPU(st) == puntToCPU' \in PuntMaps(st)

------------------------------------------------------------------------------
\* Configuration and updates.

\* Mutant: the tables are those of the last configuration.
KeepsTables(c) ==
    /\ MayLock
    /\ stores' = [NewStores(c) EXCEPT !.rows = stores.rows]
    /\ UNCHANGED <<puntToCPU, batch, reads, walks, panicked>>

\* All stores are new; a snapshot that is under way goes on over the old ones.
\* The punt rules are not touched.
SetPipelineConfig(c) ==
    /\ MayLock
    /\ stores' = NewStores(c)
    /\ walks' = [w \in Walkers |-> Nil]
    /\ UNCHANGED <<puntToCPU, batch, reads, panicked>>

\* Write takes the lock.
BeginBatch(us) ==
    /\ MayLock
    /\ batch' = [todo |-> us, answer |-> "ok"]
    /\ UNCHANGED <<stores, puntToCPU, reads, walks, panicked>>

Writing == batch # Nil /\ batch.todo # <<>> /\ batch.answer = "ok"
Update == Head(batch.todo)

\* Whether an update is refused before any store is looked at.
RefusedAtOnce(u) ==
    \/ u.kind = "ignored"
    \/ u.kind \in {"counter", "meter", "cell"} /\ u.type # "modify"

ApplyUpdate ==
    /\ Writing
    /\ Configured
    /\ Refusal(stores, Update) = "ok"
    /\ stores' = Applied(stores, Update)
    /\ IF Update.kind = "entry" THEN CheckPuntToCPU(stores') ELSE UNCHANGED puntToCPU
    /\ batch' = [batch EXCEPT !.todo = Tail(@)]
    /\ UNCHANGED <<reads, walks, panicked>>

\* The first update that is refused ends the batch.
RefuseUpdate ==
    /\ Writing
    /\ Configured
    /\ Refusal(stores, Update) # "ok"
    /\ batch' = [batch EXCEPT !.answer = Refusal(stores, Update)]
    /\ UNCHANGED <<stores, puntToCPU, reads, walks, panicked>>

\* Before the first configuration an update that is not refused or ignored at
\* once dereferences nil: the check for a configuration never fails.
UpdateBeforeConfig ==
    /\ Writing
    /\ ~ Configured
    /\ IF RefusedAtOnce(Update)
       THEN /\ batch' = IF Update.kind = "ignored" THEN [batch EXCEPT !.todo = Tail(@)]
                                                   ELSE [batch EXCEPT !.answer = "invalid"]
            /\ UNCHANGED panicked
       ELSE panicked' = TRUE /\ UNCHANGED batch
    /\ UNCHANGED <<stores, puntToCPU, reads, walks>>

EndBatch ==
    /\ batch # Nil
    /\ batch.todo = <<>> \/ batch.answer # "ok"
    /\ batch' = Nil
    /\ UNCHANGED <<stores, puntToCPU, reads, walks, panicked>>

------------------------------------------------------------------------------
\* Reads.  A source is a table or a slot; what is asked of it is ignored, and
\* all its rows or records are sent.

SlotsOf(st) == ({"member", "group"} \X DOMAIN st.config.profiles) \cup {<<"multicast", Nil>>, <<"clone", Nil>>}
Sources(st) == ({"table"} \X DOMAIN st.config.tables) \cup SlotsOf(st)

\* What a source has to send: keys of rows, the default row, or records.
Items(st, s) ==
    IF s[1] = "table"
    THEN ({"row"} \X {k \in DOMAIN st.rows : k[1] = s[2]}) \cup ({"default"} \X (DOMAIN st.defaults \cap {s[2]}))
    ELSE {"record"} \X InSlot(st, s)
AllItems(st, sources) == UNION {Items(st, s) : s \in sources}

IdleRead == [asked |-> {}, todo |-> {}, left |-> {}, scanning |-> FALSE, buffer |-> <<>>, sent |-> <<>>, broken |-> FALSE]

BeginRead(r, sources) ==
    /\ reads[r] = Nil
    /\ MayRLock
    /\ Configured
    /\ sources \subseteq Sources(stores)
    /\ reads' = [reads EXCEPT ![r] = [IdleRead EXCEPT !.asked = sources, !.todo = sources]]
    /\ UNCHANGED <<stores, puntToCPU, batch, walks, panicked>>

\* Reading a table before the first configuration dereferences nil, and so does
\* reading direct counters or meters at any time.
ReadPanics(r) ==
    /\ reads[r] = Nil
    /\ MayRLock
    /\ panicked' = TRUE
    /\ UNCHANGED <<stores, puntToCPU, batch, reads, walks>>

Scan(r, s) ==
    /\ reads[r] # Nil /\ ~ reads[r].scanning
    /\ s \in reads[r].todo
    /\ reads' = [reads EXCEPT ![r].todo = @ \ {s}, ![r].left = Items(stores, s), ![r].scanning = TRUE]
    /\ UNCHANGED <<stores, puntToCPU, batch, walks, panicked>>

Flushed(read) == [read EXCEPT !.sent = Append(@, read.buffer), !.buffer = <<>>]

\* One more item goes to the buffer, which is sent when it is full.
SendEntity(r, i) ==
    /\ reads[r] # Nil /\ i \in reads[r].left
    /\ LET read == [reads[r] EXCEPT !.left = @ \ {i}, !.buffer = Append(@, i)]
       IN  reads' = [reads EXCEPT ![r] = IF Len(read.buffer) = BufferSize THEN Flushed(read) ELSE read]
    /\ UNCHANGED <<stores, puntToCPU, batch, walks, panicked>>

\* The last flush of a source may send an empty batch.
EndScan(r) ==
    /\ reads[r] # Nil /\ reads[r].scanning /\ reads[r].left = {}
    /\ reads' = [reads EXCEPT ![r] = [Flushed(reads[r]) EXCEPT !.scanning = FALSE]]
    /\ UNCHANGED <<stores, puntToCPU, batch, walks, panicked>>

\* The client is gone: every further attempt to send fails.
BreakRead(r) ==
    /\ reads[r] # Nil /\ reads[r].scanning
    /\ reads' = [reads EXCEPT ![r].todo = {}, ![r].left = {}, ![r].scanning = FALSE, ![r].broken = TRUE]
    /\ UNCHANGED <<stores, puntToCPU, batch, walks, panicked>>

Finished(r) == reads[r] # Nil /\ reads[r].todo = {} /\ ~ reads[r].scanning

EndRead(r) ==
    /\ Finished(r)
    /\ reads' = [reads EXCEPT ![r] = Nil]
    /\ UNCHANGED <<stores, puntToCPU, batch, walks, panicked>>

------------------------------------------------------------------------------
\* Snapshots iterate over groups, multicast groups and clone sessions; where
\* there are none the iteration is over at once.

BeginWalk(w, kind) ==
    /\ Configured
    /\ walks[w] = Nil
    /\ \E x \in DOMAIN stores.records : x[1][1] = kind
    /\ walks' = [walks EXCEPT ![w] = kind]
    /\ UNCHANGED <<stores, puntToCPU, batch, reads, panicked>>

EndWalk(w) ==
    /\ walks[w] # Nil
    /\ walks' = [walks EXCEPT ![w] = Nil]
    /\ UNCHANGED <<stores, puntToCPU, batch, reads, panicked>>

\* An update that writes to the map: changing a group does not, its record is
\* a structure of its own.
WritesMap(u, kind) ==
    /\ u.kind = "record" /\ u.slot[1] = kind
    /\ Refusal(stores, u) = "ok"
    /\ kind = "group" => u.type # "modify"

\* Go's runtime may notice that a map changes during an iteration, and ends the process.
MapFault(w) ==
    /\ walks[w] # Nil
    /\ Writing
    /\ WritesMap(Update, walks[w])
    /\ panicked' = TRUE
    /\ UNCHANGED <<stores, puntToCPU, batch, reads, walks>>

------------------------------------------------------------------------------

Init ==
    /\ stores = NoStores
    /\ puntToCPU = EmptyMap
    /\ batch = Nil
    /\ reads = [r \in Readers |-> Nil]
    /\ walks = [w \in Walkers |-> Nil]
    /\ panicked = FALSE

Write ==
    \/ \E us \in Batches : BeginBatch(us)
    \/ ApplyUpdate
    \/ RefuseUpdate
    \/ UpdateBeforeConfig
    \/ EndBatch

Read(r) ==
    \/ \E sources \in ReadRequests : BeginRead(r, sources)
    \/ ReadPanics(r)
    \/ reads[r] # Nil /\ \E s \in reads[r].todo : Scan(r, s)
    \/ reads[r] # Nil /\ \E i \in reads[r].left : SendEntity(r, i)
    \/ EndScan(r)
    \/ BreakRead(r)
    \/ EndRead(r)

Snapshot(w) ==
    \/ \E kind \in {"group", "multicast", "clone"} : BeginWalk(w, kind)
    \/ EndWalk(w)
    \/ MapFault(w)

Next ==
    /\ ~ panicked
    /\ \/ \E c \in Configs : SetPipelineConfig(c)
       \/ Write
       \/ \E r \in Readers : Read(r)
       \/ \E w \in Walkers : Snapshot(w)

Spec == Init /\ [][Next]_vars

------------------------------------------------------------------------------
\* Properties.

Entities(kinds) == {u.entry : u \in {x \in Updates : x.kind \in kinds}}
TableEntries == Entities({"entry"})

\* Stores have a configuration that was set, rows of entries that were written
\* to tables of it, and one cell for each index; Go's types promise the rest.
IsStores(st) ==
    /\ st = [config |-> st.config, rows |-> st.rows, defaults |-> st.defaults,
              records |-> st.records, cells |-> st.cells]
    /\ st.config \in Configs
    /\ \A k \in DOMAIN st.rows : st.rows[k].entry \in TableEntries
    /\ \A t \in DOMAIN st.defaults : st.defaults[t].entry \in TableEntries
    /\ DOMAIN st.cells = DOMAIN NewStores(st.config).cells
TypeOK ==
    /\ Configured => IsStores(stores)
    /\ batch # Nil => \A i \in DOMAIN batch.todo : batch.todo[i] \in Updates
    /\ panicked \in BOOLEAN

\* A row is found under the key of the entry it holds, whatever has modified
\* it since, and belongs to a table of the configuration (Table.rows).
RowsAreUnderTheirKeys ==
    Configured =>
        /\ \A k \in DOMAIN stores.rows :
            /\ EntryKey(stores.rows[k].entry) = k
            /\ Known(stores, stores.rows[k].entry)
        /\ \A t \in DOMAIN stores.defaults : t \in DOMAIN stores.config.tables

\* A device with any table entry punts exactly the ether types that its entries
\* punt, each to the role agent of one of them, in the middle of batches and
\* after batches that failed half way too.  With empty tables the rules may be
\* those of the last configuration (checkPuntToCPU).
PuntRulesMatchEntries ==
    Rows(stores) # {} => puntToCPU \in PuntMaps(stores)

\* An action profile never holds more than one member, and one group, beyond
\* its size (ModifyActionProfileMember, ModifyActionProfileGroup).
ProfilesHold ==
    Configured =>
        \A slot \in {"member", "group"} \X DOMAIN stores.config.profiles :
            Cardinality(InSlot(stores, slot)) <= stores.config.profiles[slot[2]] + 1

\* What a sequence of batches sends, and that it sends nothing twice.
Contents(batches) == UNION {Range(batches[i]) : i \in DOMAIN batches}
SendsOnce(batches) ==
    \A i, k \in DOMAIN batches : \A m \in DOMAIN batches[i] : \A n \in DOMAIN batches[k] :
        batches[i][m] = batches[k][n] => i = k /\ m = n

\* A read that has come to its end without losing its client has sent every
\* row and record it was asked for once, as they are at that moment, in batches
\* that fit the buffer (ProcessRead, entityBuffer).
ReadsAreComplete ==
    \A r \in Readers : Finished(r) /\ ~ reads[r].broken =>
        /\ Contents(reads[r].sent) = AllItems(stores, reads[r].asked)
        /\ SendsOnce(reads[r].sent)
        /\ \A i \in DOMAIN reads[r].sent : Len(reads[r].sent[i]) <= BufferSize

\* What the client can name, and its values.
Names ==
    {EntryName(e) : e \in {x \in TableEntries : ~ x.default}}
    \cup {<<"record", u.slot, u.id>> : u \in {x \in Updates : x.kind = "record"}}
Values ==
    {<<"action", e.action>> : e \in TableEntries} \cup {<<"data", u.data>> : u \in {x \in Updates : x.kind = "record"}}

ASSUME NilIsNoValue == Nil \notin Values

\* The rows that hold the entry of name n: at most one, if keys tell entries apart.
Holding(st, n) == {k \in DOMAIN st.rows : EntryName(st.rows[k].entry) = n}
ValueOf(st, n) ==
    IF n[1] = "entry"
    THEN IF Holding(st, n) = {} THEN Nil
         ELSE <<"action", st.rows[CHOOSE k \in Holding(st, n) : TRUE].entry.action>>
    ELSE IF <<n[2], n[3]>> \in DOMAIN st.records THEN <<"data", st.records[<<n[2], n[3]>>]>> ELSE Nil
Store == [n \in Names |-> ValueOf(stores, n)]

\* The update that comes next, if it is of something with a name.
Named(u) == u.kind = "record" \/ (u.kind = "entry" /\ ~ u.entry.default)
NameOf(u) == IF u.kind = "entry" THEN EntryName(u.entry) ELSE <<"record", u.slot, u.id>>
Request ==
    IF Writing /\ Named(Update) THEN [type |-> Update.type, name |-> NameOf(Update)] ELSE Nil

\* Table entries, members, groups, multicast groups and clone sessions are the
\* map that a client may expect: an update changes the entry it names and no
\* other (ProcessWrite).
ES == INSTANCE EntryStore WITH store <- Store, request <- Request, Absent <- Nil
ImplementsEntryStore == ES!Spec

\* An insertion is refused because the entry exists only if it does
\* (ModifyTableEntry: "If the entry exists, and we're supposed to do a new
\* insert, raise error").
RefusedBecauseStored ==
    batch # Nil /\ batch.answer = "already exists" /\ Update.kind = "entry" =>
        Store[EntryName(Update.entry)] # Nil

\* No two entries that are written have the same key.
KeysTellApart ==
    \A e, f \in Entities({"entry", "counter", "meter"}) :
        EntryKey(e) = EntryKey(f) => EntryName(e) = EntryName(f)
==============================================================================
