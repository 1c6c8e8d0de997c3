--------------------------- MODULE PipelineProofs ----------------------------
(***************************************************************************)
(* Theorems about Pipeline, for every set of configurations, batches,      *)
(* reads and snapshots.  IInv says what the stores are made of and that    *)
(* each row lies under its key; what is left of a batch consists of        *)
(* updates of Batches.  The only step that changes stores in place is      *)
(* ApplyUpdate, and the lemmas follow its kinds of update.                 *)
(***************************************************************************)
EXTENDS Pipeline, FiniteSetTheorems, TLAPS

IsMade(st) ==
    /\ st = [config |-> st.config, rows |-> st.rows, defaults |-> st.defaults,
             records |-> st.records, cells |-> st.cells]
    /\ st.config \in Configs

IsRow(r) == r = [entry |-> r.entry, counter |-> r.counter, meter |-> r.meter]

RowInv(st) ==
    \A k \in DOMAIN st.rows :
        /\ IsRow(st.rows[k])
        /\ EntryKey(st.rows[k].entry) = k
        /\ Known(st, st.rows[k].entry)
        /\ st.rows[k].entry \in TableEntries

DefaultInv(st) ==
    \A t \in DOMAIN st.defaults :
        t \in DOMAIN st.config.tables /\ st.defaults[t].entry \in TableEntries

CellInv(st) == DOMAIN st.cells = DOMAIN NewStores(st.config).cells

RecordInv(st) == \A x \in DOMAIN st.records : <<"data", st.records[x]>> \in Values

ProfileInv(st) ==
    /\ IsFiniteSet(DOMAIN st.records)
    /\ \A slot \in {"member", "group"} \X DOMAIN st.config.profiles :
           Cardinality(InSlot(st, slot)) <= st.config.profiles[slot[2]] + 1

BatchInv == batch # Nil => /\ batch = [todo |-> batch.todo, answer |-> batch.answer]
                           /\ batch.todo \in Seq(Updates)

StoresInv(st) ==
    IsMade(st) /\ RowInv(st) /\ DefaultInv(st) /\ CellInv(st) /\ RecordInv(st) /\ ProfileInv(st)

IInv ==
    /\ Configured => StoresInv(stores)
    /\ ~ Configured => stores = NoStores
    /\ BatchInv
    /\ PuntRulesMatchEntries
    /\ panicked \in BOOLEAN

IsUpdate(u) ==
    /\ u.type \in {"insert", "modify", "delete"}
    /\ u.kind \in {"entry", "counter", "meter", "cell", "record", "ignored"}

----------------------------------------------------------------------------
(* New stores, and an update that is not refused, kind by kind.            *)

\* What is assumed of every update.
LEMMA UpdateShape == \A u \in Updates : IsUpdate(u)
BY PipelineAssumption DEF IsUpdate

\* The stores of a new configuration are empty.
LEMMA NewStoresInv ==
    ASSUME NEW c \in Configs
    PROVE  StoresInv(NewStores(c)) /\ Rows(NewStores(c)) = {}
<1> DEFINE st == NewStores(c)
<1>1. /\ st.config = c /\ DOMAIN st.rows = {} /\ DOMAIN st.defaults = {} /\ DOMAIN st.records = {}
      /\ IsMade(st)
  BY DEF NewStores, EmptyMap, IsMade
<1>2. RowInv(st) /\ DefaultInv(st) /\ CellInv(st) /\ RecordInv(st) /\ Rows(st) = {}
  BY <1>1 DEF RowInv, DefaultInv, CellInv, RecordInv, Rows
<1>3. IsFiniteSet(DOMAIN st.records)
  BY <1>1, FS_EmptySet
<1>4. ASSUME NEW slot \in {"member", "group"} \X DOMAIN st.config.profiles
      PROVE  Cardinality(InSlot(st, slot)) <= st.config.profiles[slot[2]] + 1
  <2>1. InSlot(st, slot) = {}
    BY <1>1 DEF InSlot
  <2>2. st.config.profiles[slot[2]] \in Nat
    BY <1>1, PipelineAssumption
  <2> QED
    BY <2>1, <2>2, FS_EmptySet
<1> HIDE DEF st
<1>5. StoresInv(st)
  BY <1>1, <1>2, <1>3, <1>4 DEF StoresInv, ProfileInv
<1> QED
  BY <1>5, <1>2 DEF st

\* A table entry: the row or the default row it makes is its own.
LEMMA EntryKeepsInv ==
    ASSUME NEW st, StoresInv(st), NEW u \in Updates, u.kind = "entry",
           EntryRefusal(st, u) = "ok"
    PROVE  StoresInv(EntryApplied(st, u))
<1> DEFINE e == u.entry
           k == EntryKey(e)
           new == EntryApplied(st, u)
<1>0. Known(st, e) /\ e \in TableEntries /\ IsUpdate(u)
  BY UpdateShape DEF EntryRefusal, TableEntries, Entities
<1>1. CASE e.default
  <2> DEFINE d == Put(st.defaults, e.table, NewRow(e))
  <2>1. new = [config |-> st.config, rows |-> st.rows, defaults |-> d,
               records |-> st.records, cells |-> st.cells]
    BY <1>1 DEF EntryApplied, StoresInv, IsMade
  <2>2. /\ DOMAIN d = DOMAIN st.defaults \cup {e.table}
        /\ \A t \in DOMAIN d : (t \in DOMAIN st.defaults /\ d[t] = st.defaults[t]) \/ d[t].entry = e
    <3>1. NewRow(e).entry = e
      BY DEF NewRow
    <3>2. DOMAIN d = DOMAIN st.defaults \cup {e.table}
      BY DEF Put
    <3>3. \A t \in DOMAIN st.defaults \cup {e.table} :
              d[t] = IF t = e.table THEN NewRow(e) ELSE st.defaults[t]
      BY DEF Put
    <3> HIDE DEF d
    <3> QED
      BY <3>1, <3>2, <3>3
  <2> HIDE DEF d, new
  <2>3. \A slot : InSlot(new, slot) = InSlot(st, slot)
    BY <2>1 DEF InSlot
  <2> QED
    BY <2>1, <2>2, <2>3, <1>0
       DEF StoresInv, IsMade, RowInv, DefaultInv, CellInv, RecordInv, ProfileInv, Known, new
<1>2. CASE ~ e.default
  <2> DEFINE rows == new.rows
  <2>1. PICK R : new = [config |-> st.config, rows |-> R, defaults |-> st.defaults,
                        records |-> st.records, cells |-> st.cells]
    BY <1>2 DEF EntryApplied, StoresInv, IsMade
  <2>2. rows = (CASE u.type = "insert" -> Put(st.rows, k, NewRow(e))
                  [] u.type = "modify" -> Put(st.rows, k, Updated(st.rows[k], e))
                  [] u.type = "delete" -> Drop(st.rows, k))
    BY <1>2 DEF EntryApplied, StoresInv, IsMade
  <2>3. IsRow(NewRow(e)) /\ NewRow(e).entry = e
    BY DEF IsRow, NewRow
  <2>4. IsRow(Updated(st.rows[k], e)) /\ Updated(st.rows[k], e).entry = e
    BY DEF IsRow, Updated
  <2>5. ASSUME NEW r, IsRow(r), r.entry = e, rows = Put(st.rows, k, r)
        PROVE  \A x \in DOMAIN rows : /\ IsRow(rows[x]) /\ EntryKey(rows[x].entry) = x
                                      /\ Known(st, rows[x].entry)
                                      /\ rows[x].entry \in TableEntries
    BY <2>5, <1>0 DEF Put, StoresInv, RowInv
  <2>6. ASSUME rows = Drop(st.rows, k)
        PROVE  \A x \in DOMAIN rows : /\ IsRow(rows[x]) /\ EntryKey(rows[x].entry) = x
                                      /\ Known(st, rows[x].entry)
                                      /\ rows[x].entry \in TableEntries
    BY <2>6 DEF Drop, Restrict, StoresInv, RowInv
  <2>7. \A x \in DOMAIN rows : /\ IsRow(rows[x]) /\ EntryKey(rows[x].entry) = x
                               /\ Known(st, rows[x].entry)
                               /\ rows[x].entry \in TableEntries
    <3>1. CASE u.type = "insert"
      BY <3>1, <2>2, <2>3, <2>5
    <3>2. CASE u.type = "modify"
      BY <3>2, <2>2, <2>4, <2>5
    <3>3. CASE u.type = "delete"
      BY <3>3, <2>2, <2>6
    <3> QED
      BY <3>1, <3>2, <3>3, <1>0 DEF IsUpdate
  <2> HIDE DEF new
  <2>8. \A slot : InSlot(new, slot) = InSlot(st, slot)
    BY <2>1 DEF InSlot
  <2> QED
    BY <2>1, <2>7, <2>8 DEF StoresInv, IsMade, RowInv, DefaultInv, CellInv, RecordInv, ProfileInv, Known, new
<1> QED
  BY <1>1, <1>2

\* A direct counter or meter: the entry of the row stays.
LEMMA DirectKeepsInv ==
    ASSUME NEW st, StoresInv(st), NEW u \in Updates, u.kind \in {"counter", "meter"},
           DirectRefusal(st, u) = "ok"
    PROVE  /\ StoresInv(DirectApplied(st, u))
           /\ \E k \in DOMAIN st.rows :
                 /\ DOMAIN DirectApplied(st, u).rows = DOMAIN st.rows
                 /\ \A x \in DOMAIN st.rows :
                        DirectApplied(st, u).rows[x].entry = st.rows[x].entry
<1> DEFINE k == EntryKey(u.entry)
           r == st.rows[k]
           q == IF u.kind = "counter" THEN [r EXCEPT !.counter = u.data] ELSE [r EXCEPT !.meter = u.data]
           R == Put(st.rows, k, q)
           new == DirectApplied(st, u)
<1>1. k \in DOMAIN st.rows
  BY DEF DirectRefusal, Present
<1>2. IsRow(q) /\ q.entry = r.entry
  <2>1. r = [entry |-> r.entry, counter |-> r.counter, meter |-> r.meter]
    BY <1>1 DEF StoresInv, RowInv, IsRow
  <2>2. CASE u.kind = "counter"
    <3>1. q = [entry |-> r.entry, counter |-> u.data, meter |-> r.meter]
      BY <2>1, <2>2
    <3> QED
      BY <3>1 DEF IsRow
  <2>3. CASE u.kind # "counter"
    <3>1. q = [entry |-> r.entry, counter |-> r.counter, meter |-> u.data]
      BY <2>1, <2>3
    <3> QED
      BY <3>1 DEF IsRow
  <2> QED
    BY <2>2, <2>3
<1>3. new = [config |-> st.config, rows |-> R, defaults |-> st.defaults,
             records |-> st.records, cells |-> st.cells]
  BY DEF DirectApplied, StoresInv, IsMade
<1> HIDE DEF q
<1>4. DOMAIN R = DOMAIN st.rows /\ \A x \in DOMAIN st.rows : R[x] = IF x = k THEN q ELSE st.rows[x]
  BY <1>1 DEF Put
<1> HIDE DEF R, new
<1>5. \A x \in DOMAIN st.rows : IsRow(R[x]) /\ R[x].entry = st.rows[x].entry
  BY <1>1, <1>2, <1>4 DEF StoresInv, RowInv
<1>6. \A slot : InSlot(new, slot) = InSlot(st, slot)
  BY <1>3 DEF InSlot
<1>7. StoresInv(new)
  BY <1>3, <1>4, <1>5, <1>6 DEF StoresInv, IsMade, RowInv, DefaultInv, CellInv, RecordInv, ProfileInv, Known
<1> QED
  BY <1>1, <1>3, <1>4, <1>5, <1>7 DEF new

\* The records of a slot grow by one at most, and only while there is room.
LEMMA RecordKeepsInv ==
    ASSUME NEW st, StoresInv(st), NEW u \in Updates, u.kind = "record",
           RecordRefusal(st, u) = "ok"
    PROVE  StoresInv(RecordApplied(st, u))
<1> DEFINE x == <<u.slot, u.id>>
           R == IF u.type = "delete" THEN Drop(st.records, x) ELSE Put(st.records, x, u.data)
           new == RecordApplied(st, u)
<1>0. IsUpdate(u)
  BY UpdateShape
<1>1. new = [config |-> st.config, rows |-> st.rows, defaults |-> st.defaults,
             records |-> R, cells |-> st.cells]
  BY DEF RecordApplied, StoresInv, IsMade
<1>2. DOMAIN R = IF u.type = "delete" THEN DOMAIN st.records \ {x} ELSE DOMAIN st.records \cup {x}
  BY DEF Put, Drop, Restrict
<1>6. RecordInv(new)
  <2>1. <<"data", u.data>> \in Values
    BY DEF Values
  <2>2. \A y \in DOMAIN R : R[y] = u.data \/ (y \in DOMAIN st.records /\ R[y] = st.records[y])
    BY DEF Put, Drop, Restrict
  <2> HIDE DEF R
  <2> QED
    BY <1>1, <2>1, <2>2 DEF RecordInv, StoresInv
<1> HIDE DEF R, new
<1>3. IsFiniteSet(DOMAIN st.records)
  BY DEF StoresInv, ProfileInv
<1>4. IsFiniteSet(DOMAIN new.records)
  BY <1>1, <1>2, <1>3, FS_AddElement, FS_RemoveElement
<1>5. ASSUME NEW slot \in {"member", "group"} \X DOMAIN st.config.profiles
      PROVE  Cardinality(InSlot(new, slot)) <= st.config.profiles[slot[2]] + 1
  <2> DEFINE old == InSlot(st, slot)
             size == st.config.profiles[slot[2]]
  <2>1. IsFiniteSet(old) /\ Cardinality(old) \in Nat
    BY <1>3, FS_Subset, FS_CardinalityType DEF InSlot
  <2>2. Cardinality(old) <= size + 1 /\ size \in Nat
    BY PipelineAssumption DEF StoresInv, ProfileInv, IsMade
  <2>3. CASE slot # u.slot \/ u.type # "insert"
    <3>1. InSlot(new, slot) \subseteq old
      BY <2>3, <1>0, <1>1, <1>2 DEF InSlot, RecordRefusal, IsUpdate
    <3>2. Cardinality(InSlot(new, slot)) <= Cardinality(old) /\ Cardinality(InSlot(new, slot)) \in Nat
      BY <3>1, <2>1, FS_Subset, FS_CardinalityType
    <3> QED
      BY <3>2, <2>1, <2>2
  <2>4. CASE slot = u.slot /\ u.type = "insert"
    <3>1. InSlot(new, slot) = old \cup {x} /\ x \notin old
      BY <2>4, <1>1, <1>2 DEF InSlot, RecordRefusal
    <3> HIDE DEF old, x
    <3>2. Cardinality(InSlot(new, slot)) = Cardinality(old) + 1
      BY <3>1, <2>1, FS_AddElement
    <3> USE DEF old
    <3>3. ~ (Cardinality(old) > size)
      BY <2>4 DEF RecordRefusal, Exhausted, HasProfile
    <3> QED
      BY <3>2, <3>3, <2>1, <2>2
  <2> QED
    BY <2>3, <2>4
<1> QED
  BY <1>1, <1>4, <1>5, <1>6 DEF StoresInv, IsMade, RowInv, DefaultInv, CellInv, ProfileInv, Known, new

\* A counter or meter cell: only its value changes.
LEMMA CellKeepsInv ==
    ASSUME NEW st, StoresInv(st), NEW u \in Updates, CellRefusal(st, u) = "ok"
    PROVE  /\ StoresInv(CellApplied(st, u))
           /\ CellApplied(st, u).config = st.config
           /\ CellApplied(st, u).rows = st.rows
           /\ CellApplied(st, u).defaults = st.defaults
           /\ CellApplied(st, u).records = st.records
<1> DEFINE new == CellApplied(st, u)
<1>1. new = [config |-> st.config, rows |-> st.rows, defaults |-> st.defaults,
             records |-> st.records, cells |-> Put(st.cells, <<u.array, u.index>>, u.data)]
  BY DEF CellApplied, StoresInv, IsMade
<1>2. DOMAIN new.cells = DOMAIN st.cells
  BY <1>1, UpdateShape DEF Put, CellRefusal, IsUpdate
<1> HIDE DEF new
<1>3. \A slot : InSlot(new, slot) = InSlot(st, slot)
  BY <1>1 DEF InSlot
<1>4. StoresInv(new)
  BY <1>1, <1>2, <1>3 DEF StoresInv, IsMade, RowInv, DefaultInv, CellInv, RecordInv, ProfileInv, Known
<1> QED
  BY <1>1, <1>4 DEF new

\* Whatever an update is of, stores that satisfy the invariant do so after it.
LEMMA UpdateKeepsInv ==
    ASSUME NEW st, StoresInv(st), NEW u \in Updates, Refusal(st, u) = "ok"
    PROVE  StoresInv(Applied(st, u))
<1>1. CASE u.kind = "entry"
  BY <1>1, EntryKeepsInv DEF Refusal, Applied
<1>2. CASE u.kind \in {"counter", "meter"}
  BY <1>2, DirectKeepsInv DEF Refusal, Applied
<1>3. CASE u.kind = "cell"
  BY <1>3, CellKeepsInv DEF Refusal, Applied
<1>4. CASE u.kind = "record"
  BY <1>4, RecordKeepsInv DEF Refusal, Applied
<1>5. CASE u.kind = "ignored"
  BY <1>5 DEF Applied
<1> QED
  BY <1>1, <1>2, <1>3, <1>4, <1>5, UpdateShape DEF IsUpdate

\* The punt rules depend on the configuration, the entries of the rows and the
\* default rows alone.
LEMMA RulesOfEntries ==
    ASSUME NEW st, NEW new, new.config = st.config, new.defaults = st.defaults,
           DOMAIN new.rows = DOMAIN st.rows,
           \A k \in DOMAIN st.rows : new.rows[k].entry = st.rows[k].entry
    PROVE  /\ PuntMaps(new) = PuntMaps(st)
           /\ Rows(new) # {} => Rows(st) # {}
<1>1. \A k \in DOMAIN st.rows : RulesOf(new, new.rows[k]) = RulesOf(st, st.rows[k])
  BY DEF RulesOf
<1>2. \A t \in DOMAIN st.defaults : RulesOf(new, new.defaults[t]) = RulesOf(st, st.defaults[t])
  BY DEF RulesOf
<1>3. ASSUME NEW rule
      PROVE  rule \in PuntRules(new) <=> rule \in PuntRules(st)
  <2>1. rule \in PuntRules(st) <=> \/ \E k \in DOMAIN st.rows : rule \in RulesOf(st, st.rows[k])
                                   \/ \E t \in DOMAIN st.defaults : rule \in RulesOf(st, st.defaults[t])
    BY Zenon DEF PuntRules, Rows
  <2>2. rule \in PuntRules(new) <=> \/ \E k \in DOMAIN new.rows : rule \in RulesOf(new, new.rows[k])
                                    \/ \E t \in DOMAIN new.defaults : rule \in RulesOf(new, new.defaults[t])
    BY Zenon DEF PuntRules, Rows
  <2> QED
    BY <2>1, <2>2, <1>1, <1>2
<1>4. PuntRules(new) = PuntRules(st)
  BY <1>3, Zenon
<1>5. PuntMaps(new) = PuntMaps(st)
  BY <1>4, Zenon DEF PuntMaps
<1>6. Rows(new) # {} => Rows(st) # {}
  BY DEF Rows
<1> QED
  BY <1>5, <1>6

\* An update of anything but a table entry leaves the punt rules as they are.
LEMMA OthersKeepRules ==
    ASSUME NEW st, StoresInv(st), NEW u \in Updates, Refusal(st, u) = "ok", u.kind # "entry"
    PROVE  /\ PuntMaps(Applied(st, u)) = PuntMaps(st)
           /\ Rows(Applied(st, u)) # {} => Rows(st) # {}
<1> DEFINE new == Applied(st, u)
<1> SUFFICES /\ new.config = st.config /\ new.defaults = st.defaults
             /\ DOMAIN new.rows = DOMAIN st.rows
             /\ \A k \in DOMAIN st.rows : new.rows[k].entry = st.rows[k].entry
  BY RulesOfEntries
<1>1. CASE u.kind \in {"counter", "meter"}
  <2>1. DirectRefusal(st, u) = "ok" /\ new = DirectApplied(st, u)
    BY <1>1 DEF Refusal, Applied
  <2>2. new.config = st.config /\ new.defaults = st.defaults
    BY <2>1 DEF DirectApplied, StoresInv, IsMade
  <2> QED
    BY <1>1, <2>1, <2>2, DirectKeepsInv
<1>2. CASE u.kind = "cell"
  <2>1. new = CellApplied(st, u) /\ CellRefusal(st, u) = "ok"
    BY <1>2 DEF Refusal, Applied
  <2> QED
    BY <2>1, CellKeepsInv
<1>3. CASE u.kind = "record"
  BY <1>3 DEF Applied, RecordApplied, StoresInv, IsMade
<1>4. CASE u.kind = "ignored"
  BY <1>4 DEF Applied
<1> QED
  BY <1>1, <1>2, <1>3, <1>4, UpdateShape DEF IsUpdate

----------------------------------------------------------------------------
\* The first update of a batch is an update, and the rest a batch again.
LEMMA HeadUpdate ==
    ASSUME BatchInv, batch # Nil, batch.todo # <<>>
    PROVE  Update \in Updates /\ Tail(batch.todo) \in Seq(Updates)
BY DEF BatchInv, Update

\* In particular while updates are being done.
LEMMA FirstUpdate ==
    ASSUME BatchInv, Writing
    PROVE  Update \in Updates /\ Tail(batch.todo) \in Seq(Updates)
BY HeadUpdate DEF Writing

\* IInv is inductive.
LEMMA IInvHolds == Spec => []IInv
<1>1. Init => IInv
  <2>1. Init => Rows(stores) = {}
    BY DEF Init, NoStores, EmptyMap, Rows
  <2>2. Init => ~ Configured /\ stores = NoStores
    BY DEF Init, NoStores, Configured
  <2>3. Init => BatchInv /\ panicked \in BOOLEAN
    BY DEF Init, BatchInv
  <2> QED
    BY <2>1, <2>2, <2>3 DEF IInv, PuntRulesMatchEntries
<1>2. ASSUME IInv, [Next]_vars
      PROVE  IInv'
  <2> USE <1>2
  <2>1. CASE \E c \in Configs : SetPipelineConfig(c)
    <3>1. PICK c \in Configs : SetPipelineConfig(c)
      BY <2>1
    <3>2. stores' = NewStores(c) /\ UNCHANGED <<batch, panicked>>
      BY <3>1 DEF SetPipelineConfig
    <3>3. StoresInv(stores') /\ Rows(stores') = {}
      BY <3>2, NewStoresInv
    <3>4. Configured'
      BY <3>3, PipelineAssumption DEF StoresInv, IsMade, Configured
    <3> QED
      BY <3>2, <3>3, <3>4 DEF IInv, BatchInv, PuntRulesMatchEntries
  <2>2. CASE ApplyUpdate
    <3>1. Update \in Updates /\ Tail(batch.todo) \in Seq(Updates)
      BY <2>2, FirstUpdate DEF ApplyUpdate, IInv
    <3>2. StoresInv(stores) /\ Refusal(stores, Update) = "ok" /\ stores' = Applied(stores, Update)
      BY <2>2 DEF ApplyUpdate, IInv
    <3>3. StoresInv(stores')
      BY <3>1, <3>2, UpdateKeepsInv
    <3>4. BatchInv'
      BY <2>2, <3>1 DEF ApplyUpdate, Writing, IInv, BatchInv
    <3>5. PuntRulesMatchEntries'
      <4>1. CASE Update.kind = "entry"
        BY <2>2, <4>1 DEF ApplyUpdate, CheckPuntToCPU, PuntRulesMatchEntries, PuntMaps, PuntRules, Rows, RulesOf, CPUTables
      <4>2. CASE Update.kind # "entry"
        <5>1. /\ PuntMaps(stores') = PuntMaps(stores)
              /\ Rows(stores') # {} => Rows(stores) # {}
          BY <3>1, <3>2, <4>2, OthersKeepRules
        <5>2. UNCHANGED puntToCPU
          BY <2>2, <4>2 DEF ApplyUpdate
        <5> QED
          BY <5>1, <5>2 DEF IInv, PuntRulesMatchEntries
      <4> QED
        BY <4>1, <4>2
    <3>6. Configured'
      BY <3>3, PipelineAssumption DEF StoresInv, IsMade, Configured
    <3> QED
      BY <2>2, <3>3, <3>4, <3>5, <3>6 DEF ApplyUpdate, IInv
  <2>3. CASE UNCHANGED <<stores, puntToCPU>> /\ BatchInv' /\ panicked' \in BOOLEAN
    BY <2>3 DEF IInv, Configured, NoStores, PuntRulesMatchEntries
  <2>4. ASSUME NEW us \in Batches, BeginBatch(us)
        PROVE  UNCHANGED <<stores, puntToCPU, panicked>> /\ BatchInv'
    BY <2>4, PipelineAssumption DEF BeginBatch, BatchInv
  <2>5. CASE RefuseUpdate
    BY <2>5, <2>3 DEF RefuseUpdate, Writing, IInv, BatchInv
  <2>6. CASE UpdateBeforeConfig
    <3>1. Tail(batch.todo) \in Seq(Updates)
      BY <2>6, FirstUpdate DEF UpdateBeforeConfig, IInv
    <3> QED
      BY <2>6, <2>3, <3>1 DEF UpdateBeforeConfig, Writing, IInv, BatchInv
  <2>7. CASE EndBatch
    BY <2>7, <2>3 DEF EndBatch, IInv, BatchInv
  <2>8. ASSUME NEW r \in Readers, Read(r)
        PROVE  UNCHANGED <<stores, puntToCPU, batch>> /\ panicked' \in BOOLEAN
    BY <2>8 DEF IInv, Read, BeginRead, ReadPanics, Scan, SendEntity, EndScan, BreakRead, EndRead
  <2>9. ASSUME NEW w \in Walkers, Snapshot(w)
        PROVE  UNCHANGED <<stores, puntToCPU, batch>> /\ panicked' \in BOOLEAN
    BY <2>9 DEF IInv, Snapshot, BeginWalk, EndWalk, MapFault
  <2>10. CASE UNCHANGED <<stores, puntToCPU, batch>> /\ panicked' \in BOOLEAN
    BY <2>10, <2>3 DEF IInv, BatchInv
  <2>11. CASE UNCHANGED vars
    BY <2>11, <2>10 DEF vars, IInv
  <2> QED
    BY <2>1, <2>2, <2>3, <2>4, <2>5, <2>6, <2>7, <2>8, <2>9, <2>10, <2>11 DEF IInv, Next, Write
<1> QED
  BY <1>1, <1>2, PTL DEF Spec

\* The stores are those of a configuration that was set, and hold entries that
\* were written; every cell of its counters and meters exists.
THEOREM TypeCorrect == Spec => []TypeOK
<1>1. IInv => TypeOK
  BY DEF IInv, StoresInv, IsMade, RowInv, DefaultInv, CellInv, BatchInv, TypeOK, IsStores
<1> QED
  BY <1>1, IInvHolds, PTL

\* Each row lies under the key of its entry and belongs to a table of the
\* configuration, whatever is written.
THEOREM RowsUnderTheirKeys == Spec => []RowsAreUnderTheirKeys
<1>1. IInv => RowsAreUnderTheirKeys
  BY DEF IInv, StoresInv, RowInv, DefaultInv, RowsAreUnderTheirKeys
<1> QED
  BY <1>1, IInvHolds, PTL

\* The ether types punted are those of the entries, in the middle of batches too.
THEOREM PuntRulesMatch == Spec => []PuntRulesMatchEntries
<1>1. IInv => PuntRulesMatchEntries
  BY DEF IInv
<1> QED
  BY <1>1, IInvHolds, PTL

\* No action profile outgrows its size by more than one.
THEOREM ProfilesAreBounded == Spec => []ProfilesHold
<1>1. IInv => ProfilesHold
  BY DEF IInv, StoresInv, ProfileInv, ProfilesHold
<1> QED
  BY <1>1, IInvHolds, PTL

----------------------------------------------------------------------------
(* The entry store.  Where keys tell entries apart the rows that hold a    *)
(* name are the one under its key, so that an update of a row changes the  *)
(* value of its own name only.                                             *)

\* Entries have one name exactly if they have one key.
LEMMA NamesAndKeys ==
    ASSUME KeysTellApart, NEW e \in TableEntries, NEW f \in TableEntries
    PROVE  EntryName(e) = EntryName(f) <=> EntryKey(e) = EntryKey(f)
<1>1. EntryName(e) = EntryName(f) => EntryKey(e) = EntryKey(f)
  BY DEF EntryName, EntryKey
<1>2. TableEntries \subseteq Entities({"entry", "counter", "meter"})
  BY DEF TableEntries, Entities
<1> QED
  BY <1>1, <1>2 DEF KeysTellApart

\* The value of the name of an entry is the action in the row under its key.
LEMMA EntryValue ==
    ASSUME KeysTellApart, NEW st, StoresInv(st), NEW f \in TableEntries
    PROVE  ValueOf(st, EntryName(f)) =
               IF EntryKey(f) \in DOMAIN st.rows
               THEN <<"action", st.rows[EntryKey(f)].entry.action>> ELSE Nil
<1> DEFINE k == EntryKey(f)
           n == EntryName(f)
<1>1. \A x \in DOMAIN st.rows : EntryName(st.rows[x].entry) = n <=> x = k
  <2> TAKE x \in DOMAIN st.rows
  <2>1. st.rows[x].entry \in TableEntries /\ EntryKey(st.rows[x].entry) = x
    BY DEF StoresInv, RowInv
  <2> QED
    BY <2>1, NamesAndKeys
<1>2. n[1] = "entry"
  BY DEF EntryName
<1>3. CASE k \in DOMAIN st.rows
  <2>1. Holding(st, n) = {k}
    BY <1>1, <1>3 DEF Holding
  <2>2. (CHOOSE x \in {k} : TRUE) = k
    OBVIOUS
  <2> QED
    BY <1>2, <1>3, <2>1, <2>2 DEF ValueOf
<1>4. CASE k \notin DOMAIN st.rows
  <2>1. Holding(st, n) = {}
    BY <1>1, <1>4 DEF Holding
  <2> QED
    BY <1>2, <1>4, <2>1 DEF ValueOf
<1> QED
  BY <1>3, <1>4

RecordOf(st, u) ==
    IF <<u.slot, u.id>> \in DOMAIN st.records
    THEN <<"data", st.records[<<u.slot, u.id>>]>> ELSE Nil

\* The name of the record an update is of has what the store has for it.
LEMMA RecordValue ==
    ASSUME NEW st, NEW u
    PROVE  ValueOf(st, <<"record", u.slot, u.id>>) = RecordOf(st, u)
BY DEF ValueOf, RecordOf

\* Stores with the same entries and records have the same values.
LEMMA SameValues ==
    ASSUME KeysTellApart, NEW st, StoresInv(st), NEW new, StoresInv(new),
           new.records = st.records, DOMAIN new.rows = DOMAIN st.rows,
           \A k \in DOMAIN st.rows : new.rows[k].entry = st.rows[k].entry,
           NEW n \in Names
    PROVE  ValueOf(new, n) = ValueOf(st, n)
<1>1. ASSUME NEW f \in TableEntries, n = EntryName(f)
      PROVE  ValueOf(new, n) = ValueOf(st, n)
  BY <1>1, EntryValue
<1>2. ASSUME NEW u \in Updates, n = <<"record", u.slot, u.id>>
      PROVE  ValueOf(new, n) = ValueOf(st, n)
  <2>1. ValueOf(st, n) = RecordOf(st, u) /\ ValueOf(new, n) = RecordOf(new, u)
    BY <1>2, RecordValue
  <2> QED
    BY <2>1 DEF RecordOf
<1> QED
  BY <1>1, <1>2 DEF Names

\* An update of an entry: what becomes of its name, and of the others.
LEMMA EntryUpdate ==
    ASSUME KeysTellApart, NEW st, StoresInv(st), NEW u \in Updates, u.kind = "entry",
           ~ u.entry.default, EntryRefusal(st, u) = "ok"
    PROVE  LET new == EntryApplied(st, u)
               n == EntryName(u.entry)
           IN  /\ \A m \in Names : m # n => ValueOf(new, m) = ValueOf(st, m)
               /\ u.type = "insert" => ValueOf(st, n) = Nil
               /\ u.type = "modify" => ValueOf(st, n) # Nil
               /\ u.type \in {"insert", "modify"} => ValueOf(new, n) = <<"action", u.entry.action>>
               /\ u.type = "delete" => ValueOf(new, n) = Nil
<1> DEFINE e == u.entry
           k == EntryKey(e)
           n == EntryName(e)
           new == EntryApplied(st, u)
<1>1. e \in TableEntries /\ IsUpdate(u) /\ StoresInv(new)
  BY UpdateShape, EntryKeepsInv DEF TableEntries, Entities
<1>2. /\ new.records = st.records
      /\ new.rows = (CASE u.type = "insert" -> Put(st.rows, k, NewRow(e))
                       [] u.type = "modify" -> Put(st.rows, k, Updated(st.rows[k], e))
                       [] u.type = "delete" -> Drop(st.rows, k))
  BY DEF EntryApplied, StoresInv, IsMade
<1>3. NewRow(e).entry = e /\ Updated(st.rows[k], e).entry = e
  BY DEF NewRow, Updated
<1> HIDE DEF new
<1>4. /\ u.type \in {"insert", "modify"} => k \in DOMAIN new.rows /\ new.rows[k].entry = e
      /\ u.type = "delete" => k \notin DOMAIN new.rows
      /\ \A x : x # k => /\ x \in DOMAIN new.rows <=> x \in DOMAIN st.rows
                         /\ x \in DOMAIN st.rows => new.rows[x] = st.rows[x]
  <2>1. CASE u.type = "insert"
    BY <2>1, <1>2, <1>3 DEF Put
  <2>2. CASE u.type = "modify"
    BY <2>2, <1>2, <1>3 DEF Put
  <2>3. CASE u.type = "delete"
    BY <2>3, <1>2 DEF Drop, Restrict
  <2> QED
    BY <2>1, <2>2, <2>3, <1>1 DEF IsUpdate
<1>5. ASSUME NEW m \in Names, m # n
      PROVE  ValueOf(new, m) = ValueOf(st, m)
  <2>1. ASSUME NEW f \in TableEntries, m = EntryName(f)
        PROVE  ValueOf(new, m) = ValueOf(st, m)
    <3>1. EntryKey(f) # k
      BY <1>1, <1>5, <2>1, NamesAndKeys
    <3> QED
      BY <3>1, <1>1, <1>4, <2>1, EntryValue
  <2>2. ASSUME NEW v \in Updates, m = <<"record", v.slot, v.id>>
        PROVE  ValueOf(new, m) = ValueOf(st, m)
    <3>1. ValueOf(st, m) = RecordOf(st, v) /\ ValueOf(new, m) = RecordOf(new, v)
      BY <2>2, RecordValue
    <3> QED
      BY <3>1, <1>2 DEF RecordOf
  <2> QED
    BY <2>1, <2>2 DEF Names
<1>6. u.type = "insert" => ValueOf(st, n) = Nil
  <2>1. u.type = "insert" => k \notin DOMAIN st.rows
    BY DEF EntryRefusal, Present
  <2> QED
    BY <2>1, <1>1, EntryValue
<1>7. u.type = "modify" => ValueOf(st, n) # Nil
  <2> SUFFICES ASSUME u.type = "modify" PROVE ValueOf(st, n) # Nil
    OBVIOUS
  <2>1. k \in DOMAIN st.rows
    BY DEF EntryRefusal, Present
  <2>2. <<"action", st.rows[k].entry.action>> \in Values
    BY <2>1 DEF StoresInv, RowInv, Values
  <2> QED
    BY <2>1, <2>2, <1>1, EntryValue, NilIsNoValue
<1>8. /\ u.type \in {"insert", "modify"} => ValueOf(new, n) = <<"action", e.action>>
      /\ u.type = "delete" => ValueOf(new, n) = Nil
  BY <1>1, <1>4, EntryValue
<1> QED
  BY <1>5, <1>6, <1>7, <1>8 DEF new

\* The same of a record.
LEMMA RecordUpdate ==
    ASSUME KeysTellApart, NEW st, StoresInv(st), NEW u \in Updates, u.kind = "record",
           RecordRefusal(st, u) = "ok"
    PROVE  LET new == RecordApplied(st, u)
               n == <<"record", u.slot, u.id>>
           IN  /\ \A m \in Names : m # n => ValueOf(new, m) = ValueOf(st, m)
               /\ u.type = "insert" => ValueOf(st, n) = Nil
               /\ u.type = "modify" => ValueOf(st, n) # Nil
               /\ u.type \in {"insert", "modify"} => ValueOf(new, n) = <<"data", u.data>>
               /\ u.type = "delete" => ValueOf(new, n) = Nil
<1> DEFINE x == <<u.slot, u.id>>
           n == <<"record", u.slot, u.id>>
           new == RecordApplied(st, u)
<1>1. IsUpdate(u) /\ StoresInv(new)
  BY UpdateShape, RecordKeepsInv
<1>2. /\ new.rows = st.rows
      /\ new.records = IF u.type = "delete" THEN Drop(st.records, x) ELSE Put(st.records, x, u.data)
  BY DEF RecordApplied, StoresInv, IsMade
<1> HIDE DEF new
<1>3. /\ u.type # "delete" => x \in DOMAIN new.records /\ new.records[x] = u.data
      /\ u.type = "delete" => x \notin DOMAIN new.records
      /\ \A y : y # x => /\ y \in DOMAIN new.records <=> y \in DOMAIN st.records
                         /\ y \in DOMAIN st.records => new.records[y] = st.records[y]
  <2>1. CASE u.type = "delete"
    BY <2>1, <1>2 DEF Drop, Restrict
  <2>2. CASE u.type # "delete"
    BY <2>2, <1>2 DEF Put
  <2> QED
    BY <2>1, <2>2
<1>4. ASSUME NEW m \in Names, m # n
      PROVE  ValueOf(new, m) = ValueOf(st, m)
  <2>1. ASSUME NEW f \in TableEntries, m = EntryName(f)
        PROVE  ValueOf(new, m) = ValueOf(st, m)
    BY <2>1, <1>1, <1>2, EntryValue
  <2>2. ASSUME NEW v \in Updates, m = <<"record", v.slot, v.id>>
        PROVE  ValueOf(new, m) = ValueOf(st, m)
    <3>1. <<v.slot, v.id>> # x
      BY <1>4, <2>2
    <3>2. ValueOf(st, m) = RecordOf(st, v) /\ ValueOf(new, m) = RecordOf(new, v)
      BY <2>2, RecordValue
    <3> QED
      BY <3>1, <3>2, <1>3 DEF RecordOf
  <2> QED
    BY <2>1, <2>2 DEF Names
<1>5. u.type = "insert" => ValueOf(st, n) = Nil
  BY RecordValue DEF RecordRefusal, RecordOf
<1>6. u.type = "modify" => ValueOf(st, n) # Nil
  BY RecordValue, NilIsNoValue DEF RecordRefusal, RecordOf, StoresInv, RecordInv
<1>7. /\ u.type \in {"insert", "modify"} => ValueOf(new, n) = <<"data", u.data>>
      /\ u.type = "delete" => ValueOf(new, n) = Nil
  BY <1>3, RecordValue DEF RecordOf
<1> QED
  BY <1>4, <1>5, <1>6, <1>7 DEF new

\* What comes next is a request of the entry store, or nothing it knows of.
LEMMA RequestType == BatchInv => Request \in ES!Requests \cup {Nil}
<1> SUFFICES ASSUME BatchInv, Writing, Named(Update)
             PROVE  [type |-> Update.type, name |-> NameOf(Update)] \in ES!Requests
  BY DEF Request
<1>1. Update \in Updates /\ IsUpdate(Update)
  BY FirstUpdate, UpdateShape
<1>2. CASE Update.kind = "entry"
  <2>1. Update.entry \in TableEntries /\ ~ Update.entry.default
    BY <1>1, <1>2 DEF Named, TableEntries, Entities
  <2>2. NameOf(Update) \in Names
    BY <1>2, <2>1 DEF NameOf, Names
  <2> QED
    BY <1>1, <2>2 DEF ES!Requests, IsUpdate
<1>3. CASE Update.kind = "record"
  <2>1. NameOf(Update) \in Names
    BY <1>1, <1>3 DEF NameOf, Names
  <2> QED
    BY <1>1, <2>1 DEF ES!Requests, IsUpdate
<1> QED
  BY <1>2, <1>3 DEF Named

\* The same of the next state.
LEMMA NextRequestType == BatchInv' => (Request \in ES!Requests \cup {Nil})'
BY RequestType, PTL

\* A step that leaves the stores alone is at most the next request coming up.
LEMMA StoresKept ==
    ASSUME IInv, IInv', UNCHANGED stores
    PROVE  ES!Next
<1>1. Request' \in ES!Requests \cup {Nil}
  BY NextRequestType DEF IInv
<1>2. UNCHANGED Store
  BY DEF Store, ValueOf, Holding
<1> QED
  BY <1>1, <1>2 DEF ES!Next, ES!Request

\* An update that is not refused is what the entry store makes of the request.
LEMMA UpdateRefines ==
    ASSUME KeysTellApart, IInv, IInv', ApplyUpdate
    PROVE  ES!Next
<1> DEFINE u == Update
           n == NameOf(u)
           new == Applied(stores, u)
<1>1. /\ u \in Updates /\ IsUpdate(u) /\ StoresInv(stores) /\ Writing
      /\ Refusal(stores, u) = "ok" /\ stores' = new
  BY FirstUpdate, UpdateShape DEF ApplyUpdate, IInv
<1>2. Request \in ES!Requests \cup {Nil} /\ Request' \in ES!Requests \cup {Nil}
  BY RequestType, NextRequestType DEF IInv
<1>3. StoresInv(new)
  BY <1>1, UpdateKeepsInv
<1>4. Store = [m \in Names |-> ValueOf(stores, m)]
  BY <1>1 DEF Store
<1>5. CASE ~ Named(u)
  <2>1. /\ new.records = stores.records /\ DOMAIN new.rows = DOMAIN stores.rows
        /\ \A k \in DOMAIN stores.rows : new.rows[k].entry = stores.rows[k].entry
    <3>1. CASE u.kind = "entry"
      BY <1>1, <1>5, <3>1 DEF Named, Applied, EntryApplied, StoresInv, IsMade
    <3>2. CASE u.kind \in {"counter", "meter"}
      <4>1. DirectRefusal(stores, u) = "ok" /\ new = DirectApplied(stores, u)
        BY <1>1, <3>2 DEF Refusal, Applied
      <4>2. new.records = stores.records
        BY <1>1, <4>1 DEF DirectApplied, StoresInv, IsMade
      <4> QED
        BY <1>1, <3>2, <4>1, <4>2, DirectKeepsInv
    <3>3. CASE u.kind = "cell"
      <4>1. CellRefusal(stores, u) = "ok" /\ new = CellApplied(stores, u)
        BY <1>1, <3>3 DEF Refusal, Applied
      <4> QED
        BY <1>1, <4>1, CellKeepsInv
    <3>4. CASE u.kind = "ignored"
      BY <3>4 DEF Applied
    <3> QED
      BY <1>1, <1>5, <3>1, <3>2, <3>3, <3>4 DEF IsUpdate, Named
  <2>2. \A m \in Names : ValueOf(new, m) = ValueOf(stores, m)
    BY <1>1, <1>3, <2>1, SameValues
  <2>3. UNCHANGED Store
    BY <1>1, <2>2 DEF Store
  <2> QED
    BY <1>2, <2>3 DEF ES!Next, ES!Request
<1>6. ASSUME Named(u), n \in Names,
             \A m \in Names : m # n => ValueOf(new, m) = ValueOf(stores, m),
             u.type = "insert" => ValueOf(stores, n) = Nil,
             u.type = "modify" => ValueOf(stores, n) # Nil,
             u.type \in {"insert", "modify"} => ValueOf(new, n) \in Values,
             u.type = "delete" => ValueOf(new, n) = Nil
      PROVE  ES!Next
  <2>1. Store' = [Store EXCEPT ![n] = ValueOf(new, n)] /\ Store[n] = ValueOf(stores, n)
    BY <1>1, <1>6 DEF Store
  <2>2. Request = [type |-> u.type, name |-> n]
    BY <1>1, <1>6 DEF Request
  <2>3. Request \in ES!Requests /\ Request.type = u.type /\ Request.name = n
    BY <2>2, <1>1, <1>6 DEF ES!Requests, IsUpdate
  <2>4. CASE u.type = "insert"
    BY <2>1, <2>3, <2>4, <1>2, <1>6 DEF ES!Next, ES!Update, ES!Insert
  <2>5. CASE u.type = "modify"
    BY <2>1, <2>3, <2>5, <1>2, <1>6 DEF ES!Next, ES!Update, ES!Modify
  <2>6. CASE u.type = "delete"
    BY <2>1, <2>3, <2>6, <1>2, <1>6 DEF ES!Next, ES!Update, ES!Delete
  <2> QED
    BY <2>4, <2>5, <2>6, <1>1 DEF IsUpdate
<1>7. CASE Named(u) /\ u.kind = "entry"
  <2>1. /\ ~ u.entry.default /\ EntryRefusal(stores, u) = "ok" /\ new = EntryApplied(stores, u)
        /\ n = EntryName(u.entry) /\ u.entry \in TableEntries
    BY <1>1, <1>7 DEF Named, NameOf, Refusal, Applied, TableEntries, Entities
  <2>2. n \in Names /\ <<"action", u.entry.action>> \in Values
    BY <2>1 DEF Names, Values
  <2> QED
    BY <1>1, <1>6, <1>7, <2>1, <2>2, EntryUpdate
<1>8. CASE Named(u) /\ u.kind = "record"
  <2>1. /\ RecordRefusal(stores, u) = "ok" /\ new = RecordApplied(stores, u)
        /\ n = <<"record", u.slot, u.id>>
    BY <1>1, <1>8 DEF NameOf, Refusal, Applied
  <2>2. n \in Names /\ <<"data", u.data>> \in Values
    BY <1>1, <1>8, <2>1 DEF Names, Values
  <2> QED
    BY <1>1, <1>6, <1>8, <2>1, <2>2, RecordUpdate
<1> QED
  BY <1>5, <1>7, <1>8 DEF Named

\* A new configuration starts from an empty store, between two batches.
LEMMA ConfigurationRefines ==
    ASSUME NEW c \in Configs, SetPipelineConfig(c)
    PROVE  ES!Reset
<1>1. Request = Nil /\ Request' = Nil
  BY DEF SetPipelineConfig, MayLock, Request, Writing
<1>2. stores' = NewStores(c)
  BY DEF SetPipelineConfig
<1>3. \A n \in Names : ValueOf(NewStores(c), n) = Nil
  BY DEF ValueOf, Holding, NewStores, EmptyMap
<1>4. Store' = [n \in Names |-> Nil]
  BY <1>2, <1>3 DEF Store
<1> QED
  BY <1>1, <1>4 DEF ES!Reset

\* A pipeline whose keys tell entries apart is the map from names to values
\* that a client may expect: every update changes the entry it names, and no
\* other, in the middle of batches too (ProcessWrite).
THEOREM Refinement ==
    ASSUME KeysTellApart
    PROVE  Spec => ImplementsEntryStore
<1>1. Init => ES!Init
  <2>1. \A n \in Names : ValueOf(NoStores, n) = Nil
    BY DEF ValueOf, Holding, NoStores, EmptyMap
  <2> QED
    BY <2>1 DEF Init, ES!Init, Store, Request, Writing
<1>2. ASSUME IInv, IInv', [Next]_vars
      PROVE  [ES!Next]_(ES!vars)
  <2> USE <1>2
  <2>1. ASSUME NEW c \in Configs, SetPipelineConfig(c)
        PROVE  ES!Next
    BY <2>1, ConfigurationRefines DEF ES!Next
  <2>2. CASE ApplyUpdate
    BY <2>2, UpdateRefines
  <2>3. CASE UNCHANGED stores
    BY <2>3, StoresKept
  <2>4. ASSUME NEW r \in Readers, Read(r)
        PROVE  UNCHANGED stores
    BY <2>4 DEF Read, BeginRead, ReadPanics, Scan, SendEntity, EndScan, BreakRead, EndRead
  <2>5. ASSUME NEW w \in Walkers, Snapshot(w)
        PROVE  UNCHANGED stores
    BY <2>5 DEF Snapshot, BeginWalk, EndWalk, MapFault
  <2>6. RefuseUpdate \/ UpdateBeforeConfig \/ EndBatch => UNCHANGED stores
    BY DEF RefuseUpdate, UpdateBeforeConfig, EndBatch
  <2>7. ASSUME NEW us \in Batches, BeginBatch(us)
        PROVE  UNCHANGED stores
    BY <2>7 DEF BeginBatch
  <2> QED
    BY <2>1, <2>2, <2>3, <2>4, <2>5, <2>6, <2>7 DEF Next, Write, vars
<1> QED
  BY <1>1, <1>2, IInvHolds, PTL DEF Spec, ES!Spec, ImplementsEntryStore

\* An entry that an insertion is refused for is there.
RefusalInv ==
    batch # Nil /\ batch.answer = "already exists" =>
        /\ Configured
        /\ batch.todo # <<>>
        /\ Refusal(stores, Update) = "already exists"

\* Where keys tell entries apart, an insertion is refused because its entry
\* exists only if it does (ModifyTableEntry).
THEOREM RefusedIfStored ==
    ASSUME KeysTellApart
    PROVE  Spec => []RefusedBecauseStored
<1>1. Init => RefusalInv
  BY DEF Init, RefusalInv
<1>2. ASSUME IInv, RefusalInv, [Next]_vars
      PROVE  RefusalInv'
  <2> USE <1>2 DEF RefusalInv, Update, Configured
  <2>1. ASSUME NEW c \in Configs, SetPipelineConfig(c)
        PROVE  RefusalInv'
    BY <2>1 DEF SetPipelineConfig, MayLock
  <2>2. CASE ApplyUpdate
    BY <2>2 DEF IInv, BatchInv, ApplyUpdate, Writing
  <2>3. CASE RefuseUpdate
    <3>1. /\ batch'.todo = batch.todo /\ batch.todo # <<>>
          /\ batch'.answer = Refusal(stores, Update) /\ Configured /\ UNCHANGED stores
      BY <2>3 DEF IInv, BatchInv, RefuseUpdate, Writing
    <3> QED
      BY <3>1
  <2>4. CASE UpdateBeforeConfig
    <3>1. batch'.answer \in {"ok", "invalid"}
      BY <2>4 DEF IInv, BatchInv, UpdateBeforeConfig, Writing
    <3> QED
      BY <3>1
  <2>5. CASE EndBatch
    BY <2>5 DEF EndBatch
  <2>6. ASSUME NEW us \in Batches, BeginBatch(us)
        PROVE  RefusalInv'
    BY <2>6 DEF BeginBatch
  <2>7. CASE UNCHANGED <<stores, batch>>
    BY <2>7
  <2>8. ASSUME NEW r \in Readers, Read(r)
        PROVE  UNCHANGED <<stores, batch>>
    BY <2>8 DEF Read, BeginRead, ReadPanics, Scan, SendEntity, EndScan, BreakRead, EndRead
  <2>9. ASSUME NEW w \in Walkers, Snapshot(w)
        PROVE  UNCHANGED <<stores, batch>>
    BY <2>9 DEF Snapshot, BeginWalk, EndWalk, MapFault
  <2> QED
    BY <2>1, <2>2, <2>3, <2>4, <2>5, <2>6, <2>7, <2>8, <2>9 DEF Next, Write, vars
<1>3. ASSUME IInv, RefusalInv
      PROVE  RefusedBecauseStored
  <2> SUFFICES ASSUME batch # Nil, batch.answer = "already exists", Update.kind = "entry"
               PROVE  Store[EntryName(Update.entry)] # Nil
    BY DEF RefusedBecauseStored
  <2> DEFINE e == Update.entry
  <2>1. StoresInv(stores) /\ EntryRefusal(stores, Update) = "already exists"
    BY <1>3 DEF IInv, RefusalInv, Refusal
  <2>2. ~ e.default /\ EntryKey(e) \in DOMAIN stores.rows
    BY <2>1 DEF EntryRefusal, Present
  <2>3. Update \in Updates
    BY <1>3, HeadUpdate DEF IInv, RefusalInv
  <2>4. e \in TableEntries /\ EntryName(e) \in Names
    BY <2>2, <2>3 DEF TableEntries, Entities, Names
  <2>5. Store[EntryName(e)] = <<"action", stores.rows[EntryKey(e)].entry.action>>
    BY <2>1, <2>2, <2>4, EntryValue DEF Store
  <2>6. <<"action", stores.rows[EntryKey(e)].entry.action>> \in Values
    BY <2>1, <2>2 DEF StoresInv, RowInv, Values
  <2> QED
    BY <2>5, <2>6, NilIsNoValue
<1> QED
  BY <1>1, <1>2, <1>3, IInvHolds, PTL DEF Spec
----------------------------------------------------------------------------
(* Reads.  What a read has sent, together with its buffer, is a sequence   *)
(* of batches, of which the buffer is the last.                            *)

ReadOf(asked, todo, left, scanning, buffer, sent, broken) ==
    [asked |-> asked, todo |-> todo, left |-> left, scanning |-> scanning, buffer |-> buffer, sent |-> sent,
     broken |-> broken]

Log(read) == Append(read.sent, read.buffer)

\* What was asked for was sent, is left of the source at hand, or is of a source
\* that is still to come.
Progress(st, read) ==
    /\ SendsOnce(Log(read))
    /\ Contents(Log(read)) \cup read.left \cup AllItems(st, read.todo) = AllItems(st, read.asked)
    /\ Contents(Log(read)) \cap (read.left \cup AllItems(st, read.todo)) = {}
    /\ read.left \cap AllItems(st, read.todo) = {}

IsRead(st, read) ==
    /\ read = ReadOf(read.asked, read.todo, read.left, read.scanning, read.buffer, read.sent, read.broken)
    /\ read.asked \subseteq Sources(st) /\ read.todo \subseteq read.asked
    /\ read.left \subseteq AllItems(st, read.asked)
    /\ read.buffer \in Seq(AllItems(st, read.asked)) /\ Len(read.buffer) < BufferSize
    /\ read.sent \in Seq(Seq(AllItems(st, read.asked)))
    /\ \A i \in DOMAIN read.sent : Len(read.sent[i]) <= BufferSize

ReadInv(st, read) ==
    /\ IsRead(st, read)
    /\ ~ read.scanning => read.left = {} /\ (~ read.broken => read.buffer = <<>>)
    /\ ~ read.broken => Progress(st, read)

\* Nothing is written while anything is read.
ReadsInv ==
    /\ DOMAIN reads = Readers
    /\ \A r \in Readers : reads[r] # Nil => batch = Nil /\ Configured /\ ReadInv(stores, reads[r])

\* A batch is sent, and the next one is empty.
LEMMA FlushKeepsLog ==
    ASSUME NEW S, NEW log \in Seq(Seq(S)), SendsOnce(log)
    PROVE  /\ SendsOnce(Append(log, <<>>))
           /\ Contents(Append(log, <<>>)) = Contents(log)
<1> DEFINE new == Append(log, <<>>)
<1>1. /\ DOMAIN log = 1..Len(log) /\ Len(log) \in Nat /\ DOMAIN new = 1..(Len(log) + 1)
      /\ \A i \in 1..Len(log) : new[i] = log[i]
      /\ new[Len(log) + 1] = <<>>
  OBVIOUS
<1>2. DOMAIN new[Len(log) + 1] = {}
  BY <1>1
<1> HIDE DEF new
<1>3. \A i \in DOMAIN new : (i \in DOMAIN log /\ new[i] = log[i]) \/ DOMAIN new[i] = {}
  BY <1>1, <1>2
<1>4. DOMAIN log \subseteq DOMAIN new /\ \A i \in DOMAIN log : new[i] = log[i]
  BY <1>1
<1>5. SendsOnce(new)
  BY <1>3 DEF SendsOnce
<1>6. Contents(new) = Contents(log)
  BY <1>3, <1>4 DEF Contents, Range
<1> QED
  BY <1>5, <1>6 DEF new

\* One more item goes to the last batch.
LEMMA ItemExtendsLog ==
    ASSUME NEW S, NEW sent \in Seq(Seq(S)), NEW buffer \in Seq(S), NEW x \in S,
           SendsOnce(Append(sent, buffer)), x \notin Contents(Append(sent, buffer))
    PROVE  /\ SendsOnce(Append(sent, Append(buffer, x)))
           /\ Contents(Append(sent, Append(buffer, x))) = Contents(Append(sent, buffer)) \cup {x}
<1> DEFINE old == Append(sent, buffer)
           longer == Append(buffer, x)
           new == Append(sent, longer)
           last == Len(sent) + 1
           end == Len(buffer) + 1
<1>1. /\ Len(sent) \in Nat /\ Len(buffer) \in Nat /\ DOMAIN longer = 1..end /\ longer[end] = x
      /\ DOMAIN buffer = 1..Len(buffer)
      /\ \A m \in 1..Len(buffer) : longer[m] = buffer[m]
  OBVIOUS
<1>2. longer \in Seq(S)
  OBVIOUS
<1> HIDE DEF longer
<1>3. /\ DOMAIN old = 1..last /\ old[last] = buffer
      /\ DOMAIN new = 1..last /\ new[last] = longer
      /\ \A i \in 1..last \ {last} : new[i] = old[i]
  BY <1>2
<1> HIDE DEF old, new
<1>4. last \in DOMAIN new /\ end \in DOMAIN new[last] /\ new[last][end] = x
  BY <1>1, <1>3
<1>5. \A i \in DOMAIN new : \A m \in DOMAIN new[i] :
          \/ i = last /\ m = end
          \/ i \in DOMAIN old /\ m \in DOMAIN old[i] /\ new[i][m] = old[i][m]
  BY <1>1, <1>3
<1>6. \A i \in DOMAIN old : \A m \in DOMAIN old[i] :
          i \in DOMAIN new /\ m \in DOMAIN new[i] /\ new[i][m] = old[i][m]
  <2>1. ASSUME NEW m \in DOMAIN buffer
        PROVE  m \in DOMAIN longer /\ longer[m] = buffer[m]
    BY <1>1
  <2> QED
    BY <1>3, <2>1
<1> HIDE DEF last, end
<1>7. \A i \in DOMAIN old : \A m \in DOMAIN old[i] : old[i][m] # x
  BY DEF Contents, Range, old
<1>8. SendsOnce(new)
  <2>1. ASSUME NEW i \in DOMAIN new, NEW k \in DOMAIN new, NEW m \in DOMAIN new[i], NEW n \in DOMAIN new[k],
               new[i][m] = new[k][n]
        PROVE  i = k /\ m = n
    BY SMTT(30), <1>4, <1>5, <1>7, <2>1 DEF SendsOnce, old
  <2> QED
    BY <2>1 DEF SendsOnce
<1>9. ASSUME NEW y
      PROVE  y \in Contents(new) <=> y \in Contents(old) \cup {x}
  <2>1. y \in Contents(new) <=> \E i \in DOMAIN new : \E m \in DOMAIN new[i] : y = new[i][m]
    BY DEF Contents, Range
  <2>2. y \in Contents(old) <=> \E i \in DOMAIN old : \E m \in DOMAIN old[i] : y = old[i][m]
    BY DEF Contents, Range
  <2> QED
    BY <1>4, <1>5, <1>6, <2>1, <2>2
<1> QED
  BY <1>8, <1>9 DEF new, old, longer
\* What is in a log whose last batch is empty was sent.
LEMMA LogOfSent ==
    ASSUME NEW S, NEW sent \in Seq(Seq(S)), SendsOnce(Append(sent, <<>>))
    PROVE  SendsOnce(sent) /\ Contents(sent) = Contents(Append(sent, <<>>))
<1> DEFINE new == Append(sent, <<>>)
<1>1. DOMAIN sent = 1..Len(sent) /\ Len(sent) \in Nat /\ DOMAIN new = 1..(Len(sent) + 1)
      /\ (\A i \in 1..Len(sent) : new[i] = sent[i]) /\ new[Len(sent) + 1] = <<>>
  OBVIOUS
<1>2. DOMAIN new[Len(sent) + 1] = {}
  BY <1>1
<1> HIDE DEF new
<1>3. \A i \in DOMAIN new : (i \in DOMAIN sent /\ new[i] = sent[i]) \/ DOMAIN new[i] = {}
  BY <1>1, <1>2
<1>4. DOMAIN sent \subseteq DOMAIN new /\ \A i \in DOMAIN sent : new[i] = sent[i]
  BY <1>1
<1>5. SendsOnce(sent)
  BY SMTT(30), <1>4 DEF SendsOnce, new
<1>6. Contents(new) = Contents(sent)
  BY <1>3, <1>4 DEF Contents, Range
<1> QED
  BY <1>5, <1>6 DEF new

\* No row, default row or record is in two sources.
LEMMA SourcesAreDisjoint ==
    ASSUME NEW st, NEW s \in Sources(st), NEW t \in Sources(st), s # t
    PROVE  Items(st, s) \cap Items(st, t) = {}
<1> SUFFICES ASSUME NEW x \in Items(st, s), x \in Items(st, t)
             PROVE  FALSE
  OBVIOUS
<1>1. CASE s[1] = "table" /\ t[1] = "table"
  <2>1. s[2] # t[2]
    BY <1>1 DEF Sources, SlotsOf
  <2>2. ASSUME NEW z \in Sources(st), z[1] = "table", x \in Items(st, z)
        PROVE  (x[1] = "row" /\ x[2][1] = z[2]) \/ (x[1] = "default" /\ x[2] = z[2])
    <3>1. \/ x \in {"row"} \X {k \in DOMAIN st.rows : k[1] = z[2]}
          \/ x \in {"default"} \X (DOMAIN st.defaults \cap {z[2]})
      BY <2>2 DEF Items
    <3> QED
      BY <3>1
  <2>3. (x[1] = "row" /\ x[2][1] = s[2]) \/ (x[1] = "default" /\ x[2] = s[2])
    BY <1>1, <2>2
  <2>4. (x[1] = "row" /\ x[2][1] = t[2]) \/ (x[1] = "default" /\ x[2] = t[2])
    BY <1>1, <2>2
  <2> QED
    BY <2>1, <2>3, <2>4
<1>2. CASE s[1] # "table" /\ t[1] # "table"
  <2>1. x[2][1] = s /\ x[2][1] = t
    BY <1>2 DEF Items, InSlot
  <2> QED
    BY <2>1
<1>3. CASE s[1] = "table" /\ t[1] # "table"
  BY <1>3 DEF Items
<1>4. CASE s[1] # "table" /\ t[1] = "table"
  BY <1>4 DEF Items
<1> QED
  BY <1>1, <1>2, <1>3, <1>4

\* A read that begins has everything before it.
LEMMA BeginKeepsRead ==
    ASSUME NEW st, NEW sources \in SUBSET Sources(st),
           NEW read, read = ReadOf(sources, sources, {}, FALSE, <<>>, <<>>, FALSE)
    PROVE  ReadInv(st, read)
<1> USE DEF ReadOf
<1>1. /\ read.asked = sources /\ read.todo = sources /\ read.left = {}
      /\ read.buffer = <<>> /\ read.sent = <<>>
  OBVIOUS
<1>2. /\ Len(read.buffer) < BufferSize /\ DOMAIN read.sent = {}
      /\ read.buffer \in Seq(AllItems(st, sources)) /\ read.sent \in Seq(Seq(AllItems(st, sources)))
  BY <1>1, PipelineAssumption
<1>3. IsRead(st, read)
  BY <1>1, <1>2 DEF IsRead
<1>4. \A i \in DOMAIN Log(read) : DOMAIN Log(read)[i] = {}
  <2> DEFINE empty == <<>>
  <2>1. empty \in Seq({}) /\ DOMAIN empty = {} /\ Len(empty) = 0
    OBVIOUS
  <2>2. Log(read) = Append(empty, empty)
    BY <1>1 DEF Log
  <2> HIDE DEF empty
  <2>3. \A i \in DOMAIN Append(empty, empty) : Append(empty, empty)[i] = empty
    BY <2>1
  <2> QED
    BY <2>1, <2>2, <2>3
<1>5. SendsOnce(Log(read)) /\ Contents(Log(read)) = {}
  <2>1. \A i \in DOMAIN Log(read) : Range(Log(read)[i]) = {}
    BY <1>4 DEF Range
  <2>2. Contents(Log(read)) = {}
    BY ZenonT(40), <2>1 DEF Contents
  <2>3. SendsOnce(Log(read))
    BY <1>4 DEF SendsOnce
  <2> QED
    BY <2>2, <2>3
<1>6. Progress(st, read)
  BY <1>1, <1>5 DEF Progress
<1> QED
  BY <1>1, <1>3, <1>6 DEF ReadInv

\* The next source is taken up.
LEMMA ScanKeepsRead ==
    ASSUME NEW st, NEW read, ReadInv(st, read), ~ read.scanning, NEW s \in read.todo,
           NEW new, new = ReadOf(read.asked, read.todo \ {s}, Items(st, s), TRUE, read.buffer, read.sent, read.broken)
    PROVE  ReadInv(st, new)
<1> USE DEF ReadOf
<1>1. Items(st, s) \subseteq AllItems(st, read.asked)
  BY DEF AllItems, ReadInv, IsRead
<1>2. IsRead(st, new)
  BY <1>1 DEF ReadInv, IsRead
<1>3. AllItems(st, read.todo) = Items(st, s) \cup AllItems(st, read.todo \ {s})
  BY DEF AllItems
<1>4. Items(st, s) \cap AllItems(st, read.todo \ {s}) = {}
  <2>1. ASSUME NEW t \in read.todo \ {s}
        PROVE  Items(st, s) \cap Items(st, t) = {}
    BY SourcesAreDisjoint DEF ReadInv, IsRead
  <2> QED
    BY <2>1 DEF AllItems
<1>5. ASSUME ~ read.broken
      PROVE  Progress(st, new)
  <2>1. Progress(st, read) /\ read.left = {}
    BY <1>5 DEF ReadInv
  <2>2. Log(new) = Log(read)
    BY DEF Log
  <2> QED
    BY <1>3, <1>4, <2>1, <2>2 DEF Progress
<1> QED
  BY <1>2, <1>5 DEF ReadInv

\* One more item is buffered, and the buffer sent if it is full.
LEMMA SendKeepsRead ==
    ASSUME NEW st, NEW read, ReadInv(st, read), NEW x \in read.left,
           NEW longer, longer = Append(read.buffer, x),
           NEW new,
           \/ /\ Len(longer) # BufferSize
              /\ new = ReadOf(read.asked, read.todo, read.left \ {x}, read.scanning, longer, read.sent, read.broken)
           \/ /\ Len(longer) = BufferSize
              /\ new = ReadOf(read.asked, read.todo, read.left \ {x}, read.scanning, <<>>, Append(read.sent, longer), read.broken)
    PROVE  ReadInv(st, new)
<1> USE DEF ReadOf
<1> DEFINE S == AllItems(st, read.asked)
           full == Append(read.sent, longer)
<1>1. /\ read.buffer \in Seq(S) /\ read.sent \in Seq(Seq(S)) /\ x \in S
      /\ Len(read.buffer) < BufferSize /\ Len(read.buffer) \in Nat /\ read.scanning
      /\ \A i \in DOMAIN read.sent : Len(read.sent[i]) <= BufferSize
  BY DEF ReadInv, IsRead
<1> HIDE DEF S
<1>2. longer \in Seq(S) /\ Len(longer) = Len(read.buffer) + 1
  BY <1>1
<1>3. Len(longer) <= BufferSize
  BY <1>1, <1>2, PipelineAssumption
<1>4. full \in Seq(Seq(S)) /\ \A i \in DOMAIN full : full[i] = longer \/ (i \in DOMAIN read.sent /\ full[i] = read.sent[i])
  BY <1>1, <1>2
<1> HIDE DEF full
<1>5. IsRead(st, new)
  <2>1. Len(<<>>) = 0 /\ 0 < BufferSize /\ <<>> \in Seq(S)
    BY PipelineAssumption
  <2>2. new.asked = read.asked /\ new.left \subseteq read.left
    OBVIOUS
  <2>3. new.buffer \in Seq(S) /\ Len(new.buffer) < BufferSize
    <3>1. new.buffer = <<>> \/ (new.buffer = longer /\ Len(longer) # BufferSize)
      OBVIOUS
    <3>2. Len(longer) \in Nat /\ BufferSize \in Nat
      BY <1>1, <1>2, PipelineAssumption
    <3>3. Len(longer) # BufferSize => Len(longer) < BufferSize
      BY <1>3, <3>2
    <3> QED
      BY <1>2, <2>1, <3>1, <3>3, Zenon
  <2>4. new.sent \in Seq(Seq(S)) /\ \A i \in DOMAIN new.sent : Len(new.sent[i]) <= BufferSize
    <3>1. new.sent = read.sent \/ new.sent = full
      BY DEF full
    <3> QED
      BY <1>1, <1>3, <1>4, <3>1
  <2>5. new = ReadOf(new.asked, new.todo, new.left, new.scanning, new.buffer, new.sent, new.broken)
    OBVIOUS
  <2> QED
    BY <2>2, <2>3, <2>4, <2>5 DEF IsRead, ReadInv, S
<1>6. ASSUME ~ read.broken
      PROVE  Progress(st, new)
  <2>1. Progress(st, read)
    BY <1>6 DEF ReadInv
  <2>2. x \notin Contents(Log(read))
    BY <2>1 DEF Progress
  <2>3. SendsOnce(full) /\ Contents(full) = Contents(Log(read)) \cup {x}
    BY <1>1, <2>1, <2>2, ItemExtendsLog DEF full, Log, Progress
  <2>4. SendsOnce(Log(new)) /\ Contents(Log(new)) = Contents(full)
    <3>1. CASE Len(longer) # BufferSize
      <4>1. new.sent = read.sent /\ new.buffer = longer
        BY <3>1
      <4> QED
        BY <2>3, <4>1 DEF Log, full
    <3>2. CASE Len(longer) = BufferSize
      <4>1. new.sent = full /\ new.buffer = <<>>
        BY <3>2 DEF full
      <4>2. Log(new) = Append(full, <<>>)
        BY <4>1 DEF Log
      <4> QED
        BY <1>4, <2>3, <4>2, FlushKeepsLog
    <3> QED
      BY <3>1, <3>2
  <2>5. new.left = read.left \ {x} /\ new.todo = read.todo /\ new.asked = read.asked
    OBVIOUS
  <2> QED
    BY <2>1, <2>3, <2>4, <2>5 DEF Progress
<1>7. new.scanning = read.scanning /\ new.broken = read.broken
  OBVIOUS
<1> QED
  BY <1>1, <1>5, <1>6, <1>7 DEF ReadInv

\* The rest of a source is sent.
LEMMA EndScanKeepsRead ==
    ASSUME NEW st, NEW read, ReadInv(st, read), read.left = {},
           NEW new, new = ReadOf(read.asked, read.todo, {}, FALSE, <<>>, Append(read.sent, read.buffer), read.broken)
    PROVE  ReadInv(st, new)
<1> USE DEF ReadOf
<1> DEFINE S == AllItems(st, read.asked)
           full == Append(read.sent, read.buffer)
<1>1. /\ read.buffer \in Seq(S) /\ read.sent \in Seq(Seq(S)) /\ Len(read.buffer) \in Nat
      /\ Len(read.buffer) < BufferSize /\ BufferSize \in Nat
      /\ \A i \in DOMAIN read.sent : Len(read.sent[i]) <= BufferSize
  BY PipelineAssumption DEF ReadInv, IsRead
<1> HIDE DEF S
<1>2. full \in Seq(Seq(S)) /\ \A i \in DOMAIN full : full[i] = read.buffer \/ (i \in DOMAIN read.sent /\ full[i] = read.sent[i])
  BY <1>1
<1>3. \A i \in DOMAIN full : Len(full[i]) <= BufferSize
  BY <1>1, <1>2
<1>4. Len(<<>>) = 0 /\ 0 < BufferSize /\ <<>> \in Seq(S)
  BY PipelineAssumption
<1>5. IsRead(st, new)
  BY <1>2, <1>3, <1>4 DEF IsRead, ReadInv, S, full
<1>6. ASSUME ~ read.broken
      PROVE  Progress(st, new)
  <2>1. Progress(st, read)
    BY <1>6 DEF ReadInv
  <2>2. SendsOnce(Log(new)) /\ Contents(Log(new)) = Contents(Log(read))
    BY <1>2, <2>1, FlushKeepsLog DEF Log, full, Progress
  <2> QED
    BY <2>1, <2>2 DEF Progress
<1> QED
  BY <1>5, <1>6 DEF ReadInv

\* The client is lost.
LEMMA BreakKeepsRead ==
    ASSUME NEW st, NEW read, ReadInv(st, read),
           NEW new, new = ReadOf(read.asked, {}, {}, FALSE, read.buffer, read.sent, TRUE)
    PROVE  ReadInv(st, new)
  BY DEF ReadInv, IsRead, ReadOf
\* One read moves on and nothing else changes.
LEMMA OneReadMoves ==
    ASSUME ReadsInv, NEW r \in Readers, NEW new, reads' = [reads EXCEPT ![r] = new],
           UNCHANGED <<stores, batch>>,
           new # Nil => batch = Nil /\ Configured /\ ReadInv(stores, new)
    PROVE  ReadsInv'
<1>1. DOMAIN reads' = Readers /\ \A q \in Readers : reads'[q] = IF q = r THEN new ELSE reads[q]
  BY DEF ReadsInv
<1>2. Configured' = Configured
  BY DEF Configured
<1>3. \A q \in Readers : reads'[q] # Nil => ReadInv(stores', reads'[q])
  BY <1>1 DEF ReadsInv
<1> QED
  BY <1>1, <1>2, <1>3 DEF ReadsInv

\* The changes that are made to the record of a read.
LEMMA ReadFields ==
    ASSUME NEW read, read = [q \in {"asked", "todo", "left", "scanning", "buffer", "sent", "broken"} |-> read[q]]
    PROVE  read = ReadOf(read.asked, read.todo, read.left, read.scanning, read.buffer, read.sent, read.broken)
  BY DEF ReadOf

Begun(read, x, y) == [read EXCEPT !.asked = x, !.todo = y]
Buffered(read, x) == [read EXCEPT !.left = @ \ {x}, !.buffer = Append(@, x)]
Scanned(read, x, y, v) == [read EXCEPT !.todo = @ \ {x}, !.left = y, !.scanning = v]
Broken(read, x, y, v, w) == [read EXCEPT !.todo = x, !.left = y, !.scanning = v, !.broken = w]

LEMMA SourcesChange ==
    ASSUME NEW read, NEW a, NEW t, NEW l, NEW z, NEW b, NEW s, NEW k, read = ReadOf(a, t, l, z, b, s, k),
           NEW x, NEW y
    PROVE  Begun(read, x, y) = ReadOf(x, y, l, z, b, s, k)
<1> DEFINE new == Begun(read, x, y)
<1>1. /\ new.asked = x /\ new.todo = y /\ new.left = l /\ new.scanning = z
      /\ new.buffer = b /\ new.sent = s /\ new.broken = k
  BY DEF ReadOf, Begun
<1>2. new = [q \in {"asked", "todo", "left", "scanning", "buffer", "sent", "broken"} |-> new[q]]
  BY DEF ReadOf, Begun
<1> HIDE DEF new
<1>3. new = ReadOf(x, y, l, z, b, s, k)
  BY <1>1, <1>2, ReadFields
<1> QED
  BY <1>3 DEF new

LEMMA ItemChange ==
    ASSUME NEW read, NEW a, NEW t, NEW l, NEW z, NEW b, NEW s, NEW k, read = ReadOf(a, t, l, z, b, s, k),
           NEW x
    PROVE  Buffered(read, x) = ReadOf(a, t, l \ {x}, z, Append(b, x), s, k)
<1> DEFINE new == Buffered(read, x)
<1>1. /\ new.asked = a /\ new.todo = t /\ new.left = l \ {x} /\ new.scanning = z
      /\ new.buffer = Append(b, x) /\ new.sent = s /\ new.broken = k
  BY DEF ReadOf, Buffered
<1>2. new = [q \in {"asked", "todo", "left", "scanning", "buffer", "sent", "broken"} |-> new[q]]
  BY DEF ReadOf, Buffered
<1> HIDE DEF new
<1>3. new = ReadOf(a, t, l \ {x}, z, Append(b, x), s, k)
  BY <1>1, <1>2, ReadFields
<1> QED
  BY <1>3 DEF new

LEMMA ScanChange ==
    ASSUME NEW read, NEW a, NEW t, NEW l, NEW z, NEW b, NEW s, NEW k, read = ReadOf(a, t, l, z, b, s, k),
           NEW x, NEW y, NEW v
    PROVE  Scanned(read, x, y, v) = ReadOf(a, t \ {x}, y, v, b, s, k)
<1> DEFINE new == Scanned(read, x, y, v)
<1>1. /\ new.asked = a /\ new.todo = t \ {x} /\ new.left = y /\ new.scanning = v
      /\ new.buffer = b /\ new.sent = s /\ new.broken = k
  BY DEF ReadOf, Scanned
<1>2. new = [q \in {"asked", "todo", "left", "scanning", "buffer", "sent", "broken"} |-> new[q]]
  BY DEF ReadOf, Scanned
<1> HIDE DEF new
<1>3. new = ReadOf(a, t \ {x}, y, v, b, s, k)
  BY <1>1, <1>2, ReadFields
<1> QED
  BY <1>3 DEF new

LEMMA BreakChange ==
    ASSUME NEW read, NEW a, NEW t, NEW l, NEW z, NEW b, NEW s, NEW k, read = ReadOf(a, t, l, z, b, s, k),
           NEW x, NEW y, NEW v, NEW w
    PROVE  Broken(read, x, y, v, w) = ReadOf(a, x, y, v, b, s, w)
<1> DEFINE new == Broken(read, x, y, v, w)
<1>1. /\ new.asked = a /\ new.todo = x /\ new.left = y /\ new.scanning = v
      /\ new.buffer = b /\ new.sent = s /\ new.broken = w
  BY DEF ReadOf, Broken
<1>2. new = [q \in {"asked", "todo", "left", "scanning", "buffer", "sent", "broken"} |-> new[q]]
  BY DEF ReadOf, Broken
<1> HIDE DEF new
<1>3. new = ReadOf(a, x, y, v, b, s, w)
  BY <1>1, <1>2, ReadFields
<1> QED
  BY <1>3 DEF new

LEMMA FlushChange ==
    ASSUME NEW read, NEW a, NEW t, NEW l, NEW z, NEW b, NEW s, NEW k, read = ReadOf(a, t, l, z, b, s, k)
    PROVE  Flushed(read) = ReadOf(a, t, l, z, <<>>, Append(s, b), k)
<1> DEFINE new == Flushed(read)
<1>1. /\ new.asked = a /\ new.todo = t /\ new.left = l /\ new.scanning = z
      /\ new.buffer = <<>> /\ new.sent = Append(s, b) /\ new.broken = k
  BY DEF ReadOf, Flushed
<1>2. new = [q \in {"asked", "todo", "left", "scanning", "buffer", "sent", "broken"} |-> new[q]]
  BY DEF ReadOf, Flushed
<1> HIDE DEF new
<1>3. new = ReadOf(a, t, l, z, <<>>, Append(s, b), k)
  BY <1>1, <1>2, ReadFields
<1> QED
  BY <1>3 DEF new

LEMMA EndChange ==
    ASSUME NEW read, NEW a, NEW t, NEW l, NEW z, NEW b, NEW s, NEW k, read = ReadOf(a, t, l, z, b, s, k),
           NEW v
    PROVE  [read EXCEPT !.scanning = v] = ReadOf(a, t, l, v, b, s, k)
  BY DEF ReadOf

LEMMA ReadKeepsReads ==
    ASSUME ReadsInv, NEW r \in Readers, Read(r)
    PROVE  ReadsInv'
<1> DEFINE read == reads[r]
<1>0. UNCHANGED <<stores, batch>>
  BY DEF Read, BeginRead, ReadPanics, Scan, SendEntity, EndScan, BreakRead, EndRead
<1>1. ASSUME read # Nil
      PROVE  /\ batch = Nil /\ Configured /\ ReadInv(stores, read)
             /\ read = ReadOf(read.asked, read.todo, read.left, read.scanning, read.buffer, read.sent, read.broken)
  BY <1>1 DEF ReadsInv, ReadInv, IsRead
<1>2. DOMAIN reads = Readers
  BY DEF ReadsInv
<1>3. ASSUME NEW sources \in ReadRequests, BeginRead(r, sources)
      PROVE  ReadsInv'
  <2> DEFINE new == ReadOf(sources, sources, {}, FALSE, <<>>, <<>>, FALSE)
  <2>1. [IdleRead EXCEPT !.asked = sources, !.todo = sources] = new
    <3> DEFINE no == FALSE
               none == {}
               empty == <<>>
    <3>1. IdleRead = ReadOf(none, none, none, no, empty, empty, no)
      BY DEF IdleRead, ReadOf
    <3> HIDE DEF no, none, empty
    <3>2. Begun(IdleRead, sources, sources) = ReadOf(sources, sources, none, no, empty, empty, no)
      BY <3>1, SourcesChange
    <3> QED
      BY <3>2 DEF no, none, empty, Begun
  <2>2. reads' = [reads EXCEPT ![r] = new] /\ batch = Nil /\ Configured /\ sources \in SUBSET Sources(stores)
    BY <1>3, <2>1 DEF BeginRead, MayRLock
  <2>3. ReadInv(stores, new)
    BY <2>2, BeginKeepsRead
  <2> HIDE DEF new
  <2> QED
    BY <1>0, <2>2, <2>3, OneReadMoves
<1>4. CASE ReadPanics(r)
  BY <1>4 DEF ReadPanics, ReadsInv, Configured
<1>5. ASSUME read # Nil, NEW s \in read.todo, Scan(r, s)
      PROVE  ReadsInv'
  <2> DEFINE new == ReadOf(read.asked, read.todo \ {s}, Items(stores, s), TRUE, read.buffer, read.sent, read.broken)
  <2>1. ~ read.scanning
    BY <1>5 DEF Scan
  <2>3. ReadInv(stores, new)
    BY <1>1, <1>5, <2>1, ScanKeepsRead
  <2>4. [read EXCEPT !.todo = @ \ {s}, !.left = Items(stores, s), !.scanning = TRUE] = new
    <3> DEFINE yes == TRUE
    <3> HIDE DEF yes
    <3>1. Scanned(read, s, Items(stores, s), yes)
          = ReadOf(read.asked, read.todo \ {s}, Items(stores, s), yes, read.buffer, read.sent, read.broken)
      BY <1>1, <1>5, ScanChange
    <3> QED
      BY <3>1 DEF yes, Scanned
  <2>5. reads' = [reads EXCEPT ![r] = [read EXCEPT !.todo = @ \ {s}, !.left = Items(stores, s), !.scanning = TRUE]]
    BY <1>2, <1>5 DEF Scan
  <2>6. reads' = [reads EXCEPT ![r] = new]
    BY <2>4, <2>5
  <2> HIDE DEF new
  <2> QED
    BY <1>0, <1>1, <1>5, <2>3, <2>6, OneReadMoves
<1>6. ASSUME read # Nil, NEW x \in read.left, SendEntity(r, x)
      PROVE  ReadsInv'
  <2> DEFINE longer == Append(read.buffer, x)
             more == ReadOf(read.asked, read.todo, read.left \ {x}, read.scanning, longer, read.sent, read.broken)
             flushed == ReadOf(read.asked, read.todo, read.left \ {x}, read.scanning, <<>>, Append(read.sent, longer), read.broken)
             new == IF Len(longer) = BufferSize THEN flushed ELSE more
  <2>1. [read EXCEPT !.left = @ \ {x}, !.buffer = Append(@, x)] = more
    <3>1. Buffered(read, x) = more
      BY <1>1, <1>6, ItemChange
    <3> QED
      BY <3>1 DEF Buffered
  <2>2. Flushed(more) = flushed
    BY FlushChange
  <2>3. reads' = [reads EXCEPT ![r] = new]
    <3>1. more.buffer = longer
      BY DEF ReadOf
    <3>2. reads' = [reads EXCEPT ![r] = IF Len(more.buffer) = BufferSize THEN Flushed(more) ELSE more]
      BY <1>6, <2>1 DEF SendEntity
    <3> QED
      BY <2>2, <3>1, <3>2
  <2>4. ReadInv(stores, new)
    BY <1>1, <1>6, SendKeepsRead
  <2> HIDE DEF new
  <2> QED
    BY <1>0, <1>1, <1>6, <2>3, <2>4, OneReadMoves
<1>7. CASE EndScan(r)
  <2> DEFINE new == ReadOf(read.asked, read.todo, {}, FALSE, <<>>, Append(read.sent, read.buffer), read.broken)
  <2>1. read # Nil /\ read.left = {} /\ reads' = [reads EXCEPT ![r] = [Flushed(read) EXCEPT !.scanning = FALSE]]
    BY <1>7 DEF EndScan
  <2>2. [Flushed(read) EXCEPT !.scanning = FALSE] = new
    <3>1. Flushed(read) = ReadOf(read.asked, read.todo, read.left, read.scanning, <<>>, Append(read.sent, read.buffer), read.broken)
      BY <1>1, <2>1, FlushChange
    <3> DEFINE no == FALSE
    <3> HIDE DEF no
    <3>2. [Flushed(read) EXCEPT !.scanning = no]
          = ReadOf(read.asked, read.todo, read.left, no, <<>>, Append(read.sent, read.buffer), read.broken)
      BY <3>1, EndChange
    <3> QED
      BY <2>1, <3>2 DEF no
  <2>3. ReadInv(stores, new)
    BY <1>1, <2>1, EndScanKeepsRead
  <2> HIDE DEF new
  <2> QED
    BY <1>0, <1>1, <2>1, <2>2, <2>3, OneReadMoves
<1>8. CASE BreakRead(r)
  <2> DEFINE new == ReadOf(read.asked, {}, {}, FALSE, read.buffer, read.sent, TRUE)
  <2>1. read # Nil /\ reads' = [reads EXCEPT ![r] = [read EXCEPT !.todo = {}, !.left = {}, !.scanning = FALSE, !.broken = TRUE]]
    BY <1>2, <1>8 DEF BreakRead
  <2>2. [read EXCEPT !.todo = {}, !.left = {}, !.scanning = FALSE, !.broken = TRUE] = new
    <3> DEFINE yes == TRUE
               no == FALSE
               none == {}
    <3> HIDE DEF yes, no, none
    <3>1. Broken(read, none, none, no, yes)
          = ReadOf(read.asked, none, none, no, read.buffer, read.sent, yes)
      BY <1>1, <2>1, BreakChange
    <3> QED
      BY <3>1 DEF yes, no, none, Broken
  <2>3. ReadInv(stores, new)
    BY <1>1, <2>1, BreakKeepsRead
  <2> HIDE DEF new
  <2> QED
    BY <1>0, <1>1, <2>1, <2>2, <2>3, OneReadMoves
<1>9. CASE EndRead(r)
  BY <1>0, <1>9, OneReadMoves DEF EndRead
<1> QED
  BY <1>3, <1>4, <1>5, <1>6, <1>7, <1>8, <1>9 DEF Read

\* A read that ends with its client has sent every row, default row and record
\* of the sources it was asked for, each once, in batches that fit the buffer,
\* whatever is written before and after it and whatever other reads do.
THEOREM ReadsComplete == Spec => []ReadsAreComplete
<1>1. Init => ReadsInv
  BY DEF Init, ReadsInv
<1>2. ASSUME ReadsInv, [Next]_vars
      PROVE  ReadsInv'
  <2> USE <1>2
  <2>1. ASSUME NEW r \in Readers, Read(r)
        PROVE  ReadsInv'
    BY <2>1, ReadKeepsReads
  <2>2. CASE UNCHANGED <<stores, batch, reads>>
    BY <2>2 DEF ReadsInv, Configured
  <2>3. ASSUME NEW w \in Walkers, Snapshot(w)
        PROVE  UNCHANGED <<stores, batch, reads>>
    BY <2>3 DEF Snapshot, BeginWalk, EndWalk, MapFault
  \* A batch begins only while nothing is read, and nothing is read during it.
  <2>4. CASE Write
    <3>1. reads' = reads /\ \A r \in Readers : reads[r] = Nil
      BY <2>4 DEF Write, BeginBatch, ApplyUpdate, RefuseUpdate, UpdateBeforeConfig, EndBatch, MayLock, Writing, ReadsInv
    <3> QED
      BY <3>1 DEF ReadsInv
  <2>5. ASSUME NEW c \in Configs, SetPipelineConfig(c)
        PROVE  ReadsInv'
    BY <2>5 DEF SetPipelineConfig, MayLock, ReadsInv
  <2> QED
    BY <2>1, <2>2, <2>3, <2>4, <2>5 DEF Next, vars
<1>3. ASSUME ReadsInv
      PROVE  ReadsAreComplete
  <2> SUFFICES ASSUME NEW r \in Readers, Finished(r), ~ reads[r].broken
               PROVE  /\ Contents(reads[r].sent) = AllItems(stores, reads[r].asked)
                      /\ SendsOnce(reads[r].sent)
                      /\ \A i \in DOMAIN reads[r].sent : Len(reads[r].sent[i]) <= BufferSize
    BY DEF ReadsAreComplete
  <2> DEFINE read == reads[r]
  <2>1. IsRead(stores, read) /\ Progress(stores, read) /\ read.left = {} /\ read.buffer = <<>> /\ read.todo = {}
    BY <1>3 DEF Finished, ReadsInv, ReadInv
  <2>2. AllItems(stores, {}) = {}
    BY DEF AllItems
  <2>3. Contents(Log(read)) = AllItems(stores, read.asked) /\ SendsOnce(Log(read))
    BY <2>1, <2>2 DEF Progress
  <2>4. Contents(read.sent) = Contents(Log(read)) /\ SendsOnce(read.sent)
    BY <2>1, <2>3, LogOfSent DEF Log, IsRead
  <2> QED
    BY <2>1, <2>3, <2>4 DEF IsRead
<1> QED
  BY <1>1, <1>2, <1>3, PTL DEF Spec
=============================================================================
