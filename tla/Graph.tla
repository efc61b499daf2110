-------------------------------- MODULE Graph --------------------------------
(***************************************************************************)
(* Results on their way into a graph_sink or a table_sink.  The writer of  *)
(* a flow (engine/flow.py, `_Table` and `_merged`) writes what several     *)
(* elements returned together; the bridge (core/data/bridge.py) writes     *)
(* what one did, under a commit key where it has one.  Either becomes one  *)
(* transaction, in the project's database                                  *)
(* (core/database/project_store_ops.py) or, through the bridge, in another *)
(* one (core/data/backends.py).  Rows go table by table; a row names other *)
(* rows by refs, which mean something within one element only, and become  *)
(* ids on the way; a receipt in the same transaction tells a group that is *)
(* given again.                                                            *)
(***************************************************************************)
EXTENDS Integers, Sequences, FiniteSets, FiniteSetsExt, SequencesExt

CONSTANTS
  Tables,      \* the nodes of the sink: numbers, in the order of their names
  Relations,   \* [from, to, deferred]: the rows of `from` name rows of `to`
  Sinks,       \* what each group may go to: see GraphAssumption
  Upserted,    \* the tables whose rows bring their key and are upserted
  NoRef,       \* a row that has no ref, or names no row
  Graphs,      \* what an element may return: the rows of each table
  Deliveries,  \* the groups of results to be written
  Width,       \* bound: the elements of a group the writer writes
  Callers,     \* the threads and processes that write
  CallsMax,    \* bound: how often one group is given
  TroublesMax, \* bound: writes that fail and processes that die
  Apart        \* no ref field is a column: refs may be told apart (flow.py, 239)

ASSUME GraphAssumption ==
  /\ Tables \subseteq Nat /\ Upserted \subseteq Tables
  /\ Relations \subseteq [from : Tables \ Upserted, to : Nat, deferred : BOOLEAN]
  /\ Sinks \subseteq [Deliveries ->
       [by : {"writer", "bridge"}, to : {"project", "other"}, kind : {"graph", "rows"},
        key : BOOLEAN, table : Tables, relations : SUBSET Relations]]
  /\ \A s \in Sinks, d \in Deliveries : s[d].by = "writer" => s[d].to = "project" /\ ~s[d].key
  /\ \A s \in Sinks, d \in Deliveries : s[d].kind = "rows" => s[d].relations = {}
  /\ Apart \in BOOLEAN /\ CallsMax \in Nat /\ TroublesMax \in Nat /\ Width \in Nat \ {0}

VARIABLES
  sink,      \* the sink of each group
  given,     \* what the elements of each group returned
  calls,     \* how often it was given to the store
  told,      \* what the store answered last: nothing, stored, refused or error
  db,        \* the committed rows of each table, in each of the two databases
  receipts,  \* the groups whose commit key is recorded
  runs,      \* how often each group was committed
  tx,        \* what each caller is doing
  lock,      \* who holds SQLite's lock for writing in each
  troubles   \* how many writes failed and callers died

outside == <<sink, given, calls>>
disk == <<db, receipts, runs>>
vars == <<outside, told, disk, tx, lock, troubles>>

Nobody == "nobody"
Idle == [phase |-> "idle"]
Stores == {"project", "other"}

\* The rows of a table_sink have nothing to resolve.
Flat == {d \in Deliveries : sink[d].kind = "rows"}
\* The groups whose receipt is looked for and left: rows upserted elsewhere have none.
Keyed == {d \in Deliveries : sink[d].key /\ ~(d \in Flat /\ sink[d].to = "other" /\ sink[d].table \in Upserted)}

Init ==
  /\ sink \in Sinks /\ given = [d \in Deliveries |-> <<>>] /\ calls = [d \in Deliveries |-> 0]
  /\ told = [d \in Deliveries |-> "nothing"]
  /\ db = [s \in Stores |-> [t \in Tables |-> {}]] /\ receipts = {} /\ runs = [d \in Deliveries |-> 0]
  /\ tx = [c \in Callers |-> Idle] /\ lock = [s \in Stores |-> Nobody] /\ troubles = 0

-----------------------------------------------------------------------------
(* The rows of a group, and in which order they go. *)

From(d, t, deferred) == {r \in sink[d].relations : r.from = t /\ r.deferred = deferred}

\* `_graph_spec_parts`: each relation is between tables of the sink.
Understood(d) == \A r \in sink[d].relations : r.to \in Tables

\* No table waits for itself, by the relations of the sink or, here, by those that are not deferred:
\* `_graph_topological_order` ends.
OrderedBy(relations) ==
  \A some \in SUBSET Tables \ {{}} :
    \E t \in some : \A r \in relations : r.from = t => r.to \notin some
NoCycle(d) == OrderedBy({r \in sink[d].relations : ~r.deferred})
NoCycleThere(d) == OrderedBy(sink[d].relations)

PlacedNot(group, place, ref) == <<ref>>

\* `apart`: with more than one element each ref gets its element's place in front.
Placed(group, place, ref) ==
  IF ref = NoRef \/ ~Apart \/ Len(group) = 1 THEN <<ref>> ELSE <<place, ref>>

\* `_merged`: the rows of all elements in turn; a row keeps the element it is of.
RowsOf(group, t) ==
  FlattenSeq([p \in DOMAIN group |-> [i \in DOMAIN group[p][t] |-> [place |-> p, row |-> group[p][t][i]]]])

\* `_graph_topological_order`: of the tables whose parents are written, the first by name.
NextTable(d, todo) == Min({t \in todo : \A r \in From(d, t, FALSE) : r.to \notin todo})

\* The tables whose ids are kept, a relation needing them.
Captured(d) == {r.to : r \in sink[d].relations} \cup {r.from : r \in {q \in sink[d].relations : q.deferred}}

-----------------------------------------------------------------------------
(* One transaction. *)

Of(c) == tx[c].of
Store(c) == sink[Of(c)].to
Group(c) == given[Of(c)]
OwnRef(c, x) == Placed(Group(c), x.place, x.row.ref)
Named(c, x, r) == Placed(Group(c), x.place, x.row.names[r])

\* `ref_maps`: the last row written under a ref has it.
Holders(c, t, ref) ==
  IF t \in Captured(Of(c)) THEN {i \in DOMAIN tx[c].wrote[t] : OwnRef(c, tx[c].wrote[t][i]) = ref} ELSE {}
IdOf(c, t, ref) == tx[c].wrote[t][Max(Holders(c, t, ref))].id

Known(c, x, r) == x.row.names[r] = NoRef \/ Holders(c, r.to, Named(c, x, r)) # {}
KeyOf(c, x, r) == IF x.row.names[r] = NoRef THEN 0 ELSE IdOf(c, r.to, Named(c, x, r))

TwiceInGroup(c, t) ==
  /\ t \in Captured(Of(c)) \ Upserted
  /\ \E i, j \in DOMAIN RowsOf(Group(c), t) :
       LET x == RowsOf(Group(c), t)[i]  y == RowsOf(Group(c), t)[j]
       IN i < j /\ x.row.ref # NoRef /\ x.row.ref = y.row.ref

\* Two rows under a ref that some relation resolves.
Twice(c, t) ==
  /\ t \in Captured(Of(c)) \ Upserted
  /\ \E i, j \in DOMAIN RowsOf(Group(c), t) :
       LET x == RowsOf(Group(c), t)[i]  y == RowsOf(Group(c), t)[j]
       IN i < j /\ x.row.ref # NoRef /\ OwnRef(c, x) = OwnRef(c, y)

Dangling(c, t) ==
  \E i \in DOMAIN RowsOf(Group(c), t), r \in From(Of(c), t, FALSE) : ~Known(c, RowsOf(Group(c), t)[i], r)

\* A row that names a later one, if it can be found again by a ref of its own.
Pending(x) == {r \in From(x.of, x.table, TRUE) : x.row.names[r] # NoRef /\ x.row.ref # NoRef}

Later(c) == UNION {{<<t, i>> : i \in DOMAIN tx[c].wrote[t]} : t \in Tables}
DanglingLater(c) ==
  \E p \in Later(c) : \E r \in Pending(tx[c].wrote[p[1]][p[2]]) : ~Known(c, tx[c].wrote[p[1]][p[2]], r)

\* The row `x` as it is stored: `i`th of its table, after those that are there.
Stored(c, t, x, i) ==
  [id |-> IF t \in Upserted THEN x.row.key ELSE i + Max({0} \cup {v.id : v \in db[Store(c)][t]}),
   table |-> t, of |-> Of(c), run |-> runs[Of(c)] + 1, place |-> x.place, row |-> x.row,
   fk |-> [r \in sink[Of(c)].relations |-> IF r \in From(Of(c), t, FALSE) THEN KeyOf(c, x, r) ELSE 0]]

Phase(c, phase) == [tx EXCEPT ![c].phase = phase]
Ends(c) ==
  /\ tx' = [tx EXCEPT ![c] = Idle]
  /\ lock' = [s \in Stores |-> IF lock[s] = c THEN Nobody ELSE lock[s]]
Answers(c, what) == told' = [told EXCEPT ![Of(c)] = what]
At(c, phase) == tx[c].phase = phase

-----------------------------------------------------------------------------
(* What the caller and the store do. *)

\* What an element returned for this sink: rows of one table, or of any.
Fitting(d) ==
  {g \in Graphs : d \in Flat => \A t \in Tables \ {sink[d].table} : g[t] = <<>>}

\* `_Table.write`: what the writer was given, together; the bridge writes what one element returned.
Groups(d) == SeqOf(Fitting(d), IF sink[d].by = "writer" THEN Width ELSE 1) \ {<<>>}

Nothing(group) == \A p \in DOMAIN group, t \in Tables : group[p][t] = <<>>

\* How far a graph comes by what its sink says, before any transaction: elsewhere keys that point
\* backwards are refused, and the order is found whether there are rows or not.
OpensHere(d, group) ==
  CASE ~Understood(d) -> "refused" [] Nothing(group) -> "answer" [] ~NoCycle(d) -> "refused" [] OTHER -> "check"
OpensThere(d, group) ==
  IF ~Understood(d) \/ (\E r \in sink[d].relations : r.deferred) \/ ~NoCycleThere(d) THEN "refused"
  ELSE IF Nothing(group) THEN "answer" ELSE "check"

\* `persist_output_spec`: a graph, or rows.
Opens(d, group) ==
  CASE d \in Flat -> IF Nothing(group) THEN "answer" ELSE "check"
    [] sink[d].to = "project" -> OpensHere(d, group)
    [] OTHER -> OpensThere(d, group)

\* A group is given to the store; one whose answer never came, or was an error, is given again where
\* a commit key tells it.
Deliver(c, d) ==
  /\ At(c, "idle") /\ told[d] \in {"nothing", "error"}
  /\ calls[d] < (IF sink[d].key THEN CallsMax ELSE 1)
  /\ \E group \in Groups(d) :
       /\ calls[d] > 0 => group = given[d]
       /\ given' = [given EXCEPT ![d] = group]
       /\ IF Opens(d, group) = "refused"
          THEN told' = [told EXCEPT ![d] = "refused"] /\ UNCHANGED tx
          ELSE /\ tx' = [tx EXCEPT ![c] = [of |-> d, wrote |-> [t \in Tables |-> <<>>], phase |-> Opens(d, group),
                            todo |-> {t \in Tables : \E p \in DOMAIN group : group[p][t] # <<>>}]]
               /\ UNCHANGED told
  /\ calls' = [calls EXCEPT ![d] = @ + 1]
  /\ UNCHANGED <<sink, disk, lock, troubles>>

\* `output_commits_exist`, of the project's store and of another, which says no whenever it cannot tell.
Recorded(d) == {d \in receipts}
RecordedThere(d) == {d \in receipts, FALSE}

\* Whoever has a group that may be stored asks for its receipt, and gives it no more if it is there.
Probe(c, d) ==
  /\ At(c, "idle") /\ sink[d].key /\ calls[d] > 0 /\ told[d] \in {"nothing", "error"}
  /\ TRUE \in (IF sink[d].to = "project" THEN Recorded(d) ELSE RecordedThere(d))
  /\ told' = [told EXCEPT ![d] = "stored"]
  /\ UNCHANGED <<outside, disk, tx, lock, troubles>>

Checks(c) ==
  /\ tx' = Phase(c, IF Of(c) \in Keyed \cap receipts THEN "answer" ELSE "write")
  /\ UNCHANGED <<outside, told, disk, lock, troubles>>
\* `_check_output_commit`, in either: outside any transaction, SQLite begins one with the first write.
Check(c) == At(c, "check") /\ Store(c) = "project" /\ Checks(c)
CheckThere(c) == At(c, "check") /\ Store(c) = "other" /\ Checks(c)

Writes(c, t) ==
  /\ lock[Store(c)] \in {Nobody, c} /\ lock' = [lock EXCEPT ![Store(c)] = c]
  /\ tx' = [tx EXCEPT ![c].todo = @ \ {t},
                      ![c].wrote[t] = [i \in DOMAIN RowsOf(Group(c), t) |-> Stored(c, t, RowsOf(Group(c), t)[i], i)],
                      ![c].phase = IF tx[c].todo # {t} THEN "write" ELSE IF Of(c) \in Flat THEN "commit" ELSE "close"]
  /\ UNCHANGED <<outside, told, disk, troubles>>

NextOf(c) == NextTable(Of(c), tx[c].todo)
WritesGraph(c, store) == At(c, "write") /\ Of(c) \notin Flat /\ Store(c) = store
WritesRows(c, store) == At(c, "write") /\ Of(c) \in Flat /\ Store(c) = store

\* One table of a graph: its refs resolved, its rows inserted or upserted.
WriteNode(c) ==
  /\ WritesGraph(c, "project")
  /\ ~Twice(c, NextOf(c)) /\ ~Dangling(c, NextOf(c)) /\ Writes(c, NextOf(c))

\* `_write_graph`: a ref that is there twice is not seen, the last row under it has it.
WriteNodeThere(c) ==
  /\ WritesGraph(c, "other")
  /\ ~Dangling(c, NextOf(c)) /\ Writes(c, NextOf(c))

\* `bulk_insert_rows`: one table, nothing to resolve.
WriteFlat(c) == WritesRows(c, "project") /\ Writes(c, sink[Of(c)].table)
WriteFlatThere(c) == WritesRows(c, "other") /\ Writes(c, sink[Of(c)].table)

\* `_apply_deferred_relations`: the keys that point backwards.
Close(c) ==
  /\ At(c, "close") /\ ~DanglingLater(c)
  /\ tx' = [tx EXCEPT ![c].phase = "commit",
              ![c].wrote = [t \in Tables |-> [i \in DOMAIN @[t] |->
                 [@[t][i] EXCEPT !.fk = [r \in sink[Of(c)].relations |->
                    IF r \in Pending(tx[c].wrote[t][i]) THEN KeyOf(c, tx[c].wrote[t][i], r) ELSE @[r]]]]]]
  /\ UNCHANGED <<outside, told, disk, lock, troubles>>

\* A ref twice, or one that names no row: the transaction is undone.
Refuse(c) ==
  /\ \/ WritesGraph(c, "project") /\ (Twice(c, NextOf(c)) \/ Dangling(c, NextOf(c)))
     \/ WritesGraph(c, "other") /\ Dangling(c, NextOf(c))
     \/ At(c, "close") /\ DanglingLater(c)
  /\ Answers(c, "refused") /\ Ends(c)
  /\ UNCHANGED <<outside, disk, troubles>>

SignsAgain(d) == TRUE

\* `_record_output_commit`: the primary key of a receipt takes each but once.
Signs(d) == d \notin Keyed \cap receipts
SignsThere(d) == d \notin Keyed \cap receipts

\* An upserted row takes the place of the one with its key, the last given stays.
Replaces(t, i, v, rows) ==
  t \in Upserted /\ \E j \in DOMAIN rows : rows[j].id = v.id /\ j > i

Commits(c) ==
  /\ db' = [db EXCEPT ![Store(c)] = [t \in Tables |->
       LET rows == tx[c].wrote[t]
       IN {v \in @[t] : ~Replaces(t, 0, v, rows)}
            \cup {rows[i] : i \in {i \in DOMAIN rows : ~Replaces(t, i, rows[i], rows)}}]]
  /\ receipts' = receipts \cup ({Of(c)} \cap Keyed)
  /\ runs' = [runs EXCEPT ![Of(c)] = @ + 1]
  /\ tx' = Phase(c, "answer") /\ lock' = [lock EXCEPT ![Store(c)] = Nobody]
  /\ UNCHANGED <<outside, told, troubles>>

Commit(c) == At(c, "commit") /\ Store(c) = "project" /\ Signs(Of(c)) /\ Commits(c)
CommitThere(c) == At(c, "commit") /\ Store(c) = "other" /\ SignsThere(Of(c)) /\ Commits(c)

\* Its receipt is there by now: another one wrote the group since the check.
Doubled(c) ==
  /\ At(c, "commit") /\ ~(IF Store(c) = "project" THEN Signs(Of(c)) ELSE SignsThere(Of(c)))
  /\ Answers(c, "error") /\ Ends(c)
  /\ UNCHANGED <<outside, disk, troubles>>

Answer(c) ==
  /\ At(c, "answer") /\ Answers(c, "stored") /\ Ends(c)
  /\ UNCHANGED <<outside, disk, troubles>>

-----------------------------------------------------------------------------
(* What goes wrong. *)

Troubled == troubles < TroublesMax /\ troubles' = troubles + 1

\* A full disk, or 30 seconds without the lock: rolled back, and raised.
Fail(c) ==
  /\ Troubled /\ tx[c].phase \in {"check", "write", "close", "commit"}
  /\ Answers(c, "error") /\ Ends(c)
  /\ UNCHANGED <<outside, disk>>

\* The process dies: what it had not committed is gone, what it had nobody is told.
Crash(c) ==
  /\ Troubled /\ ~At(c, "idle") /\ Ends(c)
  /\ UNCHANGED <<outside, told, disk>>

Next ==
  \E c \in Callers :
    \/ \E d \in Deliveries : Deliver(c, d) \/ Probe(c, d)
    \/ Check(c) \/ CheckThere(c) \/ WriteNode(c) \/ WriteNodeThere(c) \/ WriteFlat(c) \/ WriteFlatThere(c)
    \/ Close(c) \/ Refuse(c) \/ Commit(c) \/ CommitThere(c) \/ Doubled(c) \/ Answer(c) \/ Fail(c) \/ Crash(c)

Spec == Init /\ [][Next]_vars

-----------------------------------------------------------------------------
(* Properties. *)

TypeOK ==
  /\ \A d \in Deliveries : told[d] \in {"nothing", "stored", "refused", "error"} /\ given[d] \in SeqOf(Graphs, Width)
  /\ sink \in Sinks /\ receipts \subseteq Keyed /\ lock \in [Stores -> Callers \cup {Nobody}] /\ troubles \in 0 .. TroublesMax
  /\ \A c \in Callers : tx[c].phase \in {"idle", "check", "write", "close", "commit", "answer"}
  /\ \A s \in Stores, t \in Tables : \A v, w \in db[s][t] : v.id = w.id => v = w

\* The row that the row `w` names by `r`, as its own element described it.
IsNamed(v, w, r) ==
  LET ref == w.row.names[r]
  IN IF r.to \in Upserted
     THEN \E i \in DOMAIN given[w.of][w.place][r.to] :
            LET x == given[w.of][w.place][r.to][i] IN x.ref = ref /\ x.key = v.id
     ELSE v.of = w.of /\ v.run = w.run /\ v.place = w.place /\ v.row.ref = ref

\* The keys of a committed row are those of the rows its own element named, however many elements
\* were written with it and used the same refs, for relations forward and backward ("the deferred
\* one leaves the parent pointing at the right child", tests/test_graph_deferred_relation.py).
AsDescribed ==
  \A s \in Stores, t \in Tables \ Upserted : \A w \in db[s][t] : \A r \in From(w.of, t, FALSE) \cup Pending(w) :
    w.row.names[r] # NoRef => \E v \in db[s][r.to] : v.id = w.fk[r] /\ IsNamed(v, w, r)

\* A group is in the database whole or not at all, once for each time it was committed, and once only
\* under a commit key, whoever died, was impatient or was not answered; who was told so finds it there.
WholeAndOnce ==
  \A d \in Deliveries :
    /\ d \in Keyed => runs[d] <= 1
    /\ told[d] = "stored" => runs[d] > 0 \/ \A t \in Tables : RowsOf(given[d], t) = <<>>
    /\ \A n \in 1 .. CallsMax, p \in DOMAIN given[d], t \in Tables \ Upserted :
         Cardinality({w \in db[sink[d].to][t] : w.of = d /\ w.run = n /\ w.place = p})
           = IF n <= runs[d] THEN Len(given[d][p][t]) ELSE 0
    /\ runs[d] > 0 => \A t \in Upserted : \A i \in DOMAIN RowsOf(given[d], t) :
         \E w \in db[sink[d].to][t] : w.id = RowsOf(given[d], t)[i].row.key

\* What an element returned for `d` cannot be stored by itself.  Only the project's store sees a ref twice.
Faulty(d, g) ==
  \E t \in Tables : \E i \in DOMAIN g[t] :
    \/ /\ sink[d].to = "project" /\ t \in Captured(d) \ Upserted
       /\ g[t][i].ref # NoRef /\ \E j \in DOMAIN g[t] : j # i /\ g[t][j].ref = g[t][i].ref
    \/ \E r \in From(d, t, FALSE) \cup From(d, t, TRUE) :
         /\ g[t][i].names[r] # NoRef /\ (r.deferred => g[t][i].ref # NoRef)
         /\ ~\E j \in DOMAIN g[r.to] : g[r.to][j].ref = g[t][i].names[r]

\* Nothing can be stored through it: its tables have no order, or keys point backwards elsewhere.
BadSink(d) ==
  ~Understood(d) \/ ~NoCycle(d) \/ (sink[d].to = "other" /\ \E r \in sink[d].relations : r.deferred)

\* A group is refused for its sink, or for what one of its elements returned, and never for the
\* company it was written in; it is stored only where each of them could be stored by itself.
RefusedForCause ==
  \A d \in Deliveries \ Flat :
    LET faulty == BadSink(d) \/ \E p \in DOMAIN given[d] : Faulty(d, given[d][p])
    IN (told[d] = "refused" => faulty) /\ (runs[d] > 0 => ~faulty)
=============================================================================
