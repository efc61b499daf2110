------------------------------ MODULE Volumes -------------------------------
(***************************************************************************)
(* The payload store of a project (payloads.py): needles appended to       *)
(* volume files beside the database, the rows that say where they are, the *)
(* transactions of the callers that store them, and the maintenance that   *)
(* runs next to them in this and in other processes: recovery, release,    *)
(* compaction, check and repair.                                           *)
(*                                                                         *)
(* A store is the PayloadStore of one process.  SQLite lets one            *)
(* transaction write at a time: from its first write to its end `holder`   *)
(* has the database and `work` is what it would commit; everybody reads    *)
(* `db`, and each query reads on its own.  All payloads are of one series; *)
(* a needle has the size 1 and its compression is left out.  A step of     *)
(* this model is one system call or one statement wherever another process *)
(* could come between.                                                     *)
(***************************************************************************)
EXTENDS Integers, Sequences, FiniteSets, SequencesExt

CONSTANTS
  Needles,     \* what is stored: a payload, or the payloads of a group
  Parts,       \* the ids of the payloads of each needle
  Stores,      \* processes that have the store open now and then
  Txs,         \* transactions that store payloads
  Keepers,     \* those of them that do maintenance
  Home,        \* the store each of them belongs to
  Readers,     \* threads that read payloads
  Where,       \* the store each of them belongs to
  VolumeSize,  \* how many needles fill a volume (`VOLUME_SIZE`)
  Retries,     \* how often a reader follows a needle that moved
  Fickle,      \* payloads the application may come to refer to no more, or again
  VolumesMax,  \* bound: ids of volumes
  JobsMax,     \* bound: how often maintenance is started
  PutsMax,     \* bound: how many transactions are begun
  FallsMax,    \* bound: stores closed, processes killed, powers lost
  Prompt,      \* no transaction and no check lasts longer than ORPHAN_GRACE
  Swift,       \* recovery finds the volumes it listed still active
  Lasting      \* a commit survives a loss of power

ASSUME VolumesAssumption ==
  /\ \A m, n \in Needles : m # n => Parts[m] \cap Parts[n] = {}
  /\ Keepers \subseteq Stores /\ Fickle \subseteq UNION {Parts[n] : n \in Needles}
  /\ Home \in [Txs -> Stores] /\ Where \in [Readers -> Stores]
  /\ {VolumeSize, Retries, VolumesMax, JobsMax, PutsMax, FallsMax} \subseteq Nat
  /\ {Prompt, Swift, Lasting} \subseteq BOOLEAN

VARIABLES
  file,     \* the volume files
  lock,     \* who holds the lock of each file
  db,       \* the database as committed: ms_volumes, ms_payloads, references
  held,     \* the database as it was when it was last on disk for sure
  holder,   \* who is in a transaction that wrote
  work,     \* the database as that transaction sees it
  up,       \* stores that are open
  free,     \* `_free`: active volumes of a store no transaction appends to
  end,      \* `volume.end`, as the owner of the volume has it
  tx,       \* the transactions that store payloads
  keep,     \* the maintenance each store is at
  reader,   \* what each reader is at
  puts, jobs, falls

store == <<file, lock>>
base == <<db, held, holder, work>>
own == <<up, free, end>>
count == <<puts, jobs, falls>>
vars == <<store, base, own, tx, keep, reader, count>>

Vols == 1 .. VolumesMax
Ids == UNION {Parts[n] : n \in Needles}
None == 0
Nobody == "nobody"
Hole == "hole"
Of(p) == CHOOSE n \in Needles : p \in Parts[n]
At(v, i) == [vol |-> v, at |-> i]
NoRow == At(0, 0)
Absent == [there |-> FALSE, entry |-> FALSE, data |-> <<>>, synced |-> 0]

NoTx == [pc |-> "idle", leased |-> None, start |-> [v \in Vols |-> -1], created |-> {}, retired |-> {},
           placed |-> <<>>, wrote |-> 0]
Rest == [op |-> "none", pc |-> "rest", then |-> "done", vols |-> {}, list |-> {}, targets |-> <<>>,
           moved |-> {}, ids |-> {}, old |-> {}, broken |-> {}, orphans |-> {}, trash |-> {}, since |-> <<>>]
Idle == [pc |-> "idle", id |-> None, loc |-> NoRow, left |-> 0]
-----------------------------------------------------------------------------
(* The database. *)

RowsIn(d, v) == {p \in Ids : d.row[p].vol = v}
Unreferenced(d) == {p \in Ids : d.row[p] # NoRow /\ p \notin d.refs}
\* `max(offset + length)` of the rows of a volume.
EndOf(d, v) == LET S == {d.row[p].at : p \in RowsIn(d, v)} IN
                 IF S = {} THEN 0 ELSE CHOOSE i \in S : \A j \in S : j <= i
InState(d, s) == {v \in Vols : d.vol[v] = s}
MayWrite(x) == holder \in {Nobody, x}
Mine(x) == IF holder = x THEN work ELSE db
Writes(x, d) == holder' = x /\ work' = d /\ UNCHANGED <<db, held>>
Commits(d) == /\ db' = d /\ work' = d /\ holder' = Nobody
                 /\ held' \in IF Lasting THEN {d} ELSE {held, d}
TrashEmpty(d, only) ==
  [d EXCEPT !.vol = [v \in Vols |-> IF v \in only /\ d.vol[v] = "sealed" /\ RowsIn(d, v) = {}
                                    THEN "trash" ELSE d.vol[v]]]
Sealed(d, S) == [d EXCEPT !.vol = [v \in Vols |-> IF v \in S THEN "sealed" ELSE @[v]]]

\* The id `_create` gets: the next one whose file is not there, left by one who died.
NextId(d) == LET S == {v \in Vols : v > d.seq /\ ~file[v].there} IN
                 IF S = {} THEN None ELSE CHOOSE v \in S : \A w \in S : v <= w
Added(d, v) == [d EXCEPT !.vol[v] = "active", !.seq = v]
Created(v, s) ==
  /\ file' = [file EXCEPT ![v] = [Absent EXCEPT !.there = TRUE]]
  /\ lock' = [lock EXCEPT ![v] = s]

Unlinked(f) == [f EXCEPT !.there = FALSE]
Cut(f, n) == [f EXCEPT !.data = SubSeq(@, 1, IF n < Len(@) THEN n ELSE Len(@)),
                           !.synced = IF n < @ THEN n ELSE @]
\* Bytes written at an offset; what lies between them and the old end is a hole.
Written(f, i, n) ==
  [f EXCEPT !.data = [j \in 1 .. (IF i > Len(@) THEN i ELSE Len(@)) |->
                        IF j = i THEN n ELSE IF j <= Len(@) THEN @[j] ELSE Hole]]
\* Mutant: the name of a new file is not on disk with its bytes.
SyncedNameless(f) == [f EXCEPT !.synced = Len(f.data)]
Synced(f) == [f EXCEPT !.synced = Len(f.data), !.entry = TRUE]

Init ==
  /\ file = [v \in Vols |-> Absent] /\ lock = [v \in Vols |-> Nobody]
  /\ db = [vol |-> [v \in Vols |-> "none"], row |-> [p \in Ids |-> NoRow], refs |-> {},
           seq |-> 0, gone |-> {}]
  /\ held = db /\ holder = Nobody /\ work = db
  /\ up = Stores /\ free = [s \in Stores |-> {}] /\ end = [v \in Vols |-> 0]
  /\ tx = [t \in Txs |-> NoTx] /\ keep = [s \in Stores |-> Rest]
  /\ reader = [r \in Readers |-> Idle]
  /\ puts = 0 /\ jobs = 0 /\ falls = 0
-----------------------------------------------------------------------------
\* The store is open, its constructor returned.
Ready(s) == s \in up /\ keep[s].op # "open"

(* Storing: `put` in a transaction of the caller. *)

Begin(t) ==
  /\ tx[t].pc = "idle" /\ Ready(Home[t]) /\ puts < PutsMax
  /\ tx' = [tx EXCEPT ![t].pc = "put"]
  /\ puts' = puts + 1
  /\ UNCHANGED <<store, base, own, keep, reader, jobs, falls>>

\* A needle is stored once: the ids of those that went are not given again.
Taken(n) == \/ \E p \in Parts[n] : work.row[p] # NoRow \/ p \in work.gone
            \/ \E u \in Txs : \E i \in DOMAIN tx[u].placed : tx[u].placed[i].of = n
MayPlace(t, n) == tx[t].pc \in {"put", "stored"} /\ ~Taken(n)

Candidates(t) == IF tx[t].leased # None THEN {tx[t].leased}
                 ELSE IF free[Home[t]] # {} THEN free[Home[t]] ELSE {None}
\* Needles differ in size: one that does not fit finds a volume that is not empty full.
Fits(v) == v # None /\ end[v] < VolumeSize
Leases(t, v) == [tx[t] EXCEPT !.leased = v, !.start[v] = IF @ = -1 THEN end[v] ELSE @]
Places(r, v, i, n) == [r EXCEPT !.pc = "put", !.placed = Append(@, [of |-> n, loc |-> At(v, i)])]

Place(t, n) ==
  /\ MayPlace(t, n)
  /\ \E v \in Candidates(t) :
       /\ Fits(v)
       /\ tx' = [tx EXCEPT ![t] = Places(Leases(t, v), v, end[v] + 1, n)]
       /\ free' = [free EXCEPT ![Home[t]] = @ \ {v}]
       /\ end' = [end EXCEPT ![v] = @ + 1]
  /\ UNCHANGED <<store, base, up, keep, reader, count>>

\* The volume is full, or there is none: the full one is sealed, a new one is made.
PlaceInNew(t, n) ==
  /\ MayPlace(t, n) /\ MayWrite(t)
  /\ \E v \in Candidates(t) :
       LET d == IF v = None THEN Mine(t) ELSE Sealed(Mine(t), {v})
           w == NextId(d)
           l == IF v = None THEN tx[t] ELSE [Leases(t, v) EXCEPT !.retired = @ \cup {v}] IN
       /\ v # None => end[v] > 0
       /\ w # None
       /\ Writes(t, Added(d, w))
       /\ Created(w, Home[t])
       /\ tx' = [tx EXCEPT ![t] = Places([l EXCEPT !.leased = w, !.created = @ \cup {w}, !.start[w] = 0], w, 1, n)]
       /\ free' = [free EXCEPT ![Home[t]] = @ \ {v}]
       /\ end' = [end EXCEPT ![w] = 1]
  /\ UNCHANGED <<up, keep, reader, count>>

Pending(r) == SubSeq(r.placed, r.wrote + 1, Len(r.placed))
VolsOf(q) == {q[i].loc.vol : i \in DOMAIN q}
\* The volume files with the first `k` needles of `q` in.
With(f, q, k) == FoldLeft(LAMBDA g, x : [g EXCEPT ![x.loc.vol] = Written(@, x.loc.at, x.of)], f, SubSeq(q, 1, k))

Appends(t) ==
  /\ tx[t].pc = "put" /\ Pending(tx[t]) # <<>>
  /\ file' = With(file, Pending(tx[t]), Len(Pending(tx[t])))
  /\ tx' = [tx EXCEPT ![t].pc = "written"]
  /\ UNCHANGED <<lock, base, own, keep, reader, count>>

\* A full disk: some of it got in, and the caller rolls back.
AppendFails(t) ==
  /\ tx[t].pc = "put"
  /\ \E k \in 0 .. Len(Pending(tx[t])) - 1 : file' = With(file, Pending(tx[t]), k)
  /\ tx' = [tx EXCEPT ![t].pc = "failed"]
  /\ UNCHANGED <<lock, base, own, keep, reader, count>>

SyncedAll(S) == [v \in Vols |-> IF v \in S THEN Synced(file[v]) ELSE file[v]]
RowsOf(d, q) == [d EXCEPT !.row = [p \in Ids |->
                   LET S == {i \in DOMAIN q : p \in Parts[q[i].of]} IN
                   IF S = {} THEN d.row[p] ELSE q[CHOOSE i \in S : TRUE].loc]]

\* The bytes and the new files are on disk before the rows are in the transaction.
StoreRows(t) ==
  /\ tx[t].pc = "written" /\ MayWrite(t)
  /\ file' = SyncedAll(VolsOf(Pending(tx[t])))
  /\ Writes(t, RowsOf(Mine(t), Pending(tx[t])))
  /\ tx' = [tx EXCEPT ![t].pc = "stored", ![t].wrote = Len(tx[t].placed)]
  /\ UNCHANGED <<lock, own, keep, reader, count>>

\* The rows of the tables that carry the payloads are in the same transaction.
Commit(t) ==
  /\ tx[t].pc = "stored" /\ holder = t
  /\ Commits([work EXCEPT !.refs = @ \cup UNION {Parts[tx[t].placed[i].of] : i \in DOMAIN tx[t].placed}])
  /\ tx' = [tx EXCEPT ![t].pc = "committed"]
  /\ UNCHANGED <<store, own, keep, reader, count>>

Rollback(t) ==
  /\ tx[t].pc \in {"put", "written", "failed", "stored"}
  /\ IF holder = t THEN holder' = Nobody /\ work' = db /\ UNCHANGED <<db, held>> ELSE UNCHANGED base
  /\ tx' = [tx EXCEPT ![t].pc = "undone"]
  /\ UNCHANGED <<store, own, keep, reader, count>>

Unlocked(S) == [v \in Vols |-> IF v \in S THEN Nobody ELSE lock[v]]
Ended(S) == [v \in Vols |-> IF v \in S THEN 0 ELSE end[v]]

EndCommitted(t) ==
  /\ tx[t].pc = "committed"
  /\ lock' = Unlocked(tx[t].retired)
  /\ end' = Ended(tx[t].retired)
  /\ free' = [free EXCEPT ![Home[t]] = (@ \cup {tx[t].leased}) \ {None}]
  /\ tx' = [tx EXCEPT ![t] = NoTx]
  /\ UNCHANGED <<file, base, up, keep, reader, count>>

Started(r) == {v \in Vols : r.start[v] # -1}

\* What it created goes, what it appended to is cut back and free again.
EndUndone(t) ==
  LET r == tx[t]
      back == Started(r) \ r.created IN
  /\ r.pc = "undone"
  /\ file' = [v \in Vols |-> IF v \in r.created THEN Unlinked(file[v])
                             ELSE IF v \in back THEN Cut(file[v], r.start[v]) ELSE file[v]]
  /\ lock' = Unlocked(r.created)
  /\ end'  = [v \in Vols |-> IF v \in Started(r) THEN r.start[v] ELSE end[v]]
  /\ free' = [free EXCEPT ![Home[t]] = @ \cup back]
  /\ tx'   = [tx EXCEPT ![t] = NoTx]
  /\ UNCHANGED <<base, up, keep, reader, count>>
-----------------------------------------------------------------------------
(* Reading: a row is looked up, then its volume opened and read. *)

Locate(r, p) ==
  /\ Ready(Where[r]) /\ db.row[p] # NoRow
  /\ reader' = [reader EXCEPT ![r] = [pc |-> "located", id |-> p, loc |-> db.row[p], left |-> Retries]]
  /\ UNCHANGED <<store, base, own, tx, keep, count>>

Holds(v, i, n) == i <= Len(file[v].data) /\ file[v].data[i] = n

\* A descriptor that is still open in this process (`_fds`) reads a file that is gone.
Reads(r) ==
  LET m == reader[r] IN
  /\ m.pc = "located"
  /\ reader' = [reader EXCEPT ![r] = IF Holds(m.loc.vol, m.loc.at, Of(m.id)) THEN Idle ELSE [m EXCEPT !.pc = "corrupt"]]
  /\ UNCHANGED <<store, base, own, tx, keep, count>>

\* Mutant: the row is not looked up again.
FollowsNot(r) ==
  /\ reader[r].pc = "located" /\ ~file[reader[r].loc.vol].there
  /\ reader' = [reader EXCEPT ![r].pc = "corrupt"]
  /\ UNCHANGED <<store, base, own, tx, keep, count>>
\* The volume is gone: its row may say where the needle is now.
Follows(r) ==
  LET m == reader[r] IN
  /\ m.pc = "located" /\ ~file[m.loc.vol].there
  /\ reader' = [reader EXCEPT ![r] =
                  IF m.left > 0 /\ db.row[m.id] \notin {NoRow, m.loc}
                  THEN [m EXCEPT !.loc = db.row[m.id], !.left = @ - 1] ELSE [m EXCEPT !.pc = "corrupt"]]
  /\ UNCHANGED <<store, base, own, tx, keep, count>>
-----------------------------------------------------------------------------
(* Maintenance: one call at a time in each store. *)

Goes(s, r) == keep' = [keep EXCEPT ![s] = r]
Sys(s) == UNCHANGED <<own, tx, reader, count>>
Quiet == (\A t \in Txs : tx[t].pc = "idle") /\ (\A s \in Stores : keep[s].op = "none")
Now == <<puts, falls, free>>

Calls(s, r) ==
  /\ s \in Keepers /\ Ready(s) /\ keep[s].op = "none" /\ jobs < JobsMax
  /\ jobs' = jobs + 1
  /\ Goes(s, r)
  /\ UNCHANGED <<store, base, own, tx, reader, puts, falls>>
Compact(s) == Calls(s, [Rest EXCEPT !.op = "compact", !.pc = "trash", !.then = "pick"])
Check(s) == Calls(s, [Rest EXCEPT !.op = "check", !.pc = "query"])
Repair(s) == Calls(s, [Rest EXCEPT !.op = "repair", !.pc = "query", !.since = IF Quiet THEN <<jobs + 1, Now>> ELSE <<>>])
Release(s) == \E I \in {{p} : p \in Ids} \cup {Unreferenced(db)} :
                Calls(s, [Rest EXCEPT !.op = "release", !.pc = "release", !.ids = I])

Finish(s) ==
  /\ keep[s].pc = "done"
  /\ Goes(s, Rest)
  /\ UNCHANGED <<store, base>> /\ Sys(s)

\* `_recover`: the active volumes are listed, then those nobody owns are cut and sealed.
ListActive(s) ==
  /\ keep[s].pc = "list" 
  /\ Goes(s, [keep[s] EXCEPT !.pc = "seal", !.vols = IF Swift THEN {} ELSE InState(db, "active")])
  /\ UNCHANGED <<store, base>> /\ Sys(s)

\* Mutant: the lock is not tried.
AbandonedOrNot(S) == {v \in S : file[v].there}
Abandoned(S) == {v \in S : file[v].there /\ lock[v] = Nobody}

SealActive(s) ==
  LET L == IF Swift THEN InState(db, "active") ELSE keep[s].vols
      S == {v \in Abandoned(L) : db.vol[v] # "none"} IN
  /\ keep[s].pc = "seal" /\ holder = Nobody
  /\ file' = [v \in Vols |-> IF v \in S THEN Cut(file[v], EndOf(db, v)) ELSE file[v]]
  /\ Commits(Sealed(db, S))
  /\ Goes(s, [keep[s] EXCEPT !.pc = IF keep[s].op = "repair" THEN "release" ELSE "done"])
  /\ UNCHANGED <<lock>> /\ Sys(s)

\* Mutant: whether something refers to a row again is not asked.
ReleaseListed(s) ==
  LET S == keep[s].ids
      d == [db EXCEPT !.row = [p \in Ids |-> IF p \in S THEN NoRow ELSE @[p]], !.gone = @ \cup S] IN
  /\ keep[s].pc = "release" /\ holder = Nobody
  /\ Commits(TrashEmpty(d, Vols))
  /\ Goes(s, [keep[s] EXCEPT !.pc = "trash", !.ids = {}, !.then = IF keep[s].op = "repair" THEN "orphans" ELSE "done"])
  /\ UNCHANGED store /\ Sys(s)
\* `release`: rows nothing refers to by now go, and the volumes that leaves empty.
ReleaseRows(s) ==
  LET S == Unreferenced(db) \cap keep[s].ids
      d == [db EXCEPT !.row = [p \in Ids |-> IF p \in S THEN NoRow ELSE @[p]], !.gone = @ \cup S] IN
  /\ keep[s].pc = "release" /\ holder = Nobody
  /\ Commits(TrashEmpty(d, Vols))
  /\ Goes(s, [keep[s] EXCEPT !.pc = "trash", !.ids = {}, !.then = IF keep[s].op = "repair" THEN "orphans" ELSE "done"])
  /\ UNCHANGED <<store>> /\ Sys(s)

\* `_empty_trash`: the files go, one by one, and then the rows.
ListTrash(s) ==
  LET S == InState(db, "trash") IN
  /\ keep[s].pc = "trash"
  /\ Goes(s, [keep[s] EXCEPT !.trash = S, !.pc = IF S = {} THEN keep[s].then ELSE "unlink"])
  /\ UNCHANGED <<store, base>> /\ Sys(s)

Unlink(s) ==
  /\ keep[s].pc = "unlink"
  /\ \E v \in keep[s].trash : file[v].there /\ file' = [file EXCEPT ![v] = Unlinked(@)]
  /\ UNCHANGED <<lock, base, keep>> /\ Sys(s)

DropTrash(s) ==
  /\ keep[s].pc = "unlink" /\ holder = Nobody
  /\ \A v \in keep[s].trash : ~file[v].there
  /\ Commits([db EXCEPT !.vol = [v \in Vols |-> IF v \in keep[s].trash /\ @[v] = "trash" THEN "none" ELSE @[v]]])
  /\ Goes(s, [keep[s] EXCEPT !.pc = keep[s].then, !.trash = {}])
  /\ UNCHANGED <<store>> /\ Sys(s)

\* `compact`: sealed volumes are picked and, later, their rows are read.
Pick(s) ==
  /\ keep[s].pc = "pick"
  /\ \E S \in SUBSET InState(db, "sealed") :
       Goes(s, [keep[s] EXCEPT !.vols = S, !.then = "done", !.pc = IF S = {} THEN "trash" ELSE "rows"])
  /\ UNCHANGED <<store, base>> /\ Sys(s)

ReadRows(s) ==
  /\ keep[s].pc = "rows"
  /\ Goes(s, [keep[s] EXCEPT !.pc = "copy",
                !.list = {[of |-> Of(p), loc |-> db.row[p]] : p \in UNION {RowsIn(db, v) : v \in keep[s].vols}}])
  /\ UNCHANGED <<store, base>> /\ Sys(s)

Target(s) == IF keep[s].targets = <<>> THEN None ELSE Last(keep[s].targets)
NoRoom(s) == Target(s) # None => end[Target(s)] > 0
Legible(x) == Holds(x.loc.vol, x.loc.at, x.of)

\* `_new_volume`: its row is committed by itself, its lock keeps recovery off it.
NewTarget(s) ==
  LET v == NextId(db) IN
  /\ keep[s].pc = "copy" /\ NoRoom(s) /\ (\E x \in keep[s].list : Legible(x))
  /\ holder = Nobody /\ v # None
  /\ Writes(s, Added(db, v))
  /\ Created(v, s)
  /\ end' = [end EXCEPT ![v] = 0]
  /\ Goes(s, [keep[s] EXCEPT !.pc = "register", !.targets = Append(@, v)])
  /\ UNCHANGED <<up, free, tx, reader, count>>

Register(s) ==
  /\ keep[s].pc = "register"
  /\ Commits(work)
  /\ file' = [file EXCEPT ![Target(s)] = Synced(@)]
  /\ Goes(s, [keep[s] EXCEPT !.pc = "copy"])
  /\ UNCHANGED <<lock>> /\ Sys(s)

\* A needle goes over once, with the rows of all its parts.
Copy(s) ==
  LET v == Target(s) IN
  /\ keep[s].pc = "copy" /\ Fits(v)
  /\ \E x \in keep[s].list :
       /\ Legible(x)
       /\ file' = [file EXCEPT ![v] = Written(@, end[v] + 1, x.of)]
       /\ Goes(s, [keep[s] EXCEPT !.list = @ \ {x}, !.moved = @ \cup {[of |-> x.of, from |-> x.loc, to |-> At(v, end[v] + 1)]}])
  /\ end' = [end EXCEPT ![v] = @ + 1]
  /\ UNCHANGED <<lock, base, up, free, tx, reader, count>>

\* All is copied but what cannot be read: it stays where it is.
Copied(s) ==
  /\ keep[s].pc = "copy" /\ \A x \in keep[s].list : ~(Legible(x) /\ file[x.loc.vol].there)
  /\ file' = SyncedAll(ToSet(keep[s].targets))
  /\ Goes(s, [keep[s] EXCEPT !.pc = "swap", !.list = {}])
  /\ UNCHANGED <<lock, base>> /\ Sys(s)

\* Compare and set: a row that was released or moved meanwhile stays as it is.
Swapped(d, m) == [d EXCEPT !.row = [p \in Ids |->
                    LET S == {x \in m : p \in Parts[x.of] /\ x.from = d.row[p]} IN
                    IF S = {} THEN d.row[p] ELSE (CHOOSE x \in S : TRUE).to]]

Swap(s) ==
  /\ keep[s].pc = "swap" /\ holder = Nobody
  /\ Commits(TrashEmpty(Sealed(Swapped(db, keep[s].moved), ToSet(keep[s].targets)), keep[s].vols))
  /\ Goes(s, [keep[s] EXCEPT !.pc = "close", !.moved = {}, !.vols = {}])
  /\ UNCHANGED <<store>> /\ Sys(s)

CloseTargets(s) ==
  /\ keep[s].pc = "close"
  /\ lock' = Unlocked(ToSet(keep[s].targets))
  /\ end' = Ended(ToSet(keep[s].targets))
  /\ Goes(s, [keep[s] EXCEPT !.pc = "trash", !.targets = <<>>])
  /\ UNCHANGED <<file, base, up, free, tx, reader, count>>

\* A full disk or a busy database: the targets are closed and stay active.
CompactFails(s) ==
  /\ keep[s].pc \in {"copy", "swap"}
  /\ lock' = Unlocked(ToSet(keep[s].targets))
  /\ end' = Ended(ToSet(keep[s].targets))
  /\ Goes(s, Rest)
  /\ UNCHANGED <<file, base, up, free, tx, reader, count>>

\* Files a check may find older than ORPHAN_GRACE seconds.
MayBeOld == {v \in Vols : Prompt => file[v].there /\ \A t \in Txs : v \notin Started(tx[t])}
Unowned(s, v) == file[v].there /\ lock[v] = Nobody /\ (v \in keep[s].old \/ ~Prompt)

\* `check`: the volumes with their rows, then the files, one question after the other.
Query(s) ==
  /\ keep[s].pc = "query"
  /\ Goes(s, [keep[s] EXCEPT !.pc = "stat", !.vols = Vols \ InState(db, "none"), !.ids = Unreferenced(db), !.old = MayBeOld,
                !.list = {[v |-> v, end |-> EndOf(db, v)] : v \in {w \in Vols : RowsIn(db, w) # {}}}])
  /\ UNCHANGED <<store, base>> /\ Sys(s)

\* Volumes that are missing or shorter than their rows say.
Stat(s) ==
  /\ keep[s].pc = "stat"
  /\ Goes(s, [keep[s] EXCEPT !.pc = "report",
                !.list = {x \in @ : x.v \in keep[s].vols /\ (file[x.v].there => x.end > Len(file[x.v].data))}])
  /\ UNCHANGED <<store, base>> /\ Sys(s)

Report(s) ==
  /\ keep[s].pc = "report"
  /\ Goes(s, [keep[s] EXCEPT !.broken = UNION {RowsIn(db, x.v) : x \in keep[s].list}, !.list = {}, !.vols = {},
                             !.orphans = {v \in Vols : Unowned(s, v)} \ keep[s].vols,
                             !.pc = IF keep[s].op = "repair" THEN "list" ELSE "done"])
  /\ UNCHANGED <<store, base>> /\ Sys(s)

\* `repair` goes on: what recovery and release leave, then the orphans.
UnlinkOrphans(s) ==
  LET S == {v \in keep[s].orphans : Unowned(s, v)} IN
  /\ keep[s].pc = "orphans"
  /\ file' = [v \in Vols |-> IF v \in S THEN Unlinked(file[v]) ELSE file[v]]
  /\ Goes(s, [keep[s] EXCEPT !.pc = "empty", !.orphans = {}])
  /\ UNCHANGED <<lock, base>> /\ Sys(s)

EmptyVolumes(s) ==
  /\ keep[s].pc = "empty" /\ holder = Nobody
  /\ Commits(TrashEmpty(db, Vols))
  /\ Goes(s, [keep[s] EXCEPT !.pc = "trash", !.then = "done"])
  /\ UNCHANGED <<store>> /\ Sys(s)
-----------------------------------------------------------------------------
(* The application, the clock, and what ends a process. *)

AppWrites(d) == /\ holder = Nobody /\ Commits(d)
                /\ keep' = [s \in Stores |-> [keep[s] EXCEPT !.since = <<>>]]
                /\ UNCHANGED <<store, own, tx, reader, count>>
\* Rows of the application go, or others come to refer to the same payload.
Forget(p) == p \in db.refs /\ AppWrites([db EXCEPT !.refs = @ \ {p}])
Refer(p) == p \in Unreferenced(db) /\ AppWrites([db EXCEPT !.refs = @ \cup {p}])

OpenStore(s) ==
  /\ s \notin up
  /\ up' = up \cup {s}
  /\ Goes(s, [Rest EXCEPT !.op = "open", !.pc = "list"])
  /\ UNCHANGED <<store, base, free, end, tx, reader, count>>

\* What the stores of S have is given up: locks, descriptors, what threads were at.
Gone(S) ==
  /\ up' = up \ S
  /\ free' = [s \in Stores |-> IF s \in S THEN {} ELSE free[s]]
  /\ lock' = [v \in Vols |-> IF lock[v] \in S THEN Nobody ELSE lock[v]]
  /\ tx' = [t \in Txs |-> IF Home[t] \in S THEN NoTx ELSE tx[t]]
  /\ keep' = [s \in Stores |-> IF s \in S THEN Rest ELSE keep[s]]
  /\ reader' = [r \in Readers |-> IF Where[r] \in S THEN Idle ELSE reader[r]]
  /\ end' = [v \in Vols |-> IF lock[v] \in S THEN 0 ELSE end[v]]

\* `close`, with no transaction of this store open.  A store that has no volume
\* gives up nothing, and one at rest that is killed gives up what `close` does.
CloseStore(s) ==
  /\ Ready(s) /\ keep[s].op = "none" /\ free[s] # {} /\ falls < FallsMax
  /\ \A t \in Txs : Home[t] = s => tx[t].pc = "idle"
  /\ Gone({s})
  /\ falls' = falls + 1
  /\ UNCHANGED <<file, base, puts, jobs>>

Crash(s) ==
  /\ s \in up /\ falls < FallsMax
  /\ keep[s].op # "none" \/ \E t \in Txs : Home[t] = s /\ tx[t].pc # "idle"
  /\ Gone({s})
  /\ IF holder = s \/ (\E t \in Txs : holder = t /\ Home[t] = s)
     THEN holder' = Nobody /\ work' = db /\ UNCHANGED <<db, held>> ELSE UNCHANGED base
  /\ falls' = falls + 1
  /\ UNCHANGED <<file, puts, jobs>>

\* Bytes and names that were not synced are lost, and so may the last commits be
\* (where there are none, it is as if every process were killed).
PowerLoss ==
  /\ falls < FallsMax
  /\ ~Lasting \/ \E v \in Vols : file[v].there /\ file[v] # Synced(file[v])
  /\ Gone(Stores)
  /\ file' = [v \in Vols |-> IF file[v].entry THEN Cut(file[v], file[v].synced) ELSE Absent]
  /\ \E d \in {db, held} : db' = d /\ work' = d /\ held' = d
  /\ holder' = Nobody
  /\ falls' = falls + 1
  /\ UNCHANGED <<puts, jobs>>

OfTx(t) ==
  \/ Begin(t) \/ (\E n \in Needles : Place(t, n) \/ PlaceInNew(t, n))
  \/ Appends(t) \/ AppendFails(t) \/ StoreRows(t) \/ Commit(t) \/ Rollback(t)
  \/ EndCommitted(t) \/ EndUndone(t)
OfReader(r) == (\E p \in Ids : Locate(r, p)) \/ Reads(r) \/ Follows(r)
Maintains(s) ==
  \/ Compact(s) \/ Check(s) \/ Repair(s) \/ Release(s) \/ Finish(s)
  \/ ListActive(s) \/ SealActive(s) \/ ReleaseRows(s)
  \/ ListTrash(s) \/ Unlink(s) \/ DropTrash(s)
  \/ Pick(s) \/ ReadRows(s) \/ NewTarget(s) \/ Register(s) \/ Copy(s) \/ Copied(s)
  \/ Swap(s) \/ CloseTargets(s) \/ CompactFails(s)
  \/ Query(s) \/ Stat(s) \/ Report(s) \/ UnlinkOrphans(s) \/ EmptyVolumes(s)
Outside ==
  \/ \E p \in Fickle : Forget(p) \/ Refer(p)
  \/ \E s \in Stores : OpenStore(s) \/ CloseStore(s) \/ Crash(s)
  \/ PowerLoss

Next == (\E t \in Txs : OfTx(t)) \/ (\E r \in Readers : OfReader(r)) \/ (\E s \in Stores : Maintains(s)) \/ Outside

Spec == Init /\ [][Next]_vars
-----------------------------------------------------------------------------
TypeOK ==
  /\ file \in [Vols -> [there : BOOLEAN, entry : BOOLEAN, data : Seq(Needles \cup {Hole}), synced : 0 .. VolumeSize + 1]]
  /\ lock \in [Vols -> Stores \cup {Nobody}]
  /\ \A d \in {db, work} : /\ d.vol \in [Vols -> {"none", "active", "sealed", "trash"}]
                           /\ d.row \in [Ids -> {NoRow} \cup [vol : Vols, at : Nat \ {0}]]
                           /\ d.refs \subseteq Ids /\ d.gone \subseteq Ids /\ d.seq \in 0 .. VolumesMax
  /\ holder \in Txs \cup Stores \cup {Nobody} /\ (holder = Nobody => work = db)
  /\ up \subseteq Stores /\ free \in [Stores -> SUBSET Vols]

\* The row of a payload says where its bytes are, and they are there and on disk:
\* whatever was rolled back, cut, copied, deleted, killed or cut off from power.
InPlace(v, i, n) == file[v].there /\ file[v].entry /\ i <= file[v].synced /\ Holds(v, i, n)
RowsPointToBytes == \A p \in Ids : db.row[p] # NoRow => InPlace(db.row[p].vol, db.row[p].at, Of(p))

\* A free volume ends where its last committed needle does: what is appended next
\* overwrites nothing, and nothing of a transaction that was undone is left in it.
FreeIsClean == \A s \in Stores : \A v \in free[s] :
                 Len(file[v].data) <= end[v] /\ EndOf(db, v) <= end[v] /\ file[v].there

\* A volume is written by one: no two transactions, nor one and the list of free
\* volumes, nor a compaction have the same, its owner alone holds its lock, and what
\* is free holds nothing of a transaction that was undone.
Owners(v) == {t \in Txs : v \in Started(tx[t])} \cup {s \in Stores : v \in free[s] \cup ToSet(keep[s].targets)}
OneWriter ==
  TypeOK /\ FreeIsClean /\ \A v \in Vols :
    /\ Cardinality(Owners(v)) <= 1
    /\ \A t \in Txs : v \in Started(tx[t]) => lock[v] = Home[t] \/ tx[t].pc = "committed"
    /\ \A s \in Stores : v \in free[s] => lock[v] = s /\ db.vol[v] = "active"

\* A check beside writers and compactions reports no payload that can be read.
NoFalseAlarm == \A s \in Stores : keep[s].broken = {}

\* A repair nobody disturbed leaves nothing to repair.
RepairClears ==
  \A s \in Stores :
    keep[s].op = "repair" /\ keep[s].pc = "done" /\ keep[s].since = <<jobs, Now>> =>
      /\ Unreferenced(db) = {}
      /\ InState(db, "trash") = {}
      /\ \A v \in InState(db, "sealed") : RowsIn(db, v) # {}
      /\ \A v \in InState(db, "active") : lock[v] # Nobody \/ ~file[v].there
      /\ \A v \in Vols : Unowned(s, v) => db.vol[v] # "none"

\* What readers and maintenance tell holds while others write and move: a reader of a payload that is
\* still there gets its bytes, though the volume they were in is deleted, what a check reports is
\* broken, and what a repair reports done is done.
AnswersHold ==
  /\ \A r \in Readers : reader[r].pc = "corrupt" => db.row[reader[r].id] = NoRow
  /\ NoFalseAlarm /\ RepairClears

Bytes == [p \in Ids |-> Of(p)]
Given(p) == LET x == db.row[p] IN
            IF x = NoRow THEN Nobody ELSE IF InPlace(x.vol, x.at, Of(p)) THEN Of(p) ELSE Hole
Promise == INSTANCE Vault WITH kept <- [p \in Ids |-> Given(p)], refs <- db.refs, Nothing <- Nobody
\* The store keeps what it promises.
KeepsItsPromise == Promise!Init /\ [][Promise!Next(Bytes)]_(Promise!vars)
=============================================================================
