# ms_flow in TLA+

Specifications of `ms_flow`: its engine, the executors and machines it hands
work to, what it keeps on disk, and how results reach the tables of a project.
TLC checks the modules on small instances; the theorems in `Chunks_proofs`,
`Jobs_proofs`, `Feed_proofs`, `Journal_proofs`, `Processes_proofs`, `Campaign_proofs`
and `Workspace_proofs` are proved with TLAPS for every value of the constants.

    tlc -workers 2 -config MCChunks.cfg MCChunks
    tlapm Chunks_proofs.tla

Line numbers are of the files under `src/src/ms_flow/`; where no file is named,
of `engine/engine.py`. `PROJECT.json` maps each definition to its lines.

## The system

A `submit` gives the engine a function, a source of chunks and an executor. One
**loop thread** owns all the decisions; everything else tells it things through
a queue of events. One **delivery thread** runs the callbacks of every job, from
a queue of its own, and tells the loop what they took. Each job has a **feeder
thread** that reads its source. Each journal has a **writer thread** with the
file. An executor answers from threads of its own, from other processes, or from
another machine. Callers run on threads of their own.

| Component | State | Operations | Talks to | Modelled in |
|---|---|---|---|---|
| Engine, chunks in flight (582-993, `engine/tokens.py`) | the line and the open chunks of each job; tasks, suspects and bars of each executor; free tokens | start, refuse, retry alone, part, done, requeue, settle, kill, time out, stop | executors by call and event, delivery thread by queue | `Chunks` |
| Engine, source and window (`_feed`, `_start_one`) | `ready`, `window`, `pack`, `room`, `hungry`, `fed_all` | read, wait for room, append, answer; take, pack, wake | feeder and loop share the job without a lock | `Feed` |
| Engine, life of a job (`submit` to `_announce`) | `_jobs`, `_ended`, `_waiting`, `_active`, `after` | submit, start, cascade, cancel, finish, announce, detach, close | callers, loop and delivery thread by two queues | `Jobs` |
| Journal (`engine/journal.py`) | the file (jobs, chunks done); records, claimed keys, `_next` | claim, record, write, flush, discard, close, open after a crash | loop by a queue, callers by flush | `Journal`, `Ledger` |
| Executors of this machine (`engine/executors.py`) | pools, host process, two pipes, cards | submit, cancel, kill, answer, leave when idle, shut down | engine by `on_done`, `on_part` | `Processes`, `Contract` |
| Remote jobs (`remote.py`, `locations.py`, `site_script.py`) | groups, queued jobs, parts read, stash | send, poll, answer, take up, give up, cancel, sweep | an executor of the engine; the queue of another machine | `Remote`, `Contract` |
| Runner (`runner.py`) | its journal, parts of results and errors, progress, `done` files | start, roll a part, write, reduce, mark done | the two above, through files | `Remote`, `Campaign` |
| Campaign (`campaign.py`, `runtime.py`) | attempts, what has been read of one | find, send, follow, queue again, start over, cancel | a feeder and a delivery of the engine; the runner | `Campaign` |
| Payload volumes (`payloads.py`) | volume files and their locks, rows, transactions | put, commit, roll back, recover, read, release, compact, check, repair | the project's database | `Volumes`, `Vault` |
| Writers of tables and graphs (`engine/flow.py`, `core/data/bridge.py`, `core/database/project_store_ops.py`) | a group of results being joined; refs, keys, receipts | take, join, insert or upsert, link, commit | delivery thread; SQLite | `Graph` |
| Artifacts, selections, queries | rows of a project | register, select | database | no: sequential SQL |
| Public API (`_api_impl`, `api.py`, `main.py`) | the active project, who is active, starting and aside, the flow | open, create, close, delete; activate, deactivate, change; submit, move | engine, settings, projects on record | `Executors`, `Workspace` |
| Data backends and shards (`core/data`) | tables and shard files, another database | read, write | SQLite, files | the writes, in `Graph`; reading, files, shards and plans not |
| Databases, projects (`core/database`, `core/project`) | tables; the projects on record, one file for all applications | transactions; list, move, forget (catalog) | SQLite | the writes, in `Graph`; the records, in `Workspace` |
| Settings (`core/settings`, `core/app_settings.py`), configuration, logging | what the package and the application give, two layers in files | register, load, set, reset, follow the project | all | `Settings`, `Workspace` |

What is hard in it, and what would make it wrong:

* **The feeder and the loop share a job without a lock.** A wake-up lost between
  `hungry` and the append, or between `room.clear()` and the wait, leaves both
  asleep for ever. The length of the line is read and used some steps later.
* **A death of a worker fells every task of the pool.** Who did it shows only
  when each chunk runs alone. Marks on chunks (`alone`, `doomed`, `spared`),
  bars on the executor (`isolating`, `killing`, suspects) and counters (`open`,
  `seq`, `inflight`, tokens) are kept by hand in a dozen places while parts,
  results, timers and cancels arrive in any order.
* **A job ends in many ways at once:** its last result, the end of its source, a
  cancel, the failure of one it comes after, a detached journal, a failed
  journal, the end of the engine; and its end ends others.
* **Threads wait for each other** in `detach`, `close`, `flush` and `_announce`,
  and, around a host process, over a lock that is held while a pipe is full.
* **The process may die** between any two records, and the results the callback
  took have to be known to the run that continues the job.
* **Another machine is asked, never told by.** Commands are lost with or without
  having run, its queue kills what it runs, answers are read in rounds that
  began before what they meet now, and a client that died left jobs there.
* **Files and rows change apart.** Bytes are on disk before the rows that name
  them; a compaction moves needles under readers; a stage is over in one file
  before it is in another.
* **Elements of several tasks are written as one group**, with refs that are
  unique only inside each, keys that exist only once written, and a receipt that
  other processes may write first.

* **A process changes its projects, settings and executors while it runs.** Any
  thread calls, an executor takes minutes to start, what is asked before a lock is
  used after it, and the settings everybody reads have to follow a project through
  failures and restarts.

`PROJECT.json` lists each of these at its line, with the properties that would
show it going wrong.

## Modules

### Chunks

The loop thread with several jobs on one executor that can stop what it runs.
Every event handler is an action: `StartTask` and `RefuseChunk` are `_start_one`,
`RetrySuspect` and `DropSuspect` one turn each of the loop in `_retry_suspect`,
`TaskDone` and `ChunkEnds` are `_on_done`, `PartDone` `_on_part`, `Requeue`
`_requeue`, `Delivered` `_on_delivered` with `_settle`, `TimeOut` `_watch` with
`_kill`, `Cancel` `_on_stop_job`. `_on_done` of a task with several chunks tells
of one after the other; the model keeps what is left of it in `ending`, and takes
no other event before it is empty, as the loop does not.

A task is a record in `flying`, at a place of the executor's capacity. What
`flying` keeps of a chunk is what the code keeps on the chunk the task goes by;
`alone` and `doomed` are the marks as the last task left them on it, which is what
a later task finds there. The events come in any order and at any moment, a
superset of what the two queues allow.

### Feed

The feeder and the loop of one job, step by step: every read and write of what
they share (`ready`, `room`, `hungry`, the status, `window`, `fed_all`) is a step,
with a program counter for each thread (`fpc`, `lpc`). Handlers of events that
touch nothing the feeder reads in between are one step. Chunks are counted. What
the executor and the callback report is any outcome for each task; the size of
the next task after one that ran well is any number up to `_PACK_MAX`.

### Jobs

From `submit` to `wait`, with the loop's events and the delivery thread's items as
queues in order. `submit`, `detach` and `close` are taken apart where another
thread may come in between: `Registers` is where others find the job (454),
`Submits` where the loop is told of it (455), and a cancel, a detach or the end of the
loop may be heard before. A job that was stopped so (`early`) is started all the same
when its `submit` is heard, without its chunks. The calls inside one event are a stack (`calls`),
because `_finish` goes through a list of dependents it made before it ended any,
and `_on_close` through one of all the jobs; the stack keeps those lists as they
were. A job that reads a table is submitted with `after` every job of its flow that
may still write it: the flow keeps who writes what (`_writing`) under a lock of its
own, and drops those that ended. The engine remembers the last `Remembered` jobs
that ended. How a running job gets to its end is one step, `JobOver`: that it does
is `JobsEnd` of module Chunks.

### Journal and Ledger

One key, several runs, several processes. `row` and `rows` are the file; `records`
the queue the loop appends to, `buffer` the transaction of the writer. A
transaction takes all the records there are and writes them in order, with the
rows of chunks held back until a job begins or ends (`PutChunks`). A failed write
loses the whole transaction and still tells who waits. `Crash` loses everything
but the file; `Opens` is `Journal.__init__`.

`Ledger` is what the engine promises of such a job: a chunk is handed to the
callback again only if a crash or a failed write came in between, nothing is
handed over once the job is over, and it is over only when every chunk was taken
or failed. `Journal` implements it (`ImplementsLedger`).

### Processes, Remote and Contract

`Contract` is what `Chunks` relies on, the docstring of `engine/executors.py`:
each task is told over exactly once, each chunk at most once and before that, and
of a task that is `DONE` nothing is left to tell. Two executors are shown to keep
it (`KeepsContract` of each), by a mapping of their tasks.

`Processes` is `ProcessExecutor` with its pool and its host. The pool breaks as a
whole (`PoolBreaks`), and callbacks of its futures follow, one by one. The host
is a process with threads, behind two pipes with room for `Room` messages; a
sender holds `_hosting` while its message does not fit (`hosting`), and the
thread that reads a host takes the same lock before it lets an idle one go.
Cards are taken at submit and given back by a second callback, some time after the
first has told the engine (`FreeCard`); `late` remembers the tasks that were submitted
in between. Slots to tell progress in (`slot`) go with the task. `ThreadExecutor` is its future alone. `RayExecutor` says
of a task how it ended (`raw`); the loop goes through what it has to stop
(`killing`) and marks it (`killed`) while the thread that waits for Ray reads the mark.

`Remote` is `RemoteExecutor` and the runners its jobs become. `dir` is a
directory over there, with its place in the queue, its parts, errors, journal and
progress; the thread here goes round (`pc`): hear what the engine said, send, ask,
read what was asked, answer, queue again or give up, tidy up. A command is lost
before it ran or after. The runner rolls its part, computes, writes and tells in
steps of its own, and may be killed between any two. A client may die and another
begin with what it finds. With `Carries` a round first brings the files a part
names (`Skips`, `BringFails`: the next round reads the part again); `RemoveBegins` and
`RemoveEnds` are `remove_there`, which looks first and removes later.

### Campaign

Stages one after the other in one job of the other machine's queue. `dir` and
`run` are the attempts over there, `here` and `told` what the thread that follows
knows, `got` what it gave to the engine. The command that asks for the progress of
an attempt reads it first and the parts after (`Told`, then `Brought`), with
everything in between. A purge takes files of a directory, a kill stops its
runner wherever it is, and the process here may die at any step; a new one finds
the attempt by its name. What it looks like over there is asked with one command
(`Look`); files go there before it starts (`Upload`), and again what is not there as it
was here (`Fill`). Three histories say when a promise of the code is off: `slipped`, that a
cancel did not reach the attempt or was followed by its sending; `cut` of a directory, that
its runner was stopped after a stage was over in the runner's journal and before its
`done` file; `taken`, which results a purge took that left the last part of their stage.

### Volumes and Vault

`file` and `lock` are the files, `db` what is committed, `work` what the holder of
SQLite's one write transaction would commit, `held` what is on disk for sure. A
transaction puts needles, may be rolled back, commits; recovery seals or removes
what a dead process left; readers locate, open and follow; maintenance releases,
compacts, checks and repairs, a statement or a system call at a time.

`Vault` is the promise: a payload is there, whole, from the commit of the
transaction that stored it to the commit that deletes its row, and only one that
no table refers to is deleted. `KeepsItsPromise` is the refinement.

### Graph

What `table_sink` and `graph_sink` write. Elements arrive with refs of their own;
the writer of a flow joins several (`_merged` with a place in front of each ref when
they could meet) and has the project's `insert_graph` or `bulk_insert_rows` write
them; the bridge writes one at a time, in the project or, through the backends, in
another database. A transaction goes in the order of the relations, each write a
step that may fail, with the links that were deferred and the receipt (`Keyed`) at the
end; the `There` actions are those of the backends, which order their tables by all
the relations and know no deferred one. Several callers write to one database; a
process may die before it heard that it committed, and the bridge looks for the
receipt before it writes (`Probe`).

### Settings, Executors and Workspace

`Settings` is `SettingsManager`: what the package gives, under what the user
chose, under what the active project chose (`globals`, `local`), the files of the
last two, and what everybody reads (`effective`). A layer keeps only what differs
from those below (`Pruned`), and is rewritten so when it is read. The settings of an
application (`AppKeys`) have no value below until it has said so (`Undeclared`), and
a folder may have no file (`Bare`).

`Executors` is who runs jobs: what is kept of executors and hosts, what each
active one was made of (`registered`), whom the pool of this machine is aside for.
A thread is somewhere in a call (`doing`): it has read the settings and waits for
the lock, it is building the engine, starting an executor, about to change one. Any
call may come between any two steps of another. `crossed` remembers the executors that
were made of settings that had changed by then, those that came to use what another
call was about to change, and the pool of this machine where it was made again over
what had been started meanwhile.

`Workspace` composes both with the projects: open, create, close and delete, each
one step; and submit and move, in the steps another thread may come between
(`Submit`, `Attach`, `MakeFlow`, `Ready`, `Land`), the calls on projects and executors
among them. A project is created while none is open (`Create`), over one that is
(`CreateOver`), or without being opened (`CreateOnly`), because its caller asks for that
or something fails; `strayed` remembers that the settings are those of a project that
is not open, or were left by the one that is, until the next opening or closing. The
records of projects (`rows`) are shared: other applications add, move and forget
theirs, and the catalog of this one edits them with settings it reads for the
occasion, not knowing those of the application. `CreateOrOpen` is the call that
does whichever fits. The process may end at any moment and another start from
the files.

### The modules of proofs

`Chunks_proofs`, `Jobs_proofs`, `Feed_proofs`, `Journal_proofs`, `Processes_proofs`,
`Campaign_proofs` and `Workspace_proofs` hold the theorems about the modules they are named for; see below.

## Runs

| Run | What it shows |
|---|---|
| `chunks` | Every chunk of a running job is in exactly one place until it is counted, and `open`, the tokens and the cap of a job are right (`Accounts`); suspects run alone and a kill is lifted (`Isolation`), the chunk a task goes by, and any chunk in its first attempt, is charged only for its own death or lateness (`HeadChargedForItsOwn`), and every job ends (`JobsEnd`). |
| `feed` | What is read ahead is bounded as documented (`ReadAhead`), the total is what the source gave and a job is over only when all was counted (`OverMeansOver`), it ends, and its feeder leaves when it is stopped (`BothSidesEnd`): no wake-up is lost. |
| `feed_batch` | *A counterexample.* With `batch` and a `window` of less than two batches (here 3 and 3) a task cut short by the window leaves fewer chunks in line than a batch and more than half a window: the loop waits for more, the feeder for room. |
| `jobs` | A job starts only after those before it completed, their `on_finish` included, and nothing an earlier one still writes is in a table it reads (`DependentsWait`); whoever asks finds it until its end was announced, once unless it was stopped before the loop had heard of it (`KnownUntilAnnounced`); nothing of a journal goes on once `detach` returned (`DetachedQuiet`); `wait`, `detach` and `close` return (`EveryCallReturns`). |
| `journal` | What is on record as done was taken, and what was announced is on disk (`RecordIsTrue`); no thread is left waiting for another (`NobodyStuck`), and the ledger, in which a key has one run at a time, is implemented (`ImplementsLedger`). |
| `processes` | Tasks are lost only where something came to harm (`LostByHarm`), no two share a slot, nor a card but where one of them came between the two callbacks of another task (`HeldByOne`), each is answered once (`KeepsContract`) and in the end (`EveryTaskEnds`). |
| `remote` | No element that somebody waits for is without a place, and none is computed in two directories at once (`InOnePlace`), what ended is cleared away (`NothingLeft`), no job that could go on is given up (`GivesUpInVain`), each task is answered once (`KeepsContract`). |
| `remote_ends` | Whatever is killed, lost or late, a task the engine gave is over some day (`EveryTaskEnds`). |
| `campaign` | A campaign that completed has all it should have, here, but for what a purge took unnoticed (`AllDelivered`); one attempt at a time is in the queue, none of a campaign whose cancel got there after it was sent (`OneOrNoneThere`); a runner goes on where the last one was, unless that was stopped between the end of a stage and its mark (`GoesOn`); whoever follows comes to an end (`FollowerEnds`). |
| `volumes` | Every committed row points to its bytes (`RowsPointToBytes`); a volume has one writer (`OneWriter`); a reader finds what moves, a check reports no more than what is so, and what a repair says is done is done (`AnswersHold`); `Vault` is implemented (`KeepsItsPromise`). |
| `graph` | The keys in every row are those of the rows its own element named (`AsDescribed`); a group is stored whole, and once per receipt (`WholeAndOnce`); one is refused only for a cause in one of its elements or a write that failed (`RefusedForCause`). |
| `workspace` | What everybody reads is what the files of the user and of the active project say, unless a project was created out of turn (`SeesItsFiles`), and what was chosen in a project outlives opening, closing and restarts (`ChoicesLast`); a machine works for one executor at a time (`MachinesApart`), none of which is changed under what was made of it (`MadeOfWhatIsKept`), but for those a change came across; a job with an active executor and in the open project keeps both until it ends (`JobsAtHome`). |

### Bounds

* `chunks`: two jobs of two chunks on an executor for two tasks. One job packs
  both chunks in a task, retries and has a cap of one CPU: packing, a part ahead of
  its task, retry, requeue in front and behind, and the cap all happen. The other
  has a chunk larger than the engine, which is refused, and one that is the
  bystander of every kill and death. Two tasks at once are what a death, a kill and
  isolation need; a chunk with a second attempt is what stale marks need.
* `feed`: up to four chunks, tasks of up to two (`Largest`), one task at a time, one
  trip back in line; the job gives nothing, a window of 2, or a batch of 2 and a window of 3.
  The window fills, the line runs dry, is half empty and is refilled by a retry.
  `feed_batch` needs nine chunks and two tasks.
* `jobs`: three jobs in a chain, a chain with a shortcut, a join, and a flow in which
  the second reads what the first writes and the third what the second does; one
  ended job is remembered. Three is the least for a cascade of a cascade and for
  two ways to the same job, and one is what makes forgetting happen.
* `journal`: two chunks, one of which the callback may refuse, two runs, one crash or
  failed write. Two runs are what continuing takes, and one lapse at any step of
  either meets every state of the queue, the transaction and the file.
* `processes`: three tasks, two at a time, two cards, one slot, two deaths or kills,
  one cancel, in five mixes: three on the pool, two on the host, one on each, three
  on threads, two with Ray. A second host starts while the first leaves, there is a
  task in each pipe and one sent behind both, and a task goes without a slot.
* `remote`: two tasks over two elements (one always fails), two directories, one
  kill or loss, one end of the job: a job goes on after a kill, a second task takes
  up what the first left, a part of a task is answered before the rest.
  `remote_ends`: one element and two of each kind of trouble, so that a second one
  meets the answer to the first.
* `campaign`: two stages of two and one elements, two attempts, two troubles: a purge
  after a kill, a start over after a purge.
* `volumes`: a group of two payloads and a payload, volumes that hold two needles,
  three volumes, two transactions in one process, a reader and the maintenance in
  another, one fall. `AtOnce` bounds what goes on at the same time: a reader beside
  transactions or beside maintenance, and two transactions only by themselves.
* `graph`: four tables with a cycle through a deferred relation, an upserted one and
  one nobody names, nine elements that share, repeat and lack refs, groups of two
  (of one through the bridge), two callers, two troubles, and six pairs of sinks: by
  the writer or the bridge, here or elsewhere, with and without a key, and with
  relations that go round or name a table the sink has not.
* `workspace`: two threads, two folders, two settings of two values, a Ray that takes
  this machine, one that does not and a queue on a host of both, one job that has not
  ended, one setting of the application; in nine plans of calls, each a few kinds of call that
  come in any order and number, so that any two parts meet: projects, their creation,
  settings and the catalog; starts with changes of executors or of hosts; submits with
  projects, with starts and with changes of executors or of hosts.

`CHECK_DEADLOCK FALSE` is set everywhere because these systems do stop: all jobs
ended, all runs announced, the engine closed. Liveness, and `NobodyStuck`, say
where they may.

### Fairness

Each module states it above `Spec`. The loop and the delivery thread
take whatever waits in their queues: weak fairness of their steps (in `Feed` of all
the loop may do at once, as one: it is owed nothing in any order). An executor
answers for every task, once (`Contract`), timers come due, and callbacks and the
source return. Nobody has to cancel, close, raise, die or submit. In `Chunks`
fairness is per job, task and chunk: the loop runs its whole dispatch pass after
every event, and the queues are first in, first out. In `Processes` a message that
fits is sent, the thread of a host reads, a host goes on with what it has, a broken
pool is noticed. In `Remote` the thread goes round, each runner takes its next step,
and a command that is sent again and again gets through (strong fairness of `Ask`;
the number of losses is bounded, so that nothing stronger is assumed than that the
other machine comes back). In `Campaign` likewise. `Journal`, `Volumes`, `Graph` and
`Workspace` have none: their promises are safety.

### Assumptions, and what fails without each

Some promises hold only under something the code does not enforce. Where the case
that breaks a promise can be told from the steps that lead to it, a history variable
remembers it and the property names it, as an exception; the rest of the promise is
checked through these cases too (see "What the code breaks"). Where it cannot,
it is assumed away by a constant, so that setting that to `FALSE` (`Room` to less, `Hasty`
to `TRUE`) shows the counterexample.

| Constant | Assumes | Without it |
|---|---|---|
| `Hasty = FALSE` (`Journal`) | a key is submitted again once the end of its run was announced | a chunk the callback took runs again: the key is free (`engine/journal.py:164`) before the rows of the last results are recorded (767-768). |
| `Firm` (`Journal`) | no failed write takes the record of a job that begins | `RecordIsTrue` fails from four runs on: the chunks of a job whose record a failed write took are recorded under its number all the same (no foreign key, `engine/journal.py:41-46`), the next process gives that number again when no later job is on record (138), and those chunks pass for done in a job that did not do them. |
| `Room` (`Processes`) | a pipe holds as many messages as there are tasks | `EveryTaskEnds` fails: the loop holds `_hosting` in a full pipe, the thread that reads waits for the lock (509), the host waits to answer. |
| `Steady` (`Remote`) | the command that queues a job again is not lost | `GivesUpInVain` fails: how far the job was is noted (`remote.py:568`) before it is queued (569). |
| `Whole` (`Remote`) | a command that sends a job and is lost queued nothing | `InOnePlace` fails: the job is sent again under another number. |
| `Apart` (`Remote`) | a job canceled is submitted again in a later round | it is taken up (`remote.py:390`) while its removal is on its way (402), and ends with errors. |
| `Homed` (`Remote`) | a runner that is killed with a part of results has said where it runs | `EveryTaskEnds` fails: without `progress.json` no part of a job that carries files is read (`remote.py:545-547`), and the queue, which took the job for over, never runs it again. |
| `Prompt` (`Volumes`) | no transaction lasts longer than the grace given to orphans | repair removes a volume that is being written. |
| `Swift` (`Volumes`) | recovery seals the volumes it listed (`payloads.py:303`) before others do anything to them | `AnswersHold` fails: a sealed volume changes (`payloads.py:13` says it never does). |
| `Lasting` (`Volumes`) | a commit survives a loss of power | `RowsPointToBytes` fails for rows deleted by a compaction: `synchronous=NORMAL` (`core/database/base.py:44`) may lose them after the file is gone. |
| `Apart` (`Graph`) | the elements of a group get a place in front of their refs where these could meet | `AsDescribed` fails: refs that are unique in an element only meet in a group. |

### What the code breaks, and how the properties say so

| History | Property | What happens |
|---|---|---|
| `early` (`Jobs`) | `KnownUntilAnnounced`, `DetachedQuiet` | A job is found by others (454) before the loop is told of it (455). A cancel that comes in between is heard first: the job ends and is announced as canceled, its chunks are gone, and `_on_submit` starts it again (592), so that it fails at once and is announced a second time. A `detach` that comes in between leaves it to be started in the same way. |
| `late` (`Processes`) | `HeldByOne` | The engine hears of the end of a task in the first callback (`engine/executors.py:167`), its card is given back in the second (169). A task submitted in between may get a card that is in use, and the next one that card again. |
| `slipped` (`Campaign`) | `OneOrNoneThere` | A campaign that is canceled before its attempt is found (`campaign.py:252`), while it is being sent (420), or with a command that does not get through (262), goes on in the queue; the docstring at 249-250 promises otherwise. |
| `cut` (`Campaign`) | `GoesOn` | The job of a stage is over in the runner's journal before its `done` file says so (`runner.py:326-339`), with all of `reduce` in between. A runner stopped there is queued again, submits the stage under its key once more, and its own journal refuses a job that ended (`engine/journal.py:200-202`); after the last stage it finds nothing to do (`runner.py:442-444`) and the campaign is queued until it gets no further. `campaign.py:25-26` says that it goes on. |
| `taken` (`Campaign`) | `AllDelivered` | A part that is gone while a later one of its stage is there is not noticed (`campaign.py:449`, 468), although 461-462 mean to. What was in it is missing in a campaign that counts as completed. |
| `crossed` (`Executors`) | `MachinesApart`, `MadeOfWhatIsKept` | `_change` looks who is active (`_api_impl/job_api.py:247`) and `activate` reads the settings (202) before they have the lock (251, 207), so that a host is changed under an executor that is starting on it, although 261 refuses that; and the pool is made with the engine without the lock (165-166), and put back by a change (258), though a Ray took its machine in between. |
| `strayed` (`Workspace`) | `SeesItsFiles` | The settings are set to a new project (`core/project/manager.py:104`) before the one before is closed, which clears them (`_api_impl/project_runtime.py:166`, 288); with `activate=False`, or after a failure, they stay on a project that is not open. |
| none (`Workspace`) | `JobsAtHome` | A job that is submitted while its executor is unregistered or its project closed lands with neither; the comment at 300 of `engine/engine.py` accepts that for executors. `JobsAtHome` is therefore an action property: a job that is at home stays so. |

## Proofs

`Chunks_proofs`, from `ChunksAssumption` alone (`Chunks`): a chunk is in the line of
its job, once, and in no other; costs and caps are natural numbers (a chunk may need
none); `Batch <= Window`.

* `TypeCorrect`: `Spec => []TypeOK`, one lemma per action. It needs no
  strengthening. The part that is not about types is that no chunk ever has more
  attempts than its job asked for.
* `BarsHold`: `Spec => []Bars`. `Isolation` is not inductive: that one task flies
  when `isolating` is set says nothing of a task that is marked alone with the bar
  lifted. `Bars` says that a task that runs alone is the only one and its bar
  stands, that the bar stands only for such a task, and that a kill has something
  to stop. Starting needs the bars down (`SlotOpen`), a suspect needs an empty
  executor, and the task that comes back lifts its own.
* `SuspectsRunAlone`: `Spec => []Isolation` follows from `Bars`, for any number of
  jobs, chunks and places.
* `AccountsHold`: `Spec => []Accounts`, in two parts. `TokensKept` is the tokens and the
  cap: both are sums over the tasks, defined by a fold. `HeldAdds` says how such a sum
  over any finite set changes with one task, by a least counterexample over its subsets
  (`Smallest`), and the rest goes by tasks that come and go.
  `ChunksKept` is `Kept`: `Spot` is the set of chunks in each of the six places, `Apart`
  says that no two share one, `Known` that a chunk is somewhere exactly while it is not
  counted, and `Lines` that no line and no task bears it twice. Each action is shown to
  move a set of chunks from one place to another, or out of sight (`Moves`), and
  `MovesKeep` says once and for all what that does to the count of the open ones.
  `PlacesAre` brings it back to places of lines and tasks.
* `ChargedFairly`: `Spec => HeadChargedForItsOwn`, the action property, from `Kept` and
  `Marked`, which says what the marks on a chunk mean: a task that runs alone is never
  spared, a chunk that is being told of bears no mark that its task had not, and one
  in its first attempt none but then and on its way to the callback.

`Jobs_proofs`, from `JobsAssumption`: jobs are numbers, any set of them, and each asks
to come after earlier ones only.

* `DependentsWaitHolds`: `Spec => []DependentsWait`. The invariant `Order` has to say
  what waits where: a job arrives at the loop once, before any word that it is to stop
  (`Arrivals`); what the status of a job says of the sets it is in (`Places`); that what
  is left of the nested calls looks at jobs that wait or have one before them that ended
  badly (`Frames`); that a job comes after earlier ones only and starts behind them
  (`Behind`); that `on_finish` ran for what completed (`Callbacks`); and what a flow
  notes of who writes a table (`TablesNoted`).
* `LooksStartTheWaiting`, an action property: the list of dependents that a call made
  before a nested one starts no job twice.
* `KnownUntilAnnouncedHolds` adds that an end is told by one item only: `Once` counts
  the stop left in the stack, the event, the delivery and the announcement of a job
  against its status, and `Nested` says that the lists the loop holds nest. A job that
  others found before the loop heard of it is `Unheard`; `Fresh` and `Line` say that
  it is as it was registered or in `early`, and that the loop hears of the jobs in their
  order, whatever is heard in between.
* `DetachedQuietHolds` adds `Followed`, that whatever started and is not announced has
  its next event somewhere, and `Detach`, what the thread that detaches has seen at
  each of its steps.

`Feed_proofs`, from `FeedAssumption`: `FedHolds` is the invariant `Fed`, one lemma per
step. Neither property is inductive by itself. `WindowFits` relates batch, pack and
window; `FeederAt` and `LoopAt` say what each thread still knows of the line at each
program counter (the feeder appends on a length that was true some steps before, and
only the loop has made it shorter since); `Counted` balances what the source gave
against what is in line, in hand, flying, late or waiting; `Bounded` is the window.
`flying` counts tasks by their size, so the balance is a weighted sum over sizes. Its
definition is a fold, about which nothing can be proved by induction here: `Carries`
states a running sum as a function that a state may have, and the lemmas about it say
how it changes with one entry, by least counterexample.

* `ReadAheadHolds`: `Spec => []ReadAhead`, and `OverMeansOverHolds`:
  `Spec => []OverMeansOver`, for every batch, window and size of tasks.

`Journal_proofs`, from `JournalAssumption` and where `~Hasty` and `Firm`: `Sound` is
one invariant for the loop, the delivery thread, the writer and the caller. Neither
property is inductive by itself: whether a record is true depends on what is still on
its way to the file. `Pend` is what is not on disk yet, the transaction and the queue behind
it as one sequence; `Queued` says what each record in it is about and in which order
those of a job come, `Flushing` that whoever waits for the disk has a flush behind what it
waits for, `Late` that what the callback took after a stop is on record before anybody
hears of the end, `Apart` that a chunk is in one place of its way (source, executor, callback,
answer, record), `Unrecorded` that what is on this way is not on record yet. `Counted`
bounds how often a chunk was taken by the lapses, and says what of it will be remembered
(`Kept`) and what may still be handed over (`Owed`); `Told` relates the status in the
file to the run. `DrainedIs` and `WrittenIs` are lemmas on the recursive functions of the model:
what is recorded of the events a closed loop left, and what a transaction makes of the
file after each of its records (`Prefix`), both by a least counterexample.

* `RecordIsTrueHolds`: `Spec => []RecordIsTrue`.
* `LedgerKept`: `Spec => ImplementsLedger`, the refinement of `Ledger`: taking and failing are
  steps of the ledger when the callback returns and when the loop hears of it, a job is
  complete or discarded when a transaction is committed, and a crash or a failed write
  is a lapse.

`Campaign_proofs`, from `CampaignAssumption`: any number of stages, of any sizes, with
any elements that fail, any attempts and any troubles. `Typed` says what the variables
are and `Shape` how far a directory and its runner can be: stages are done in their
order, at most one is over in the journal of the runner and not done yet, and one that
says it completed left what it says. Each theorem adds the part it needs:

* `OneOrNoneHolds`: `Spec => []OneOrNoneThere`. `Single` says that in the queue is at most
  the attempt that was started last, the one the thread is at, and only while nothing
  says that it is given up; that none is when the thread comes to queue one; and that
  what is queued after a cancel was heard is in `slipped`, or the cancel is.
* `GoesOnHolds`: `Spec => GoesOn`. `Marked` says of every attempt that the stages which are
  over are those that are done, or its runner is between the two, or one was stopped there
  (`cut`); and that one whose last word leaves nothing to do has done all its stages or
  has one that is over and not done.
* `AllDeliveredHolds`: `Spec => []AllDelivered`. Three things are to
  agree. `StageOk` is about the other machine: what the journal of a stage has is in its
  parts, the open one included, or was taken unnoticed (`taken`), each element that failed
  is a line of its errors, and any other
  purge shows, in the last part or in the number of lines (`Sound`, over all attempts and with
  what their runners remember). `Synced` is about the two sides: what the job was given is
  what is in the first parts and lines, as many as the thread counted. `InStep` keeps it
  through queueing again, a new attempt and what the runner writes after the progress was
  read: a round that read a last word read all it speaks of.

`Processes_proofs`, from `ProcessesAssumption`: `Sound` is one invariant for all four
ways a task goes. `HostsFine` follows the letters of a host: each task sent to one is
in exactly one of its pipe, its hands and its answers, which is why nothing is
answered twice and why an idle host has nobody when it leaves; `PoolsFine` and
`RayFine` are the same for a pool that breaks and for marks set while Ray answers;
`Why` says what harm each lost task met.

* `LostByHarmHolds`: `Spec => []LostByHarm`.
* `HeldByOneHolds`: `Spec => []HeldByOne`. A card is chosen by its count and freed by a
  second callback. `CardsFine` says that the count of a card is the number of tasks that
  have it, those included that are told over and have it still. Where there is none of
  these, fewer tasks have cards than there are, so that a free one is found (a pigeonhole
  on cardinalities); where there is, the task that is submitted is in `late`.
  `SlotsFine` is about slots.
* `ContractKept`: `Spec => KeepsContract`, the refinement of `Contract`, by its initial
  states and every step: each is a step of `Contract` or leaves what it speaks of alone.

`Workspace_proofs`, from the assumptions of `Settings`, `Executors` and `Workspace`:

* `SeesItsFilesHolds` and `ChoicesLastHolds`. `Layered` says that the
  layers in memory say what the files do, the user's over the package (a file may hold
  more than its layer, what the package says as well) and the project's exactly, unless
  it is in `strayed`;
  `OnRecord` that a project others moved here left its folder to nobody. Pruning a layer
  and putting it over what it was pruned against are lemmas of their own.
* `MachinesApartHolds` and `MadeOfWhatIsKeptHolds`. `Ordered` knows each thread by what it
  has read (`Typed`, `Sits`): one that starts an executor has the lock, and what it starts
  fits what is active (`Starts`), as far as that is made of what it read and nothing came
  across; one that changes looked at what only the pool used. `Fitted` is that what is
  active fits each other and what is kept, and that whom the pool is aside for is a Ray,
  which takes the pool along when a change comes across it (`Crossing`). The lemmas go
  by thread: a step of one leaves what is known of the others.
* `JobsAtHomeHolds`, the action property, adds `Flows`, that one thread at a time attaches
  the journal, for the project that was open, and that there is no flow without it: so
  neither an executor that has a job (`BusyStays`) nor its project (`HomeProject`) goes
  while the job is there, and closing a project ends the jobs in it.

`~Hasty` and `Firm` (`Journal`) are the only assumptions of a theorem that are not about the type of
a constant; the table above has the counterexample without each. TLC evaluates the
`ASSUME`s of every module in its run.

Only model-checked:

* liveness and ENABLED, out of the prover's reach (`JobsEnd`, `BothSidesEnd`,
  `EveryCallReturns`, `EveryTaskEnds`, `FollowerEnds`; `NobodyStuck` is about what is
  enabled);
* the other modules: `Volumes` with `Vault`, `Remote` and `Graph`. Transactions
  there are folds over what they write (`With`), and are to be said without before they
  can be reasoned about.

## Known and not covered by a run

* A chunk that ran alone once and later travels in the task of another one is
  charged for a death it shared: `_launch` renews the marks of the chunk the task
  goes by only (966), `_on_done` reads the marks of each (718). `HeadChargedForItsOwn`
  is stated for the others.
* With a window of 1, a feeder that appends right after its job was stopped clears
  the event that was to wake it, and stays.
* A `submit` that tells the loop of its job when `close` has begun leaves it running
  for ever (`raced` in `Jobs`, left out of `EveryCallReturns`).
* A job that comes after both a job and one that comes after that job is announced
  twice when the first one fails (left out of `KnownUntilAnnounced` by `Plain`);
  `close` and `detach` mean to stop waiting jobs before they are failed (649), and one that
  waits for a waiting one is failed by the cascade (822).
* `on_finish` runs although the job was stopped while the call was queued (800).
* A repair may delete an orphan that got committed rows between its two looks
  (`payloads.py:665`, 711), although 826 says that a referenced row is never deleted.
* A row of a graph whose relation is deferred and which has no ref of its own is
  silently left unlinked (`core/database/project_store_ops.py:853`); `AsDescribed`
  leaves it out.
* An empty group through a relation that goes round, or a deferred one, is answered in
  the project and refused elsewhere (`core/data/backends.py`). That a ref is given twice
  is looked for there (429) before any is noted, and never found.
* Rows upserted in another database leave no receipt (`core/data/backends.py:621`), so
  that a group with a commit key is written again; the writer of a table gives no key at
  all and ignores `db_role` and `db_path` of its sink.
* A worker of a pool that was killed may still write its progress into a slot that was
  given to another task.
* What a project chose that is the same as what the user chose by then is dropped
  when the project is opened (`core/settings/manager.py:237`), and follows the user
  from then on.
* A save that fails leaves the settings in memory ahead of their file
  (`core/settings/manager.py:372`, 397), and two processes of a user overwrite each
  other's changes: each writes the whole layer it read when it began.
* Two threads whose first call needs the engine both build it: one gets `Busy`. Two
  first submits both attach the journal: one is refused (`engine/engine.py:316`).
* That no two projects have a folder is looked up before the row is written
  (`core/project/repository.py:184`), in another transaction.

## Not modelled

* `Chunks`: priorities and the fair turn (any job may be the next to start), GPU and
  memory tokens (taken and given with the CPUs, in the same two places), an
  executor that refuses a task (it comes back as an `ERROR`), progress and usage.
* `Feed`: what other jobs take of the executor, a count of what is left, sources
  with a state.
* `Jobs`: registering executors and attaching journals (in `Workspace`); waiting jobs
  are looked at in the order of their ids, running ones in any (priorities).
  `Journal`: the brake of a journal that is behind.
* `Processes`: the files Ray carries (an `OSError` in one is swallowed), its tally, how
  machines join its cluster, what is pickled on the way. Tasks Ray has at shutdown may
  never be answered, and are excepted in `EveryTaskEnds`.
* `Remote`: one job with a key and one client at a time; tasks without a key, files
  carried there, `jobs_there`, torn lines, how long an unreachable machine is left
  alone, purges; a job the journal of its runner refuses (`runner.py:409-413`: the end of a
  run and the last word of its progress are one step, so that none is met). A write of a result and its record in
  the runner's journal are one step but for `KilledThere`.
* `Campaign`: one client at a time; a new attempt is made in a directory that a purge took
  only when its runner is gone (`Upload`; `campaign.py:343-347` does not look); a shell command is one step but for the one that
  asks for the progress; failing elements fail in every run; results are purged only
  of a campaign that is complete over there; what makes its identity, the files it
  carries, and the upkeep of old directories.
* `Volumes`: one series; codecs, dictionaries, recompression, exports and the full
  check that reads every needle; `close` and `unlink` of a file that is rolled back
  are one step, and so are making and locking one.
* `Graph`: keys the caller gives instead of refs, `target_ref_field`, conflict keys
  other than the primary key, rows of an upsert with different columns (grouped by
  shape), validation of specifications and rows.
* `Settings`: settings an application has no more (`remove_app_settings`), files of older versions, values that are
  refused, changes two processes make. `Executors`: what building one does on its
  hosts. `Workspace`: two calls on projects or settings that overlap (each is one step), names, a
  catalog that shows what was so before, launching, what only reads.
* Artifacts, selections and queries, what backends read, files, shards and their plans,
  and logging: one thread,
  one statement or one file at a time, whose result a test sees at once.
