----------------------------- MODULE Workspace -----------------------------
(***************************************************************************)
(* The facade of a process (main.py): one project is open at a time        *)
(* (_api_impl/project_runtime.py, core/project/), with its layer of        *)
(* settings (module Settings), its database and its journal, and jobs are  *)
(* submitted in it to the executors that are active (module Executors).    *)
(* The projects on record are those of all the applications of a user,     *)
(* whose catalog (core/project/catalog.py) is another process.             *)
(* A call on projects is one step; a call that submits is several, and     *)
(* other threads come between them.                                        *)
(***************************************************************************)
EXTENDS Settings, Executors

CONSTANTS
  Ids,    \* bound: the jobs that have not ended
  Plans   \* which calls are made, and which executors are kept at first: each a set of their names

Apps == {"mine", "theirs"}

ASSUME WorkspaceAssumption == None \notin Apps

VARIABLES
  plan,      \* which calls the threads of this process make
  rows,      \* the projects on record: whose the one of each folder is
  active,    \* the folder of the active project, where it was opened
  record,    \* the folder it has on record by now
  stuck,     \* a canceller of the active project will fail
  flow,      \* `_flow`: the project whose database it writes
  attached,  \* the project whose journal the engine has as "project"
  strayed    \* history: the settings were last those of a project that was not opened, or were left by one that was

projects == <<rows, active, record, stuck, flow, attached, strayed>>
vars == <<settings, executors, doing, jobs, plan, projects>>

Init ==
  /\ SettingsInit /\ plan \in Plans /\ ExecutorsInit(plan)
  /\ rows = [f \in Folders |-> None] /\ active = None /\ record = None /\ stuck = FALSE /\ flow = None /\ attached = None /\ strayed = FALSE

-----------------------------------------------------------------------------
(* Projects. *)

\* Whose the project in a folder is (`find_project_global`); an application opens its own only
\* (`_validate_project_access`), and no two projects have a folder (`assert_unique_path`).
Owner(f) == rows[f]
Mine(f) == Owner(f) = "mine"
Unique(f) == Owner(f) = None

\* `find_project`, by a name that any project of the application may have.
Named == {f \in Folders : Mine(f)}

\* A call on projects, by a thread that does nothing else; it is one step.
ProjectCall(t, name) ==
  /\ name \in plan /\ At(t, "idle") /\ UNCHANGED <<executors, plan>>
SettingsCall(t, name) == ProjectCall(t, name) /\ UNCHANGED <<doing, jobs, projects>>

\* `_activate_context`, and none: with what canceled the tasks of the one before.
Activates(f) == active' = f /\ record' = f /\ stuck' = FALSE
Stays == UNCHANGED <<active, record, stuck>>

\* Mutant: the journal stays, and the jobs in it.
FlowForgotten == flow' = None /\ UNCHANGED <<jobs, attached, doing>>
\* `_close_project_runtime`: the journal is detached, which ends the jobs in it.  A thread that is to
\* tell the engine of one has a flow and a journal that are closed.
RuntimeCloses ==
  /\ flow' = None
  /\ IF flow = None THEN UNCHANGED <<jobs, attached, doing>>
     ELSE /\ jobs' = {j \in jobs : j.home # attached} /\ attached' = None
          /\ doing' = [t \in Threads |-> IF At(t, "landing") THEN [doing[t] EXCEPT !.home = None, !.flow = None]
                                         ELSE IF At(t, "ready") THEN [doing[t] EXCEPT !.flow = None] ELSE doing[t]]

RuntimeStays == UNCHANGED <<flow, jobs, attached, doing>>

\* `_cancel_project_tasks`: one that fails keeps the project open, and is not asked again.
StaysOpen == stuck' = FALSE /\ RuntimeStays /\ UNCHANGED <<settings, rows, active, record, strayed>>

\* `load_project`, which may fail once the settings are its own.  A folder that is gone is found out
\* when the project before is closed already.
Loads(f) ==
  IF file[f] = None THEN Activates(None) /\ ClearProject /\ strayed' = FALSE
  ELSE SetProject(f, "global") /\ \E g \in {f, None} : Activates(g) /\ strayed' = (g = None)

\* `open_project`.  It is known by its record: the active one may have got another folder since.
Open(t, f) ==
  /\ ProjectCall(t, "projects") /\ Mine(f) /\ record # f
  /\ IF active # None /\ stuck THEN StaysOpen ELSE RuntimeCloses /\ Loads(f) /\ UNCHANGED rows

\* `create_project_record`
Records(f, app) == rows' = [rows EXCEPT ![f] = app]

\* The manager's `create_project`: the settings are those of the new one, then it is on record.
Makes(t, f, base) ==
  /\ ProjectCall(t, "create") /\ Unique(f) /\ RuntimeStays /\ SetProject(f, base)

\* `create_project`, in a folder that is no project on record,
Create(t, f, base) == active = None /\ Makes(t, f, base) /\ Records(f, "mine") /\ Activates(f) /\ strayed' = FALSE

\* ... while another one is open, which is closed when the settings are those of the new one already
\* (core/project/manager.py:104, project_runtime.py:165),
CreateOver(t, f, base) ==
  /\ ProjectCall(t, "create") /\ Unique(f) /\ active # None /\ ~stuck
  /\ RuntimeCloses /\ Activates(f) /\ Records(f, "mine") /\ strayed' = TRUE
  /\ path' = None /\ local' = None /\ UNCHANGED globals /\ Refresh
  /\ file' = [file EXCEPT ![f] = LocalOf(f, IF base = "default" THEN Packaged ELSE Nothing, Global)]

\* ... and without opening it, which its caller may ask for, a failure, or a canceller of the other one.
CreateOnly(t, f, base) ==
  /\ Makes(t, f, base) /\ strayed' = TRUE /\ UNCHANGED <<active, record>>
  /\ \/ (Records(f, "mine") \/ UNCHANGED rows) /\ UNCHANGED stuck
     \/ stuck /\ Records(f, "mine") /\ stuck' = FALSE

\* A project that is loaded, opened or not.
Finds(t, f) ==
  \/ Open(t, f)
  \/ /\ ProjectCall(t, "projects") /\ Mine(f) /\ file[f] # None /\ SetProject(f, "global")
     /\ RuntimeStays /\ UNCHANGED <<rows, active, record, stuck>> /\ strayed' = (strayed \/ f # active)

\* `create_or_open_project`: the one that is there, unless it is another application's; or else the
\* one of that name; or else a new one.
CreateOrOpen(t, f) ==
  \/ Finds(t, f)
  \/ Unique(f) /\ ((\E g \in Named : Finds(t, g)) \/ Create(t, f, "global") \/ CreateOver(t, f, "global") \/ CreateOnly(t, f, "global"))

\* `close_project`, which may be told not to interrupt what is going on.
Close(t, cancel) ==
  /\ ProjectCall(t, "projects") /\ UNCHANGED rows
  /\ IF active = None THEN ClearProject /\ Stays /\ RuntimeStays /\ strayed' = FALSE
     ELSE IF cancel /\ stuck THEN StaysOpen
     ELSE /\ cancel \/ flow = None \/ jobs = {}
          /\ RuntimeCloses /\ Activates(None) /\ ClearProject /\ strayed' = FALSE

\* The manager's `delete_projects`: the folder, then the record.
Forgets(f, files) ==
  /\ rows' = [rows EXCEPT ![f] = None]
  /\ file' = IF files THEN [file EXCEPT ![f] = None] ELSE file

\* `delete_projects`, with the files or only the record.  What another application has by now is let be.
Delete(t, f, files) ==
  /\ ProjectCall(t, "projects") /\ (Mine(f) \/ record = f)
  /\ IF record = f /\ stuck THEN StaysOpen
     ELSE /\ IF Mine(f) THEN Forgets(f, files) ELSE UNCHANGED <<rows, file>>
          /\ IF record = f THEN RuntimeCloses /\ Activates(None) /\ path' = None /\ local' = None /\ strayed' = FALSE
             ELSE Stays /\ RuntimeStays /\ UNCHANGED <<path, local, strayed>>
          /\ UNCHANGED globals /\ Refresh

\* `register_task_canceller`
Register(t) ==
  /\ ProjectCall(t, "projects") /\ active # None /\ stuck' = TRUE
  /\ RuntimeStays /\ UNCHANGED <<settings, rows, active, record, strayed>>

-----------------------------------------------------------------------------
(* Other processes.  They leave alone the folder of what is open here.      *)

Closed(f) == f \notin {active, path}
Elsewhere(name) ==
  name \in plan /\ UNCHANGED <<globals, local, path, effective, executors, doing, jobs, plan, active, stuck, flow, attached, strayed>>

\* Somebody removes the folder of a project that is not open.
Removed(f) ==
  Elsewhere("projects") /\ Closed(f) /\ file' = [file EXCEPT ![f] = None] /\ UNCHANGED <<rows, record>>

\* The catalog's `create_project`, which may fail before it is on record: it has read the settings of
\* the user, and knows nothing of those of an application.
CatalogCreates(f, app, base) ==
  /\ Elsewhere("catalog") /\ Unique(f) /\ Closed(f) /\ (Records(f, app) \/ UNCHANGED rows) /\ UNCHANGED record
  /\ LET g == Pruned(file[User], Undeclared)
         l == LocalOf(f, IF base = "default" THEN Undeclared ELSE Nothing, Over(Undeclared, g))
     IN file' = [file EXCEPT ![User] = g, ![f] = l]

\* `update_project`: another folder, which is made, another application, or neither.
CatalogMoves(f, g, app) ==
  /\ Elsewhere("catalog") /\ ~Unique(f) /\ (f = g \/ (Unique(g) /\ Closed(g)))
  /\ rows' = [rows EXCEPT ![f] = None, ![g] = app]
  /\ file' = [file EXCEPT ![g] = IF @ = None THEN Bare ELSE @]
  /\ record' = IF record = f THEN g ELSE record

\* The catalog's `delete_projects`, of any application.
CatalogDeletes(f, files) ==
  /\ Elsewhere("catalog") /\ ~Unique(f) /\ (files => Closed(f)) /\ Forgets(f, files)
  /\ record' = IF record = f THEN None ELSE record

\* `delete_missing_projects`
Present == [f \in Folders |-> IF file[f] = None THEN None ELSE rows[f]]

\* The process ends, or is shut down, and another one starts, which may forget the projects whose
\* folder is gone.
Restart ==
  /\ LoadSettings /\ Activates(None) /\ flow' = None /\ attached' = None /\ strayed' = FALSE /\ jobs' = {} /\ crossed' = {}
  /\ rows' \in {rows, Present}
  /\ engine' = "none" /\ registered' = [n \in Names |-> Off] /\ aside' = Nobody /\ activation' = Nobody
  /\ doing' = [t \in Threads |-> Idle] /\ UNCHANGED <<kept, host, plan>>

-----------------------------------------------------------------------------
(* Settings. *)

Update(t, k, v, too) == SettingsCall(t, "settings") /\ (IF k \in AppKeys THEN UpdateAppSetting(k, v, too) ELSE UpdateSetting(k, v, too))
SetForUser(t, k, v) == SettingsCall(t, "settings") /\ SetGlobalValue(k, v)
Reset(t, k, target) == SettingsCall(t, "settings") /\ ResetValue(k, target)

-----------------------------------------------------------------------------
(* `submit`, and `move`, which cancels the job first. *)

Only(t) == UNCHANGED <<settings, executors, plan, rows, active, record, stuck, strayed>>

Submits(t, n) ==
  LET then == IF flow # None THEN "ready" ELSE "flow"
  IN Goes(t, [at |-> IF engine = "none" THEN "building" ELSE then, then |-> then,
              name |-> n, home |-> active, flow |-> flow])

Submit(t, n) ==
  /\ "submit" \in plan /\ At(t, "idle") /\ active # None /\ Submits(t, n)
  /\ Only(t) /\ UNCHANGED <<jobs, flow, attached>>

\* Of an executor that is not there nothing is canceled.
Move(t, j, n) ==
  /\ "submit" \in plan /\ At(t, "idle") /\ active # None /\ registered[n] # Off
  /\ jobs' = jobs \ {j} /\ Submits(t, n)
  /\ Only(t) /\ UNCHANGED <<flow, attached>>

\* `_project_flow`: the first one attaches the journal.  One that comes second meanwhile is refused.
Attach(t) ==
  /\ At(t, "flow")
  /\ IF attached # None THEN Ends(t) /\ UNCHANGED attached
     ELSE attached' = doing[t].home /\ Goes(t, [doing[t] EXCEPT !.at = "flowing"])
  /\ Only(t) /\ UNCHANGED <<jobs, flow>>

MakeFlow(t) ==
  /\ At(t, "flowing") /\ flow' = doing[t].home
  /\ Goes(t, [doing[t] EXCEPT !.at = "ready", !.flow = doing[t].home])
  /\ Only(t) /\ UNCHANGED <<jobs, attached>>

\* `_ready`, and `Engine.submit`, which looks for the executor and the journal,
Ready(t) ==
  /\ At(t, "ready")
  /\ IF registered[doing[t].name] = Off \/ attached = None THEN Ends(t)
     ELSE Goes(t, [at |-> "landing", slot |-> registered[doing[t].name], home |-> attached, flow |-> doing[t].flow])
  /\ Only(t) /\ UNCHANGED <<jobs, flow, attached>>

\* ... and then has the job.
Land(t) ==
  /\ At(t, "landing")
  /\ \E i \in Ids \ {j.id : j \in jobs} :
       jobs' = jobs \cup {[id |-> i, slot |-> doing[t].slot, home |-> doing[t].home, flow |-> doing[t].flow]}
  /\ Ends(t)
  /\ Only(t) /\ UNCHANGED <<flow, attached>>

JobEnds(j) ==
  /\ jobs' = jobs \ {j}
  /\ UNCHANGED <<settings, executors, doing, plan, projects>>

-----------------------------------------------------------------------------

ExecutorsCall(t) ==
  /\ UNCHANGED <<settings, plan, projects>>
  /\ \/ BuildEngine(t) \/ BuildPool(t) \/ Activate(t) \/ Started(t) \/ StartFails(t) \/ Deactivate(t) \/ Change(t)
     \/ "start" \in plan /\ \E n \in Names : ActivateCalled(t, n) \/ DeactivateCalled(t, n)
     \/ "executors" \in plan /\ \E n \in Names : ChangeCalled(t, "executors", n)
     \/ "hosts" \in plan /\ \E n \in Hosts : ChangeCalled(t, "hosts", n)

Next ==
  \/ \E t \in Threads :
       \/ ExecutorsCall(t)
       \/ \E f \in Folders :
            \/ Open(t, f) \/ CreateOrOpen(t, f)
            \/ \E base \in {"global", "default"} : Create(t, f, base) \/ CreateOver(t, f, base) \/ CreateOnly(t, f, base)
       \/ \E cancel \in BOOLEAN : Close(t, cancel)
       \/ \E f \in Folders, files \in BOOLEAN : Delete(t, f, files)
       \/ Register(t)
       \/ \E k \in Keys, v \in Values : SetForUser(t, k, v)
       \/ \E k \in Keys, v \in Values, too \in BOOLEAN : Update(t, k, v, too)
       \/ \E k \in Keys, target \in {"global", "default"} : Reset(t, k, target)
       \/ \E n \in Names : Submit(t, n)
       \/ \E n \in Names, j \in jobs : Move(t, j, n)
       \/ Attach(t) \/ MakeFlow(t) \/ Ready(t) \/ Land(t)
  \/ \E f \in Folders :
       \/ Removed(f)
       \/ \E app \in Apps, base \in {"global", "default"} : CatalogCreates(f, app, base)
       \/ \E g \in Folders, app \in Apps : CatalogMoves(f, g, app)
       \/ \E files \in BOOLEAN : CatalogDeletes(f, files)
  \/ \E j \in jobs : JobEnds(j)
  \/ Restart

Spec == Init /\ [][Next]_vars

-----------------------------------------------------------------------------
(* Properties, with MachinesApart and MadeOfWhatIsKept. *)

TypeOK ==
  /\ SettingsTypeOK
  /\ rows \in [Folders -> Apps \cup {None}] /\ {active, record} \subseteq Folders \cup {None} /\ stuck \in BOOLEAN
  /\ flow \in Folders \cup {None} /\ attached \in Folders \cup {None} /\ strayed \in BOOLEAN

\* What everybody reads is what the files of the user and of the active project say, through openings,
\* closings, failures, settings of one layer or both and restarts, and what is set goes to the file
\* of that project ("With a project open it saves locally", core/settings/manager.py:407).  Only what
\* takes up or leaves a project that is not the one open, as creating one over another does, leads
\* astray, until the next one is opened or closed.
SeesItsFiles == ~strayed => effective = View(active) /\ path = active

\* What a project and the user have chosen outlives the opening, closing, creating and deleting of
\* others and of itself: files are rewritten on the way, but say the same.
ChoicesLast ==
  [][path' # path => \A f \in Folders \cup {None} :
       (f # None => HasFile(f) /\ HasFile(f)') => View(f)' = View(f)]_vars

\* The job runs on an executor that is there, goes to the database of the project that is open, and is
\* recorded there too.
AtHome(j) ==
  /\ j.slot \in {registered[n] : n \in Names} \ {Off}
  /\ active # None /\ j.home = active /\ j.flow = active /\ attached = active /\ flow = active

\* Executors and projects change between jobs, never under one: a job that is at home is so until it
\* ends, whichever threads start, stop, change, open, close and submit meanwhile (`submit`,
\* job_api.py:287-288, and `unregister`, engine/engine.py:294).
JobsAtHome == [][\A j \in jobs : j \in jobs' /\ AtHome(j) => AtHome(j)']_vars
=============================================================================
