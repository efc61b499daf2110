-------------------------- MODULE Workspace_proofs --------------------------
(***************************************************************************)
(* Proofs about the facade of a process: what everybody reads is what the  *)
(* files say; a machine works for one executor at a time; and executors    *)
(* and projects change between jobs, never under one.                      *)
(***************************************************************************)
EXTENDS Workspace, TLAPS

-----------------------------------------------------------------------------
(* The settings and the projects *)

\* The layers in memory say what the files do: for the user over the package, for the project exactly.
Layered ==
  /\ file \in [Folders \cup {User} -> Layers \cup {None, Bare}] /\ HasFile(User)
  /\ globals \in Layers /\ local \in Layers \cup {None}
  /\ path \in Folders \cup {None} /\ active \in Folders \cup {None}
  /\ Over(Packaged, globals) = Over(Packaged, file[User])
  /\ effective = Compose(globals, local)
  /\ path = None <=> local = None
  /\ ~strayed => path = active /\ (path # None => local = file[path])

\* A project that was moved or forgotten by others while it is open here left its folder to nobody.
OnRecord ==
  /\ rows \in [Folders -> Apps \cup {None}] /\ record \in Folders \cup {None}
  /\ ~strayed /\ active # None /\ rows[active] # None => record = active

-----------------------------------------------------------------------------
(* Layers *)

\* What is known of the layers.
LEMMA LayersAre ==
  /\ Packaged \in [Keys -> Values] /\ AppKeys \subseteq Keys /\ Unset \notin Values
  /\ None \notin Layers /\ Bare \notin Layers /\ None \notin Folders /\ Bare \notin Folders /\ User \notin Folders
  /\ None # Bare /\ None \notin Apps /\ Nothing \in Layers /\ Undeclared \in Layers /\ Packaged \in Layers
BY SettingsAssumption, LayersAssumption, WorkspaceAssumption DEF Layers, Nothing, Undeclared

\* A layer over what gives a value to every key gives one too.
LEMMA OverIs ==
  ASSUME NEW base \in [Keys -> Values], NEW layer \in Layers
  PROVE  Over(base, layer) \in [Keys -> Values]
BY LayersAre DEF Over, Says, Layers

\* A layer without what is said below says the same.
LEMMA PrunedSame ==
  ASSUME NEW base \in [Keys -> Values], NEW layer \in Layers
  PROVE  Pruned(layer, base) \in Layers /\ Over(base, Pruned(layer, base)) = Over(base, layer)
BY LayersAre DEF Over, Says, Layers, Pruned

\* Nor does it say another thing where not everything is said below.
LEMMA PrunedBelow ==
  ASSUME NEW below \in Layers, NEW layer \in Layers
  PROVE  Pruned(layer, below) \in Layers
BY LayersAre DEF Over, Says, Layers, Pruned

\* A process that does not know the application leaves its settings as they are.
LEMMA UndeclaredSame ==
  ASSUME NEW layer \in Layers
  PROVE  Pruned(layer, Undeclared) \in Layers /\ Over(Packaged, Pruned(layer, Undeclared)) = Over(Packaged, layer)
BY LayersAre DEF Over, Says, Layers, Pruned, Undeclared

\* What a process is to see, layer over layer.
LEMMA ViewIs ==
  ASSUME NEW f, f # None => f \in Folders, file[User] \in Layers, f # None /\ HasFile(f) => file[f] \in Layers
  PROVE  View(f) = IF f # None /\ HasFile(f) THEN Over(Over(Packaged, file[User]), file[f]) ELSE Over(Packaged, file[User])
BY LayersAre DEF View, Over, Says, Layers

\* What the invariant says of the layers and of the records.
LEMMA LayersKnown ==
  ASSUME Layered
  PROVE  /\ file \in [Folders \cup {User} -> Layers \cup {None, Bare}] /\ file[User] \in Layers /\ globals \in Layers
         /\ Over(Packaged, globals) \in [Keys -> Values] /\ Global = Over(Packaged, globals)
         /\ path \in Folders \cup {None} /\ active \in Folders \cup {None}
         /\ \A f \in Folders : HasFile(f) => file[f] \in Layers
         /\ HasProject <=> path # None
BY LayersAre, OverIs DEF Layered, HasFile, Global, HasProject

\* What everybody reads is what is to be seen.
LEMMA LayeredSees == Layered => SeesItsFiles
<1> SUFFICES ASSUME Layered, ~strayed PROVE effective = View(active) /\ path = active
  BY DEF SeesItsFiles
<1>1. View(path) = IF path # None /\ HasFile(path) THEN Over(Over(Packaged, file[User]), file[path]) ELSE Over(Packaged, file[User])
  BY LayersKnown, ViewIs
<1>2. CASE path = None
  BY <1>1, <1>2 DEF Layered, Compose
<1>3. CASE path # None
  <2>1. HasFile(path) /\ local # None
    BY <1>3, LayersAre DEF Layered, HasFile
  <2> QED BY <1>1, <1>3, <2>1 DEF Layered, Compose
<1> QED BY <1>2, <1>3

\* Two processes that differ in a layer of the user only by what says nothing see the same.
LEMMA ViewStays ==
  ASSUME NEW f \in Folders \cup {None}, Layered, file'[User] \in Layers,
         Over(Packaged, file'[User]) = Over(Packaged, file[User]),
         f # None => /\ HasFile(f) /\ HasFile(f)' /\ file'[f] \in Layers
                     /\ Over(Over(Packaged, file[User]), file'[f]) = Over(Over(Packaged, file[User]), file[f])
  PROVE  View(f)' = View(f)
<1>1. View(f) = IF f # None /\ HasFile(f) THEN Over(Over(Packaged, file[User]), file[f]) ELSE Over(Packaged, file[User])
  BY LayersKnown, ViewIs
<1>2. View(f)' = IF f # None /\ HasFile(f)' THEN Over(Over(Packaged, file'[User]), file'[f]) ELSE Over(Packaged, file'[User])
  BY LayersAre DEF View, Over, Says, Layers
<1> QED BY <1>1, <1>2

-----------------------------------------------------------------------------
(* The calls of settings *)

\* What a call on settings leaves: a file is said of each layer, and others are as they were.
Sees ==
  /\ Layered'
  /\ path' # path => \A f \in Folders \cup {None} : (f # None => HasFile(f) /\ HasFile(f)') => View(f)' = View(f)

\* What a call that keeps the layer of the user and writes a file or none leaves.
LEMMA SeesFile ==
  ASSUME Layered, UNCHANGED globals, Refresh, path' \in Folders \cup {None}, active' \in Folders \cup {None},
         file' \in [Folders \cup {User} -> Layers \cup {None, Bare}], file'[User] = file[User],
         path' = None => local' = None,
         path' # None => local' \in Layers,
         ~strayed' => path' = active' /\ (path' # None => local' = file'[path']),
         \A f \in Folders : HasFile(f) /\ HasFile(f)' => file'[f] = file[f] \/ file'[f] = Pruned(file[f], Global)
  PROVE  Sees
<1>1. Layered'
  BY LayersKnown, LayersAre DEF Layered, HasFile, Refresh
<1>2. ASSUME NEW f \in Folders \cup {None}, f # None => HasFile(f) /\ HasFile(f)' PROVE View(f)' = View(f)
  <2>1. CASE f = None
    BY <2>1, LayersKnown, ViewStays
  <2>2. CASE f # None
    <3>1. file[f] \in Layers /\ f \in Folders
      BY <1>2, <2>2, LayersKnown
    <3>2. Pruned(file[f], Global) \in Layers /\ Over(Global, Pruned(file[f], Global)) = Over(Global, file[f])
      BY <3>1, LayersKnown, PrunedSame
    <3>3. Global = Over(Packaged, file[User])
      BY LayersKnown DEF Layered
    <3>4. file'[f] = file[f] \/ file'[f] = Pruned(file[f], Global)
      BY <1>2, <2>2, <3>1
    <3> QED BY <1>2, <3>1, <3>2, <3>3, <3>4, LayersKnown, ViewStays
  <2> QED BY <2>1, <2>2
<1> QED BY <1>1, <1>2 DEF Sees

\* What a project in a folder says is a layer.
LEMMA LocalIs ==
  ASSUME Layered, NEW f \in Folders, NEW start \in Layers
  PROVE  LocalOf(f, start, Global) \in Layers /\ (HasFile(f) => LocalOf(f, start, Global) = Pruned(file[f], Global))
<1>1. Global \in [Keys -> Values]
  BY LayersKnown
<1> QED BY <1>1, LayersKnown, PrunedSame DEF LocalOf

\* A project that is opened.
LEMMA SetProjectSees ==
  ASSUME Layered, NEW f \in Folders, NEW base, SetProject(f, base), active' \in Folders \cup {None}, ~strayed' => active' = f
  PROVE  Sees
<1>1. PICK start \in Layers : local' = LocalOf(f, start, Global)
  BY LayersAre DEF SetProject
<1>2. local' \in Layers /\ (HasFile(f) => local' = Pruned(file[f], Global))
  BY <1>1, LocalIs
<1>3. /\ file' = [file EXCEPT ![f] = local'] /\ path' = f /\ UNCHANGED globals /\ Refresh
  BY DEF SetProject
<1>4. f # None /\ f # User /\ file \in [Folders \cup {User} -> Layers \cup {None, Bare}]
  BY LayersAre, LayersKnown
<1>5. \A g \in Folders : HasFile(g) /\ HasFile(g)' => file'[g] = file[g] \/ file'[g] = Pruned(file[g], Global)
  BY <1>2, <1>3, <1>4
<1> QED BY <1>2, <1>3, <1>4, <1>5, SeesFile

\* No project any more, with or without a folder that is gone.
LEMMA ClearProjectSees ==
  ASSUME Layered, path' = None, local' = None, active' = None, UNCHANGED globals, Refresh,
         file' = file \/ \E f \in Folders : file' = [file EXCEPT ![f] = None]
  PROVE  Sees
<1>1. file \in [Folders \cup {User} -> Layers \cup {None, Bare}] /\ User \notin Folders
  BY LayersAre, LayersKnown
<1>2. \A g \in Folders : HasFile(g) /\ HasFile(g)' => file'[g] = file[g]
  BY <1>1 DEF HasFile
<1> QED BY <1>1, <1>2, SeesFile

\* A folder comes or goes, which is not that of the project that is open.
LEMMA OtherFileSees ==
  ASSUME Layered, UNCHANGED <<globals, local, path, effective, active, strayed>>, NEW f \in Folders, strayed \/ f # path,
         NEW l \in Layers \cup {None, Bare}, NEW u \in Layers, Over(Packaged, u) = Over(Packaged, file[User]),
         file' = [file EXCEPT ![User] = u, ![f] = l]
  PROVE  Sees
<1>1. file \in [Folders \cup {User} -> Layers \cup {None, Bare}] /\ User \notin Folders
  BY LayersAre, LayersKnown
<1>2. file' \in [Folders \cup {User} -> Layers \cup {None, Bare}] /\ file'[User] = u
  BY <1>1
<1>3. path # None => strayed \/ file'[path] = file[path]
  BY <1>1, LayersKnown
<1> QED BY <1>2, <1>3, LayersAre DEF Sees, Layered, HasFile, Compose

\* A step that leaves the settings.
LEMMA SameSees ==
  ASSUME Layered, UNCHANGED settings, UNCHANGED <<active, strayed>>
  PROVE  Sees
BY DEF Layered, Sees, settings, HasFile, Compose

\* A setting is written in one layer or in both.
LEMMA SettingSees ==
  ASSUME Layered, UNCHANGED <<path, active, strayed>>, Refresh, globals' \in Layers,
         local' = local \/ (HasProject /\ local' \in Layers),
         \/ UNCHANGED globals /\ file'[User] = file[User]
         \/ file'[User] = globals',
         file' \in [Folders \cup {User} -> Layers \cup {None, Bare}],
         ~strayed /\ path # None => file'[path] = local'
  PROVE  Sees
<1>1. file'[User] \in Layers /\ Over(Packaged, globals') = Over(Packaged, file'[User])
  BY LayersKnown DEF Layered
<1>2. local' \in Layers \cup {None} /\ (path' = None <=> local' = None)
  BY LayersKnown, LayersAre DEF Layered, HasProject
<1>3. HasFile(User)'
  BY <1>1, LayersAre DEF HasFile
<1> QED BY <1>1, <1>2, <1>3, LayersKnown DEF Sees, Layered, Refresh

\* `update_setting`, of one layer or of both.
LEMMA UpdateSees ==
  ASSUME Layered, UNCHANGED <<active, strayed>>, NEW k \in Keys, NEW v \in Values, NEW too \in BOOLEAN, UpdateSetting(k, v, too)
  PROVE  Sees
<1>1. /\ local' = IF HasProject THEN With(local, k, v) ELSE local
      /\ globals' = IF too \/ ~HasProject THEN With(globals, k, v) ELSE globals
      /\ file' = [f \in DOMAIN file |-> IF f = User THEN globals' ELSE IF f = path /\ HasProject THEN local' ELSE file[f]]
      /\ UNCHANGED path /\ Refresh
  BY DEF UpdateSetting
<1>2. With(globals, k, v) \in Layers /\ (HasProject => With(local, k, v) \in Layers)
  BY LayersKnown DEF With, Layers, Layered
<1>3. globals' \in Layers /\ (local' = local \/ (HasProject /\ local' \in Layers))
  BY <1>1, <1>2, LayersKnown
<1>4. file' \in [Folders \cup {User} -> Layers \cup {None, Bare}] /\ file'[User] = globals'
  <2>1. HasProject => local' \in Layers
    BY <1>1, <1>2
  <2>2. DOMAIN file = Folders \cup {User} /\ \A f \in Folders \cup {User} : file[f] \in Layers \cup {None, Bare}
    BY LayersKnown
  <2>3. \A f \in Folders \cup {User} :
          (IF f = User THEN globals' ELSE IF f = path /\ HasProject THEN local' ELSE file[f]) \in Layers \cup {None, Bare}
    BY <1>3, <2>1, <2>2
  <2> QED BY <1>1, <2>2, <2>3
<1>5. path # None => file'[path] = local'
  BY <1>1, LayersKnown, LayersAre DEF HasProject
<1> QED BY <1>1, <1>3, <1>4, <1>5, SettingSees

\* `set_global_value`
LEMMA SetGlobalSees ==
  ASSUME Layered, UNCHANGED <<active, strayed>>, NEW k \in Keys, NEW v \in Values \cup {Unset}, SetGlobalValue(k, v)
  PROVE  Sees
<1>1. /\ globals' = With(globals, k, v) /\ file' = [file EXCEPT ![User] = globals']
      /\ UNCHANGED <<local, path>> /\ Refresh
  BY DEF SetGlobalValue
<1>2. globals' \in Layers
  BY <1>1, LayersKnown DEF With, Layers
<1>3. file' \in [Folders \cup {User} -> Layers \cup {None, Bare}] /\ file'[User] = globals'
  BY <1>1, <1>2, LayersKnown
<1>4. ~strayed /\ path # None => file'[path] = local'
  BY <1>1, LayersKnown, LayersAre DEF Layered
<1> QED BY <1>1, <1>2, <1>3, <1>4, SettingSees

\* `reset_value`, to what the user says or to what the package does.
LEMMA ResetSees ==
  ASSUME Layered, UNCHANGED <<active, strayed>>, NEW k \in Keys, NEW target \in {"global", "default"}, ResetValue(k, target)
  PROVE  Sees
<1>1. Packaged[k] \in Values
  BY LayersAre
<1>2. CASE target = "default" /\ HasProject
  BY <1>1, <1>2, UpdateSees DEF ResetValue
<1>3. CASE target = "default" /\ ~HasProject
  BY <1>3, SetGlobalSees DEF ResetValue
<1>4. CASE target = "global"
  <2>1. /\ HasProject /\ local' = With(local, k, Unset) /\ file' = [file EXCEPT ![path] = local']
        /\ UNCHANGED <<globals, path>> /\ Refresh
    BY <1>4 DEF ResetValue
  <2>2. path \in Folders /\ local' \in Layers
    BY <2>1, LayersKnown DEF Layered, With, Layers
  <2>3. file' \in [Folders \cup {User} -> Layers \cup {None, Bare}] /\ file'[User] = file[User] /\ file'[path] = local'
    BY <2>1, <2>2, LayersKnown, LayersAre
  <2> QED BY <2>1, <2>2, <2>3, LayersKnown, SettingSees
<1> QED BY <1>2, <1>3, <1>4

\* The process that comes next.
LEMMA LoadSees ==
  ASSUME Layered, LoadSettings, active' = None, ~strayed'
  PROVE  Sees
<1>1. /\ globals' = Pruned(file[User], Undeclared) /\ file' = [file EXCEPT ![User] = globals']
      /\ local' = None /\ path' = None /\ Refresh
  BY DEF LoadSettings
<1>2. globals' \in Layers /\ Over(Packaged, globals') = Over(Packaged, file[User])
  BY <1>1, LayersKnown, UndeclaredSame
<1>3. /\ file' \in [Folders \cup {User} -> Layers \cup {None, Bare}] /\ file'[User] = globals'
      /\ \A f \in Folders : file'[f] = file[f]
  BY <1>1, <1>2, LayersKnown, LayersAre
<1>4. Layered'
  BY <1>1, <1>2, <1>3, LayersAre DEF Layered, HasFile, Refresh
<1>5. ASSUME NEW f \in Folders \cup {None}, f # None => HasFile(f) /\ HasFile(f)' PROVE View(f)' = View(f)
  BY <1>2, <1>3, <1>5, LayersKnown, ViewStays
<1> QED BY <1>4, <1>5 DEF Sees

-----------------------------------------------------------------------------
(* The calls on projects *)

\* A project is opened, unless its folder is gone.
LEMMA LoadsSees ==
  ASSUME Layered, OnRecord, NEW f \in Folders, Mine(f), Loads(f), UNCHANGED rows
  PROVE  Sees /\ OnRecord'
<1>1. CASE file[f] = None
  <2>1. active' = None /\ record' = None /\ ClearProject
    BY <1>1 DEF Loads, Activates
  <2> QED BY <2>1, ClearProjectSees DEF ClearProject, OnRecord
<1>2. CASE file[f] # None
  <2>1. SetProject(f, "global") /\ active' \in {f, None} /\ record' = active' /\ (~strayed' => active' = f)
    BY <1>2 DEF Loads, Activates
  <2> QED BY <2>1, SetProjectSees DEF OnRecord
<1> QED BY <1>1, <1>2

\* What is open stays so, with its records.
LEMMA RecordSame ==
  ASSUME OnRecord, UNCHANGED <<rows, active, record, strayed>>
  PROVE  OnRecord'
BY DEF OnRecord

\* `open_project`, which may be refused by what cannot be canceled.
LEMMA OpenSees ==
  ASSUME Layered, OnRecord, NEW t \in Threads, NEW f \in Folders, Open(t, f)
  PROVE  Sees /\ OnRecord'
<1>1. CASE active # None /\ stuck
  <2>1. UNCHANGED settings /\ UNCHANGED <<rows, active, record, strayed>>
    BY <1>1 DEF Open, StaysOpen
  <2> QED BY <2>1, SameSees, RecordSame
<1>2. CASE ~(active # None /\ stuck)
  <2>1. Mine(f) /\ Loads(f) /\ UNCHANGED rows
    BY <1>2 DEF Open
  <2> QED BY <2>1, LoadsSees
<1> QED BY <1>1, <1>2

\* A new project, while none is open or another one is, opened or not.
LEMMA CreateSees ==
  ASSUME Layered, OnRecord, NEW t \in Threads, NEW f \in Folders, NEW base \in {"global", "default"},
         Create(t, f, base) \/ CreateOver(t, f, base) \/ CreateOnly(t, f, base)
  PROVE  Sees /\ OnRecord'
<1>1. (rows' = [rows EXCEPT ![f] = "mine"] \/ rows' = rows) /\ record' \in Folders \cup {None}
  BY DEF Create, CreateOver, CreateOnly, Makes, Records, Activates, OnRecord
<1>2. rows' \in [Folders -> Apps \cup {None}]
  BY <1>1 DEF OnRecord, Apps
<1>3. ~strayed' => record' = active'
  BY DEF Create, CreateOver, CreateOnly, Activates
<1>4. OnRecord'
  BY <1>1, <1>2, <1>3 DEF OnRecord
<1>5. CASE Create(t, f, base) \/ CreateOnly(t, f, base)
  <2>1. SetProject(f, base) /\ active' \in Folders \cup {None} /\ (~strayed' => active' = f)
    BY <1>5, LayersKnown DEF Create, CreateOnly, Makes, Activates
  <2> QED BY <1>4, <2>1, SetProjectSees
<1>6. CASE CreateOver(t, f, base)
  <2>1. PICK start \in Layers : file' = [file EXCEPT ![f] = LocalOf(f, start, Global)]
    BY <1>6, LayersAre DEF CreateOver
  <2>2. /\ path' = None /\ local' = None /\ active' = f /\ strayed' = TRUE /\ UNCHANGED globals /\ Refresh
    BY <1>6 DEF CreateOver, Activates
  <2>3. LocalOf(f, start, Global) \in Layers /\ (HasFile(f) => LocalOf(f, start, Global) = Pruned(file[f], Global))
    BY LocalIs
  <2>4. f # User /\ file \in [Folders \cup {User} -> Layers \cup {None, Bare}]
    BY LayersAre, LayersKnown
  <2>5. \A g \in Folders : HasFile(g) /\ HasFile(g)' => file'[g] = file[g] \/ file'[g] = Pruned(file[g], Global)
    BY <2>1, <2>3, <2>4
  <2> QED BY <1>4, <2>1, <2>2, <2>3, <2>4, <2>5, SeesFile
<1> QED BY <1>5, <1>6

\* A project that is opened by its name or by its folder.
LEMMA FindsSees ==
  ASSUME Layered, OnRecord, NEW t \in Threads, NEW f \in Folders, Finds(t, f)
  PROVE  Sees /\ OnRecord'
<1>1. CASE Open(t, f)
  BY <1>1, OpenSees
<1>2. CASE ~Open(t, f)
  <2>1. SetProject(f, "global") /\ UNCHANGED <<rows, active, record>> /\ strayed' = (strayed \/ f # active)
    BY <1>2 DEF Finds
  <2>2. Sees
    BY <2>1, LayersKnown, SetProjectSees
  <2> QED BY <2>1, <2>2 DEF OnRecord
<1> QED BY <1>1, <1>2

\* `create_or_open_project`
LEMMA CreateOrOpenSees ==
  ASSUME Layered, OnRecord, NEW t \in Threads, NEW f \in Folders, CreateOrOpen(t, f)
  PROVE  Sees /\ OnRecord'
<1>1. CASE Finds(t, f)
  BY <1>1, FindsSees
<1>2. ASSUME NEW g \in Named, Finds(t, g) PROVE Sees /\ OnRecord'
  BY <1>2, FindsSees DEF Named
<1>3. CASE Create(t, f, "global") \/ CreateOver(t, f, "global") \/ CreateOnly(t, f, "global")
  BY <1>3, CreateSees
<1> QED BY <1>1, <1>2, <1>3 DEF CreateOrOpen

\* `close_project`
LEMMA CloseSees ==
  ASSUME Layered, OnRecord, NEW t \in Threads, NEW cancel \in BOOLEAN, Close(t, cancel)
  PROVE  Sees /\ OnRecord'
<1>1. CASE active = None
  <2>1. ClearProject /\ UNCHANGED <<rows, active, record>>
    BY <1>1 DEF Close, Stays
  <2>2. OnRecord'
    BY <1>1, <2>1 DEF OnRecord
  <2> QED BY <1>1, <2>1, <2>2, ClearProjectSees DEF ClearProject
<1>2. CASE active # None /\ cancel /\ stuck
  <2>1. UNCHANGED settings /\ UNCHANGED <<rows, active, record, strayed>>
    BY <1>2 DEF Close, StaysOpen
  <2> QED BY <2>1, SameSees, RecordSame
<1>3. CASE active # None /\ ~(cancel /\ stuck)
  <2>1. ClearProject /\ active' = None /\ record' = None /\ UNCHANGED rows
    BY <1>3 DEF Close, Activates
  <2> QED BY <2>1, ClearProjectSees DEF ClearProject, OnRecord
<1> QED BY <1>1, <1>2, <1>3

\* `delete_projects`: of the one that is open, or of another one.
LEMMA DeleteSees ==
  ASSUME Layered, OnRecord, NEW t \in Threads, NEW f \in Folders, NEW files \in BOOLEAN, Delete(t, f, files)
  PROVE  Sees /\ OnRecord'
<1>1. CASE record = f /\ stuck
  <2>1. UNCHANGED settings /\ UNCHANGED <<rows, active, record, strayed>>
    BY <1>1 DEF Delete, StaysOpen
  <2> QED BY <2>1, SameSees, RecordSame
<1>2. CASE record = f /\ ~stuck
  <2>1. /\ path' = None /\ local' = None /\ active' = None /\ record' = None /\ UNCHANGED globals /\ Refresh
        /\ Forgets(f, files) \/ UNCHANGED <<rows, file>>
    BY <1>2 DEF Delete, Activates
  <2>2. file' = file \/ file' = [file EXCEPT ![f] = None]
    BY <2>1 DEF Forgets
  <2>3. rows' \in [Folders -> Apps \cup {None}]
    BY <2>1 DEF Forgets, OnRecord
  <2> QED BY <2>1, <2>2, <2>3, ClearProjectSees DEF OnRecord
<1>3. CASE record # f
  <2>1. /\ Mine(f) /\ Forgets(f, files) /\ UNCHANGED <<active, record, path, local, globals, strayed>> /\ Refresh
    BY <1>3 DEF Delete, Stays
  <2>2. strayed \/ f # path
    <3> SUFFICES ASSUME ~strayed, f = active PROVE FALSE
      BY DEF Layered
    <3>1. active # None /\ rows[active] # None
      BY <2>1, LayersAre DEF Mine, Owner, Apps
    <3> QED BY <1>3, <3>1 DEF OnRecord
  <2>3. effective' = effective
    BY <2>1 DEF Refresh, Layered
  <2>4. OnRecord'
    BY <2>1 DEF Forgets, OnRecord
  <2>5. file' = [file EXCEPT ![User] = file[User], ![f] = file[f]] \/ file' = [file EXCEPT ![User] = file[User], ![f] = None]
    BY <2>1, LayersKnown DEF Forgets
  <2>6. file[f] \in Layers \cup {None, Bare} /\ file[User] \in Layers
    BY LayersKnown
  <2> QED BY <2>1, <2>2, <2>3, <2>4, <2>5, <2>6, OtherFileSees
<1> QED BY <1>1, <1>2, <1>3

-----------------------------------------------------------------------------
(* Other processes *)

\* Somebody removes a folder.
LEMMA RemovedSees == ASSUME Layered, OnRecord, NEW f \in Folders, Removed(f) PROVE Sees /\ OnRecord'
<1>1. UNCHANGED <<globals, local, path, effective, active, rows, record, strayed>> /\ f # path /\ file' = [file EXCEPT ![f] = None]
  BY DEF Removed, Elsewhere, Closed
<1>2. file' = [file EXCEPT ![User] = file[User], ![f] = None] /\ file[User] \in Layers
  BY <1>1, LayersKnown
<1> QED BY <1>1, <1>2, OtherFileSees, RecordSame

\* The catalog rewrites the file of the user, which says the same then.
LEMMA CatalogCreatesSees ==
  ASSUME Layered, OnRecord, NEW f \in Folders, NEW app \in Apps, NEW base \in {"global", "default"}, CatalogCreates(f, app, base)
  PROVE  Sees /\ OnRecord'
<1>1. PICK g : g = Pruned(file[User], Undeclared)
  OBVIOUS
<1>2. PICK start \in Layers : start = IF base = "default" THEN Undeclared ELSE Nothing
  BY LayersAre
<1>3. PICK l : l = LocalOf(f, start, Over(Undeclared, g))
  OBVIOUS
<1>4. /\ UNCHANGED <<globals, local, path, effective, active, record, strayed>> /\ f # path /\ f # active /\ Unique(f)
      /\ (Records(f, app) \/ UNCHANGED rows) /\ file' = [file EXCEPT ![User] = g, ![f] = l]
  BY <1>1, <1>2, <1>3 DEF CatalogCreates, Elsewhere, Closed
<1>5. g \in Layers /\ Over(Packaged, g) = Over(Packaged, file[User])
  BY <1>1, LayersKnown, UndeclaredSame
<1>6. l \in Layers
  <2>1. Over(Undeclared, g) \in Layers
    BY <1>5, LayersAre DEF Over, Says, Layers
  <2> QED BY <1>2, <1>3, <2>1, LayersKnown, PrunedBelow DEF LocalOf
<1>7. OnRecord'
  <2>1. rows' = rows \/ rows' = [rows EXCEPT ![f] = app]
    BY <1>4 DEF Records
  <2>2. rows \in [Folders -> Apps \cup {None}]
    BY DEF OnRecord
  <2>3. rows' \in [Folders -> Apps \cup {None}] /\ (active \in Folders => rows'[active] = rows[active])
    BY <1>4, <2>1, <2>2
  <2> QED BY <1>4, <2>3, LayersKnown DEF OnRecord
<1> QED BY <1>4, <1>5, <1>6, <1>7, OtherFileSees

\* What the catalog moves where a file is keeps that file.
LEMMA CatalogMovesSees ==
  ASSUME Layered, OnRecord, NEW f \in Folders, NEW g \in Folders, NEW app \in Apps, CatalogMoves(f, g, app)
  PROVE  Sees /\ OnRecord'
<1>1. /\ UNCHANGED <<globals, local, path, effective, active, strayed>> /\ rows[f] # None /\ (f = g \/ (rows[g] = None /\ g \notin {active, path}))
      /\ rows' = [rows EXCEPT ![f] = None, ![g] = app] /\ record' = IF record = f THEN g ELSE record
      /\ file' = [file EXCEPT ![g] = IF file[g] = None THEN Bare ELSE file[g]]
  BY DEF CatalogMoves, Elsewhere, Closed, Unique, Owner
<1>2. OnRecord'
  <2>1. rows \in [Folders -> Apps \cup {None}] /\ rows' \in [Folders -> Apps \cup {None}]
    BY <1>1 DEF OnRecord
  <2>2. record \in Folders \cup {None} /\ record' \in Folders \cup {None}
    BY <1>1 DEF OnRecord
  <2>3. ASSUME ~strayed, active # None, rows'[active] # None PROVE record' = active
    <3>1. active \in Folders
      BY <2>3, LayersKnown
    <3>2. CASE active = g
      BY <1>1, <2>1, <2>3, <3>1, <3>2 DEF OnRecord
    <3>3. CASE active # g
      <4>1. active # f /\ rows'[active] = rows[active]
        BY <1>1, <2>1, <2>3, <3>1, <3>3
      <4> QED BY <1>1, <2>3, <4>1 DEF OnRecord
    <3> QED BY <3>2, <3>3
  <2> QED BY <1>1, <2>1, <2>2, <2>3 DEF OnRecord
<1>3. file[User] \in Layers /\ User # g
  BY LayersKnown, LayersAre
<1>4. CASE g = path /\ ~strayed
  <2>1. file[g] # None
    BY <1>4, LayersAre DEF Layered
  <2>2. file' = file
    BY <1>1, <2>1, LayersKnown
  <2> QED BY <1>1, <1>2, <2>2, SameSees DEF settings
<1>5. CASE g # path \/ strayed
  <2>1. PICK l : l = IF file[g] = None THEN Bare ELSE file[g]
    OBVIOUS
  <2>2. l \in Layers \cup {None, Bare} /\ file' = [file EXCEPT ![User] = file[User], ![g] = l]
    BY <1>1, <2>1, LayersKnown
  <2> QED BY <1>1, <1>2, <1>3, <1>5, <2>2, OtherFileSees
<1> QED BY <1>4, <1>5

\* The catalog deletes files of nobody here.
LEMMA CatalogDeletesSees ==
  ASSUME Layered, OnRecord, NEW f \in Folders, NEW files \in BOOLEAN, CatalogDeletes(f, files)
  PROVE  Sees /\ OnRecord'
<1>1. /\ UNCHANGED <<globals, local, path, effective, active, strayed>> /\ (files => f # path)
      /\ rows' = [rows EXCEPT ![f] = None] /\ record' = IF record = f THEN None ELSE record
      /\ file' = IF files THEN [file EXCEPT ![f] = None] ELSE file
  BY DEF CatalogDeletes, Elsewhere, Closed, Forgets
<1>2. OnRecord'
  BY <1>1, LayersAre DEF OnRecord
<1>3. CASE files
  <2>1. file' = [file EXCEPT ![User] = file[User], ![f] = None] /\ file[User] \in Layers
    BY <1>1, <1>3, LayersKnown
  <2> QED BY <1>1, <1>2, <1>3, <2>1, OtherFileSees
<1>4. CASE ~files
  BY <1>1, <1>2, <1>4, SameSees DEF settings
<1> QED BY <1>3, <1>4

\* A process that starts reads what the files say.
LEMMA RestartSees == ASSUME Layered, OnRecord, Restart PROVE Sees /\ OnRecord'
<1>1. LoadSettings /\ active' = None /\ record' = None /\ strayed' = FALSE /\ rows' \in {rows, Present}
  BY DEF Restart, Activates
<1>2. rows' \in [Folders -> Apps \cup {None}]
  BY <1>1 DEF OnRecord, Present
<1> QED BY <1>1, <1>2, LoadSees DEF OnRecord

-----------------------------------------------------------------------------
(* What is seen *)

\* At the start there is the package, and no project.
LEMMA LayeredInit == Init => Layered /\ OnRecord
<1> SUFFICES ASSUME Init PROVE Layered /\ OnRecord
  OBVIOUS
<1>1. /\ file = [f \in Folders \cup {User} |-> IF f = User THEN Nothing ELSE None]
      /\ globals = Nothing /\ local = None /\ path = None /\ effective = Packaged
      /\ rows = [f \in Folders |-> None] /\ active = None /\ record = None /\ strayed = FALSE
  BY DEF Init, SettingsInit
<1>2. Over(Packaged, Nothing) = Packaged
  BY LayersAre DEF Over, Says, Nothing
<1>3. file[User] = Nothing
  BY <1>1
<1>4. Layered
  BY <1>1, <1>2, <1>3, LayersAre DEF Layered, HasFile, Compose
<1> QED BY <1>1, <1>4 DEF OnRecord

\* Threads that submit or change executors see to neither settings nor records.
LEMMA ThreadSees ==
  ASSUME Layered, OnRecord, NEW t \in Threads,
         ExecutorsCall(t) \/ Attach(t) \/ MakeFlow(t) \/ Ready(t) \/ Land(t) \/ Register(t)
           \/ (\E n \in Names : Submit(t, n) \/ \E j \in jobs : Move(t, j, n))
  PROVE  Sees /\ OnRecord'
<1>1. UNCHANGED settings /\ UNCHANGED <<rows, active, record, strayed>>
  BY DEF ExecutorsCall, Attach, MakeFlow, Ready, Land, Register, Submit, Move, Only, projects
<1> QED BY <1>1, SameSees, RecordSame

\* The calls on settings.
LEMMA CallSees ==
  ASSUME Layered, OnRecord, NEW t \in Threads,
         \/ \E k \in Keys, v \in Values : SetForUser(t, k, v)
         \/ \E k \in Keys, v \in Values, too \in BOOLEAN : Update(t, k, v, too)
         \/ \E k \in Keys, target \in {"global", "default"} : Reset(t, k, target)
  PROVE  Sees /\ OnRecord'
<1>1. UNCHANGED <<rows, active, record, strayed>>
  BY DEF SetForUser, Update, Reset, SettingsCall, projects
<1>2. Sees
  BY <1>1, UpdateSees, SetGlobalSees, ResetSees DEF SetForUser, Update, Reset, UpdateAppSetting
<1> QED BY <1>1, <1>2, RecordSame

\* Whatever happens, what is read is what the files say, and what is chosen lasts.
LEMMA LayeredStep ==
  ASSUME Layered, OnRecord, [Next]_vars
  PROVE  Sees /\ OnRecord'
<1>1. CASE UNCHANGED vars
  BY <1>1, SameSees, RecordSame DEF vars, projects
<1>2. ASSUME NEW t \in Threads,
             \E f \in Folders : \/ Open(t, f) \/ CreateOrOpen(t, f)
                                \/ \E base \in {"global", "default"} : Create(t, f, base) \/ CreateOver(t, f, base) \/ CreateOnly(t, f, base)
      PROVE  Sees /\ OnRecord'
  BY <1>2, OpenSees, CreateOrOpenSees, CreateSees
<1>3. ASSUME NEW t \in Threads,
             (\E cancel \in BOOLEAN : Close(t, cancel)) \/ \E f \in Folders, files \in BOOLEAN : Delete(t, f, files)
      PROVE  Sees /\ OnRecord'
  BY <1>3, CloseSees, DeleteSees
<1>4. ASSUME NEW f \in Folders,
             \/ Removed(f)
             \/ \E app \in Apps, base \in {"global", "default"} : CatalogCreates(f, app, base)
             \/ \E g \in Folders, app \in Apps : CatalogMoves(f, g, app)
             \/ \E files \in BOOLEAN : CatalogDeletes(f, files)
      PROVE  Sees /\ OnRecord'
  BY <1>4, RemovedSees, CatalogCreatesSees, CatalogMovesSees, CatalogDeletesSees
<1>5. CASE \E j \in jobs : JobEnds(j)
  BY <1>5, SameSees, RecordSame DEF JobEnds, projects
<1>6. CASE Restart
  BY <1>6, RestartSees
<1> QED BY <1>1, <1>2, <1>3, <1>4, <1>5, <1>6, ThreadSees, CallSees DEF Next

\* What everybody reads is what the files of the user and of the project that is open say, through
\* openings, closings, other processes and restarts: `_compose` and `_save`.
THEOREM SeesItsFilesHolds == Spec => []SeesItsFiles
<1>1. Layered /\ OnRecord /\ [Next]_vars => Layered' /\ OnRecord'
  BY LayeredStep DEF Sees
<1> QED BY <1>1, LayeredInit, LayeredSees, PTL DEF Spec

\* What a project and the user have chosen outlives the opening, closing, creating and deleting of
\* others and of itself: `_prune_equal` drops only what says nothing.
THEOREM ChoicesLastHolds == Spec => ChoicesLast
<1> DEFINE Chosen == path' # path => \A f \in Folders \cup {None} : (f # None => HasFile(f) /\ HasFile(f)') => View(f)' = View(f)
<1>1. Layered /\ OnRecord /\ [Next]_vars => Layered' /\ OnRecord' /\ (Chosen \/ UNCHANGED vars)
  BY LayeredStep DEF Sees
<1>2. Layered /\ OnRecord /\ [Next]_vars => [Chosen]_vars
  BY <1>1
<1> QED BY <1>1, <1>2, LayeredInit, PTL DEF Spec, ChoicesLast

-----------------------------------------------------------------------------
(* The threads *)

PoolKind == [kind |-> "loky", hosts |-> {Pool}]
Kept == {k \in [Names -> Kinds \cup {Off}] :
           k[Pool] = PoolKind /\ \A n \in Others : k[n] # Off => k[n].kind \in {"ray", "queue"}}
Described == [Hosts -> Descriptions]
Places == Folders \cup {None}

\* One that submits, one that has found an executor and a journal, one that activates, that
\* deactivates, and one that changes what is kept.
Submitter == [at : {"building", "pooling", "flow", "flowing", "ready"}, then : {"flow", "ready"},
              name : Names, home : Places, flow : Places]
Lander == [at : {"landing"}, slot : Slots \cup {Off}, home : Places, flow : Places]
Activator == [at : {"building", "pooling", "activate", "starting"}, then : {"activate"},
              name : Names, kept : Kept, host : Described, aside : BOOLEAN]
Deactivator == [at : {"deactivate"}, name : Names]
Changer == [at : {"changing"}, table : {"hosts", "executors"}, name : Names \cup Hosts, users : SUBSET Names]
Doings == {Idle} \cup Submitter \cup Lander \cup Activator \cup Deactivator \cup Changer

Typed ==
  /\ engine \in {"none", "built"} /\ {active, flow, attached} \subseteq Places
  /\ aside \in Names \cup {Nobody} /\ activation \in Threads \cup {Nobody} /\ crossed \subseteq Names
  /\ kept \in Kept /\ host \in Described
  /\ registered \in [Names -> Slots \cup {Off}]
  /\ \A n \in Names : registered[n] # Off =>
       registered[n].of \in Kinds /\ (IF n = Pool THEN registered[n].of = PoolKind ELSE registered[n].of.kind \in {"ray", "queue"})
  /\ doing \in [Threads -> Doings]

\* Nothing is active before the engine is there, and who holds the lock starts an executor.
Engined ==
  /\ engine = "none" => registered = [n \in Names |-> Off] /\ aside = Nobody /\ activation = Nobody
  /\ activation # Nobody => At(activation, "starting")

\* Two that may be active at a time.
Apart(one, other) ==
  "queue" \in {one.kind, other.kind} \/ (one.hosts \cap other.hosts = {} /\ "loky" \in {one.kind, other.kind})

\* What starts may join what is active, as far as nothing came across, and so may the pool of this
\* machine if that is aside for it.
Starts(t) ==
  LET n == doing[t].name  k == doing[t].kept
  IN /\ activation = t
     /\ registered[n] = Off \/ (n = Pool /\ Pool \in crossed)
     /\ \A m \in Names \ crossed : m # n /\ registered[m] # Off /\ k[m] = registered[m].of => Apart(k[n], registered[m].of)
     /\ doing[t].aside =>
          /\ k[n].kind = "ray" /\ Pool \in k[n].hosts
          /\ Pool \notin crossed => \A m \in Names \ crossed : m # Pool /\ registered[m] # Off => Apart(PoolKind, registered[m].of)

\* Where a thread may be, and what it knows there.
Sits(t) ==
  /\ engine = "none" => doing[t].at \in {"idle", "building", "changing"}
  /\ At(t, "changing") =>
       /\ doing[t].users \subseteq {Pool} /\ (engine = "none" => doing[t].users = {})
       /\ doing[t].name \in IF doing[t].table = "hosts" THEN Hosts ELSE Names
  /\ doing[t] \in Activator => doing[t].kept[doing[t].name] # Off
  /\ At(t, "starting") => Starts(t)

\* What a change came across is active, or is the pool; and the one the pool is aside for is a Ray,
\* which takes the pool along.
Crossing ==
  /\ \A n \in crossed : n # Pool => registered[n] # Off
  /\ aside # Nobody => /\ registered[aside] # Off /\ registered[aside].of.kind = "ray"
                       /\ aside \in crossed => Pool \in crossed

Fitted == MachinesApart /\ MadeOfWhatIsKept /\ Crossing

Ordered == Typed /\ Engined /\ (\A t \in Threads : Sits(t)) /\ Fitted

-----------------------------------------------------------------------------
(* Threads and executors *)

\* What is known of the names.
LEMMA NamesAre ==
  /\ Pool \in Names /\ Pool \in Hosts /\ Pool \notin Others /\ Nobody \notin Names /\ Nobody \notin Threads
  /\ Off \notin Kinds /\ Off \notin Slots /\ PoolKind \in Kinds /\ Names = Others \cup {Pool}
  /\ \A n \in Others : Configs[n] \subseteq {c \in Kinds : c.kind \in {"ray", "queue"}}
BY ExecutorsAssumption, OffAssumption DEF Names, Hosts, Pool, Nobody, Kinds, PoolKind

\* Where a thread is says what it has.
LEMMA DoingsAre ==
  ASSUME NEW d \in Doings
  PROVE  /\ d.at = "idle" => d = Idle
         /\ d.at = "landing" => d \in Lander
         /\ d.at \in {"activate", "starting"} => d \in Activator
         /\ d.at \in {"flow", "flowing", "ready"} => d \in Submitter
         /\ d.at \in {"building", "pooling"} => d \in Submitter \cup Activator
         /\ d.at = "deactivate" => d \in Deactivator
         /\ d.at = "changing" => d \in Changer
         /\ d \in Activator => d.at \in {"building", "pooling", "activate", "starting"}
BY DEF Doings, Idle, Submitter, Lander, Activator, Deactivator, Changer

\* An executor is made of a kind.
LEMMA MadeIs ==
  ASSUME NEW n \in Names, NEW k \in Kept, NEW h \in Described, k[n] # Off
  PROVE  /\ Made(n, k, h) \in Slots /\ Made(n, k, h) # Off /\ Made(n, k, h).of = k[n] /\ k[n] \in Kinds
         /\ IF n = Pool THEN k[n] = PoolKind ELSE k[n].kind \in {"ray", "queue"}
<1>1. k[n] \in Kinds /\ k[n].hosts \in SUBSET Hosts
  BY DEF Kept, Kinds
<1>2. [m \in k[n].hosts |-> h[m]] \in [k[n].hosts -> Descriptions]
  BY <1>1 DEF Described
<1>3. Made(n, k, h) \in Slots
  BY <1>1, <1>2 DEF Made, Slots
<1>4. Made(n, k, h).of = k[n]
  BY DEF Made
<1> QED BY <1>1, <1>3, <1>4, NamesAre DEF Kept

\* All but one thread stay where they are, and only lose the executor they have found.
Rest(t) == \A s \in Threads \ {t} : doing'[s] = doing[s] \/ (At(s, "landing") /\ doing'[s].at = "landing")

LEMMA WithoutIs ==
  ASSUME Typed, NEW S
  PROVE  /\ Without(S) \in [Threads -> Doings]
         /\ \A s \in Threads : Without(S)[s] = doing[s] \/ (At(s, "landing") /\ Without(S)[s].at = "landing")
<1>1. ASSUME NEW s \in Threads, At(s, "landing")
      PROVE  [doing[s] EXCEPT !.slot = Off] \in Doings /\ [doing[s] EXCEPT !.slot = Off].at = "landing"
  <2>1. doing[s] \in Lander
    BY <1>1, DoingsAre DEF Typed, At
  <2>2. [doing[s] EXCEPT !.slot = Off] \in Lander
    BY <2>1 DEF Lander
  <2> QED BY <2>2 DEF Doings, Lander
<1>2. \A s \in Threads : doing[s] \in Doings
  BY DEF Typed
<1> QED BY <1>1, <1>2 DEF Without

LEMMA GoesRest ==
  ASSUME Typed, NEW t \in Threads, NEW x \in Doings,
         doing' = [doing EXCEPT ![t] = x] \/ \E S : doing' = [Without(S) EXCEPT ![t] = x]
  PROVE  doing' \in [Threads -> Doings] /\ doing'[t] = x /\ Rest(t)
<1>1. doing \in [Threads -> Doings]
  BY DEF Typed
<1>2. CASE doing' = [doing EXCEPT ![t] = x]
  BY <1>1, <1>2 DEF Rest
<1>3. CASE \E S : doing' = [Without(S) EXCEPT ![t] = x]
  <2>1. PICK S : doing' = [Without(S) EXCEPT ![t] = x]
    BY <1>3
  <2> QED BY <2>1, WithoutIs DEF Rest
<1> QED BY <1>2, <1>3

\* Who stays where it is, and is not disturbed in what it starts, knows what it knew.
LEMMA SitsStays ==
  ASSUME NEW s \in Threads, Sits(s), doing'[s] \in Doings,
         doing'[s] = doing[s] \/ (At(s, "landing") /\ doing'[s].at = "landing"),
         engine' = "none" => engine = "none",
         At(s, "starting") => Starts(s)'
  PROVE  Sits(s)'
<1>1. CASE doing'[s] = doing[s]
  BY <1>1 DEF Sits, At
<1>2. CASE At(s, "landing") /\ doing'[s].at = "landing"
  <2>1. doing'[s] \notin Activator
    BY <1>2, DoingsAre
  <2>2. engine' # "none"
    BY <1>2 DEF Sits, At
  <2> QED BY <1>2, <2>1, <2>2 DEF Sits, At
<1> QED BY <1>1, <1>2

\* Nobody starts while nobody holds the lock, and who starts holds it.
LEMMA OneStarts ==
  ASSUME Ordered, NEW s \in Threads, At(s, "starting")
  PROVE  activation = s
BY DEF Ordered, Sits, Starts

\* A call that leaves the executors as they are.
LEMMA QuietStep ==
  ASSUME Ordered, UNCHANGED executors, {active, flow, attached}' \subseteq Places, doing' \in [Threads -> Doings],
         \A s \in Threads :
           \/ doing'[s] = doing[s] \/ (At(s, "landing") /\ doing'[s].at = "landing")
           \/ ~At(s, "starting") /\ doing'[s].at # "starting" /\ Sits(s)'
  PROVE  Ordered'
<1>1. UNCHANGED <<kept, host, engine, registered, aside, activation, crossed>>
  BY DEF executors
<1>2. Typed'
  BY <1>1 DEF Ordered, Typed
<1>3. Engined'
  <2>1. activation # Nobody => activation \in Threads
    BY DEF Ordered, Typed
  <2> QED BY <1>1, <2>1 DEF Ordered, Engined, At
<1>4. ASSUME NEW s \in Threads PROVE Sits(s)'
  <2>1. CASE doing'[s] = doing[s] \/ (At(s, "landing") /\ doing'[s].at = "landing")
    <3>1. At(s, "starting") => Starts(s)'
      BY <1>1, <2>1 DEF Ordered, Sits, Starts, At
    <3> QED BY <1>1, <2>1, <3>1, SitsStays DEF Ordered
  <2>2. CASE ~(doing'[s] = doing[s] \/ (At(s, "landing") /\ doing'[s].at = "landing"))
    BY <1>1, <2>2 DEF Sits, At
  <2> QED BY <2>1, <2>2
<1>5. Fitted'
  BY <1>1 DEF Ordered, Fitted, MachinesApart, MadeOfWhatIsKept, Crossing, Made
<1> QED BY <1>2, <1>3, <1>4, <1>5 DEF Ordered

-----------------------------------------------------------------------------
(* What a thread does to the executors *)

\* The pool of this machine is made again, of what is kept, unless it is busy.
LEMMA LocalBackIs ==
  ASSUME NEW r \in [Names -> Slots \cup {Off}], NEW k \in Kept, NEW h \in Described
  PROVE  /\ LocalBack(r, k, h) \in [Names -> Slots \cup {Off}] /\ LocalBack(r, k, h)[Pool] # Off
         /\ \A n \in Names \ {Pool} : LocalBack(r, k, h)[n] = r[n]
         /\ LocalBack(r, k, h)[Pool] \in {r[Pool], Made(Pool, k, h)}
         /\ ~Busy(Pool) => LocalBack(r, k, h)[Pool] = Made(Pool, k, h)
<1>1. k[Pool] # Off
  BY NamesAre DEF Kept
<1>2. Made(Pool, k, h) \in Slots /\ Made(Pool, k, h) # Off
  BY <1>1, NamesAre, MadeIs
<1> QED BY <1>2, NamesAre DEF LocalBack

\* The engine is made: nothing is active yet.
LEMMA BuildEngineStep == ASSUME Ordered, NEW t \in Threads, BuildEngine(t), UNCHANGED projects PROVE Ordered'
<1>1. /\ At(t, "building") /\ doing[t] \in Doings /\ doing[t] \in Submitter \cup Activator
      /\ UNCHANGED <<kept, host, registered, aside, activation, crossed>> /\ UNCHANGED <<active, flow, attached>>
  BY DoingsAre DEF BuildEngine, Ordered, Typed, At, projects
<1>2. PICK x : x = IF engine = "none" THEN [doing[t] EXCEPT !.at = "pooling"] ELSE Idle
  OBVIOUS
<1>3. doing' = [doing EXCEPT ![t] = x] /\ engine' = "built"
  BY <1>2 DEF BuildEngine, Goes, Ends, Ordered, Typed
<1>4. /\ x \in Doings /\ x.at \in {"pooling", "idle"}
      /\ x \in Activator => doing[t] \in Activator /\ x.kept = doing[t].kept /\ x.name = doing[t].name
  <2>1. CASE doing[t] \in Submitter
    BY <1>2, <2>1 DEF Submitter, Activator, Doings, Idle
  <2>2. CASE doing[t] \in Activator
    BY <1>2, <2>2 DEF Submitter, Activator, Doings, Idle
  <2> QED BY <1>1, <2>1, <2>2
<1>5. doing' \in [Threads -> Doings] /\ doing'[t] = x /\ Rest(t)
  BY <1>3, <1>4, GoesRest DEF Ordered
<1>6. Typed'
  BY <1>1, <1>3, <1>5 DEF Ordered, Typed
<1>7. Engined'
  BY <1>1, <1>3, <1>5 DEF Ordered, Engined, Typed, At, Rest
<1>8. ASSUME NEW s \in Threads PROVE Sits(s)'
  <2>1. CASE s = t
    BY <1>1, <1>3, <1>4, <1>5, <2>1 DEF Ordered, Sits, At
  <2>2. CASE s # t
    <3>1. At(s, "starting") => Starts(s)'
      BY <1>1, <1>5, <2>2 DEF Ordered, Sits, Starts, At, Rest
    <3> QED BY <1>3, <1>5, <2>2, <3>1, SitsStays DEF Ordered, Rest
  <2> QED BY <2>1, <2>2
<1>9. Fitted'
  BY <1>1 DEF Ordered, Fitted, MachinesApart, MadeOfWhatIsKept, Crossing, Made
<1> QED BY <1>6, <1>7, <1>8, <1>9 DEF Ordered

\* The engine's pool is made without the lock: it is noted what that may come across.
LEMMA BuildPoolStep == ASSUME Ordered, NEW t \in Threads, BuildPool(t), UNCHANGED projects PROVE Ordered'
<1>1. /\ At(t, "pooling") /\ doing[t] \in Doings /\ doing[t] \in Submitter \cup Activator
      /\ UNCHANGED <<kept, host, engine, aside, activation>> /\ UNCHANGED <<active, flow, attached>>
      /\ registered' = LocalBack(registered, kept, host)
      /\ crossed' = IF activation # Nobody \/ \E n \in Names : registered[n] # Off THEN crossed \cup {Pool} ELSE crossed
  BY DoingsAre DEF BuildPool, Ordered, Typed, At, projects
<1>2. PICK x : x = IF Busy(Pool) THEN Idle ELSE [doing[t] EXCEPT !.at = doing[t].then]
  OBVIOUS
<1>3. doing' = [doing EXCEPT ![t] = x] \/ doing' = [Without({Pool}) EXCEPT ![t] = x]
  BY <1>2 DEF BuildPool, Ends, Goes
<1>4. /\ x \in Doings /\ x.at \in {"flow", "ready", "activate", "idle"}
      /\ x \in Activator => doing[t] \in Activator /\ x.kept = doing[t].kept /\ x.name = doing[t].name
  <2>1. CASE doing[t] \in Submitter
    BY <1>2, <2>1 DEF Submitter, Activator, Doings, Idle
  <2>2. CASE doing[t] \in Activator
    BY <1>2, <2>2 DEF Submitter, Activator, Doings, Idle
  <2> QED BY <1>1, <2>1, <2>2
<1>5. doing' \in [Threads -> Doings] /\ doing'[t] = x /\ Rest(t)
  BY <1>3, <1>4, GoesRest DEF Ordered
<1>6. engine = "built"
  BY <1>1 DEF Ordered, Sits, At, Typed
<1>7. /\ registered' \in [Names -> Slots \cup {Off}] /\ registered'[Pool] # Off
      /\ \A n \in Names \ {Pool} : registered'[n] = registered[n]
      /\ registered'[Pool] \in {registered[Pool], Made(Pool, kept, host)}
      /\ ~Busy(Pool) => registered'[Pool] = Made(Pool, kept, host)
  BY <1>1, LocalBackIs DEF Ordered, Typed
<1>8. Made(Pool, kept, host).of = PoolKind /\ kept[Pool] # Off
  <2>1. kept \in Kept /\ host \in Described /\ kept[Pool] = PoolKind
    BY DEF Ordered, Typed, Kept
  <2> QED BY <2>1, NamesAre, MadeIs
<1>9. registered'[Pool].of = PoolKind
  BY <1>7, <1>8, NamesAre DEF Ordered, Typed
<1>10. Typed'
  BY <1>1, <1>5, <1>7, <1>9, NamesAre DEF Ordered, Typed
<1>11. Engined'
  BY <1>1, <1>5, <1>6 DEF Ordered, Engined, Typed, At, Rest
<1>12. ASSUME NEW s \in Threads PROVE Sits(s)'
  <2>1. CASE s = t
    BY <1>1, <1>4, <1>5, <1>6, <2>1 DEF Ordered, Sits, At
  <2>2. CASE s # t
    <3>1. ASSUME At(s, "starting") PROVE Starts(s)'
      <4>1. doing'[s] = doing[s] /\ Starts(s)
        BY <1>5, <2>2, <3>1 DEF Ordered, Sits, At, Rest
      <4>2. crossed' = crossed \cup {Pool}
        BY <1>1, <4>1, NamesAre DEF Starts
      <4>3. doing[s].name \in Names
        BY <3>1, DoingsAre DEF Ordered, Typed, At, Activator
      <4> QED BY <1>1, <1>7, <4>1, <4>2, <4>3 DEF Starts
    <3> QED BY <1>1, <1>5, <2>2, <3>1, SitsStays DEF Ordered, Rest
  <2> QED BY <2>1, <2>2
<1>13. MachinesApart'
  <2>1. ASSUME NEW n \in Names \ crossed', NEW m \in Names \ crossed', n # m, registered'[n] # Off, registered'[m] # Off
        PROVE  Apart(registered'[n].of, registered'[m].of)
    <3>1. n # Pool /\ m # Pool
      BY <1>1, <1>7, <2>1
    <3>2. registered'[n] = registered[n] /\ registered'[m] = registered[m] /\ n \notin crossed /\ m \notin crossed
      BY <1>1, <1>7, <2>1, <3>1
    <3> QED BY <2>1, <3>2 DEF Ordered, Fitted, MachinesApart, Apart
  <2>2. aside # Nobody => registered'[aside] # Off /\ Pool \in registered'[aside].of.hosts
    <3>1. aside # Nobody => aside # Pool /\ aside \in Names
      BY DEF Ordered, Fitted, Crossing, Typed, PoolKind
    <3> QED BY <1>7, <3>1 DEF Ordered, Fitted, MachinesApart
  <2> QED BY <1>1, <2>1, <2>2 DEF MachinesApart, Apart
<1>14. MadeOfWhatIsKept'
  <2>1. ASSUME NEW n \in Names \ crossed', registered'[n] # Off PROVE kept[n] # Off /\ registered'[n] = Made(n, kept, host)
    <3>1. CASE n = Pool
      BY <1>1, <1>7, <1>8, <2>1, <3>1 DEF Ordered, Fitted, MadeOfWhatIsKept
    <3>2. CASE n # Pool
      BY <1>1, <1>7, <2>1, <3>2 DEF Ordered, Fitted, MadeOfWhatIsKept
    <3> QED BY <3>1, <3>2
  <2> QED BY <1>1, <2>1 DEF MadeOfWhatIsKept, Made
<1>15. Crossing'
  <2>1. aside # Nobody => aside # Pool /\ aside \in Names
    BY DEF Ordered, Fitted, Crossing, Typed, PoolKind
  <2> QED BY <1>1, <1>7, <2>1 DEF Ordered, Typed, Fitted, Crossing
<1> QED BY <1>10, <1>11, <1>12, <1>13, <1>14, <1>15 DEF Ordered, Fitted

\* The settings are read.
LEMMA ActivateCalledStep ==
  ASSUME Ordered, NEW t \in Threads, NEW n \in Names, ActivateCalled(t, n), UNCHANGED projects
  PROVE  Ordered'
<1>1. PICK x : x = [at |-> IF engine = "none" THEN "building" ELSE "activate", then |-> "activate",
                    name |-> n, kept |-> kept, host |-> host, aside |-> FALSE]
  OBVIOUS
<1>2. x \in Activator /\ x \in Doings /\ x.at # "starting" /\ x.at # "changing" /\ x.kept[x.name] = kept[n]
  BY <1>1 DEF Ordered, Typed, Activator, Doings
<1>3. /\ At(t, "idle") /\ kept[n] # Off /\ doing' = [doing EXCEPT ![t] = x] /\ UNCHANGED executors
      /\ UNCHANGED <<active, flow, attached>> /\ UNCHANGED engine
  BY <1>1 DEF ActivateCalled, Goes, projects, executors
<1>4. doing' \in [Threads -> Doings] /\ doing'[t] = x /\ Rest(t)
  BY <1>2, <1>3, GoesRest DEF Ordered
<1>5. Sits(t)'
  BY <1>1, <1>2, <1>3, <1>4 DEF Sits, At
<1>6. {active, flow, attached}' \subseteq Places
  BY <1>3 DEF Ordered, Typed
<1>7. \A s \in Threads : \/ doing'[s] = doing[s] \/ (At(s, "landing") /\ doing'[s].at = "landing")
                         \/ ~At(s, "starting") /\ doing'[s].at # "starting" /\ Sits(s)'
  BY <1>2, <1>3, <1>4, <1>5 DEF Rest, At
<1> QED BY <1>3, <1>4, <1>6, <1>7, QuietStep

\* Who is to go is looked at without the lock.
LEMMA DeactivateCalledStep ==
  ASSUME Ordered, NEW t \in Threads, NEW n \in Names, DeactivateCalled(t, n), UNCHANGED projects
  PROVE  Ordered'
<1>1. PICK x : x = [at |-> "deactivate", name |-> n]
  OBVIOUS
<1>2. x \in Deactivator /\ x \in Doings /\ x.at = "deactivate"
  BY <1>1 DEF Deactivator, Doings
<1>3. /\ At(t, "idle") /\ engine # "none" /\ doing' = [doing EXCEPT ![t] = x] /\ UNCHANGED executors
      /\ UNCHANGED <<active, flow, attached>> /\ UNCHANGED engine
  BY <1>1 DEF DeactivateCalled, Goes, projects, executors
<1>4. doing' \in [Threads -> Doings] /\ doing'[t] = x /\ Rest(t)
  BY <1>2, <1>3, GoesRest DEF Ordered
<1>5. Sits(t)'
  BY <1>2, <1>3, <1>4, DoingsAre DEF Sits, At
<1>6. {active, flow, attached}' \subseteq Places
  BY <1>3 DEF Ordered, Typed
<1>7. \A s \in Threads : \/ doing'[s] = doing[s] \/ (At(s, "landing") /\ doing'[s].at = "landing")
                         \/ ~At(s, "starting") /\ doing'[s].at # "starting" /\ Sits(s)'
  BY <1>2, <1>3, <1>4, <1>5 DEF Rest, At
<1> QED BY <1>3, <1>4, <1>6, <1>7, QuietStep

\* Who uses an entry is looked at without the lock.
LEMMA ChangeCalledStep ==
  ASSUME Ordered, NEW t \in Threads, NEW table \in {"hosts", "executors"}, NEW n \in IF table = "hosts" THEN Hosts ELSE Names,
         ChangeCalled(t, table, n), UNCHANGED projects
  PROVE  Ordered'
<1>1. PICK x : x = [at |-> "changing", table |-> table, name |-> n, users |-> Users(table, n)]
  OBVIOUS
<1>2. /\ Users(table, n) \subseteq {Pool} /\ (engine = "none" => Users(table, n) = {})
      /\ At(t, "idle") /\ doing' = [doing EXCEPT ![t] = x] /\ UNCHANGED executors
      /\ UNCHANGED <<active, flow, attached>> /\ UNCHANGED engine
  BY <1>1 DEF ChangeCalled, Users, Goes, projects, executors
<1>3. x \in Changer /\ x \in Doings /\ x.at = "changing"
  BY <1>1, <1>2, NamesAre DEF Changer, Doings
<1>4. doing' \in [Threads -> Doings] /\ doing'[t] = x /\ Rest(t)
  BY <1>2, <1>3, GoesRest DEF Ordered
<1>5. Sits(t)'
  BY <1>1, <1>2, <1>3, <1>4, DoingsAre DEF Sits, At
<1>6. {active, flow, attached}' \subseteq Places
  BY <1>2 DEF Ordered, Typed
<1>7. \A s \in Threads : \/ doing'[s] = doing[s] \/ (At(s, "landing") /\ doing'[s].at = "landing")
                         \/ ~At(s, "starting") /\ doing'[s].at # "starting" /\ Sits(s)'
  BY <1>2, <1>3, <1>4, <1>5 DEF Rest, At
<1> QED BY <1>2, <1>4, <1>6, <1>7, QuietStep

\* Two that may be active at a time may be so the other way round.
LEMMA ApartIs == ASSUME NEW one, NEW other, Apart(one, other) PROVE Apart(other, one)
BY DEF Apart

\* What is active is apart, as far as nothing came across.
LEMMA FittedApart ==
  ASSUME Ordered, NEW n \in Names \ crossed, NEW m \in Names \ crossed, n # m, registered[n] # Off, registered[m] # Off
  PROVE  Apart(registered[n].of, registered[m].of) /\ registered[m].of = kept[m] /\ kept[m] # Off
<1>1. Apart(registered[n].of, registered[m].of)
  BY DEF Ordered, Fitted, MachinesApart, Apart
<1>2. kept[m] # Off /\ registered[m] = Made(m, kept, host)
  BY DEF Ordered, Fitted, MadeOfWhatIsKept
<1>3. registered[m].of = kept[m]
  BY <1>2 DEF Made
<1> QED BY <1>1, <1>2, <1>3

\* A start begins, with what it has read.
LEMMA ActivateStep == ASSUME Ordered, NEW t \in Threads, Activate(t), UNCHANGED projects PROVE Ordered'
<1> DEFINE n == doing[t].name
           k == doing[t].kept
           takes == k[n].kind = "ray" /\ Pool \in k[n].hosts /\ registered[Pool] # Off
           refused == registered[n] # Off \/ Blocked(n, k, Active) \/ (takes /\ Busy(Pool))
<1>1. /\ At(t, "activate") /\ activation = Nobody /\ doing[t] \in Activator
      /\ UNCHANGED <<kept, host, engine, aside, crossed>> /\ UNCHANGED <<active, flow, attached>>
  BY DoingsAre DEF Activate, Ordered, Typed, At, projects
<1>2. n \in Names /\ k \in Kept /\ k[n] # Off /\ engine = "built"
  BY <1>1 DEF Activator, Ordered, Sits, At, Typed
<1>3. CASE refused
  <2>1. doing' = [doing EXCEPT ![t] = Idle] /\ UNCHANGED executors
    BY <1>1, <1>3 DEF Activate, Ends, Goes, executors
  <2>2. Idle \in Doings /\ Idle.at = "idle"
    BY DEF Doings, Idle
  <2>3. doing' \in [Threads -> Doings] /\ doing'[t] = Idle /\ Rest(t)
    BY <2>1, <2>2, GoesRest DEF Ordered
  <2>4. Sits(t)' /\ ~At(t, "starting")
    BY <1>1, <2>2, <2>3, DoingsAre DEF Sits, At
  <2>5. \A s \in Threads : \/ doing'[s] = doing[s] \/ (At(s, "landing") /\ doing'[s].at = "landing")
                           \/ ~At(s, "starting") /\ doing'[s].at # "starting" /\ Sits(s)'
    BY <2>2, <2>3, <2>4 DEF Rest
  <2>6. {active, flow, attached}' \subseteq Places
    BY <1>1 DEF Ordered, Typed
  <2> QED BY <2>1, <2>3, <2>5, <2>6, QuietStep
<1>4. CASE ~refused
  <2>1. PICK x : x = [doing[t] EXCEPT !.at = "starting", !.aside = takes]
    OBVIOUS
  <2>2. /\ x \in Activator /\ x \in Doings /\ x.at = "starting" /\ x.name = n /\ x.kept = k /\ x.aside = takes
    BY <1>1, <2>1 DEF Activator, Doings
  <2>3. /\ activation' = t /\ (doing' = [doing EXCEPT ![t] = x] \/ doing' = [Without({Pool}) EXCEPT ![t] = x])
        /\ registered' = IF takes THEN [registered EXCEPT ![Pool] = Off] ELSE registered
    BY <1>4, <2>1 DEF Activate, Goes
  <2>4. doing' \in [Threads -> Doings] /\ doing'[t] = x /\ Rest(t)
    BY <2>2, <2>3, GoesRest DEF Ordered
  <2>5. /\ registered' \in [Names -> Slots \cup {Off}]
        /\ \A m \in Names : registered'[m] # Off => registered'[m] = registered[m]
        /\ \A m \in Names \ {Pool} : registered'[m] = registered[m]
        /\ takes => registered'[Pool] = Off
    BY <2>3, NamesAre DEF Ordered, Typed
  <2>6. aside # Nobody => aside \in Names \ {Pool}
    BY DEF Ordered, Fitted, Crossing, Typed, PoolKind
  <2>7. Typed'
    BY <1>1, <2>3, <2>4, <2>5 DEF Ordered, Typed
  <2>8. Engined'
    BY <1>1, <1>2, <2>2, <2>3, <2>4 DEF Engined, At
  <2>9. Starts(t)'
    <3>1. registered'[n] = Off
      BY <1>2, <1>4, <2>5
    <3>2. ASSUME NEW m \in Names \ crossed, m # n, registered'[m] # Off, k[m] = registered'[m].of
          PROVE  Apart(k[n], registered'[m].of)
      <4>1. registered[m] # Off /\ m \in Active /\ k[m] # Off /\ registered'[m] = registered[m] /\ k[m] \in Kinds /\ k[n] \in Kinds
        BY <1>2, <2>5, <3>2, NamesAre DEF Active, Ordered, Typed, Kept
      <4>2. "queue" \in {k[n].kind, k[m].kind} \/ k[m].kind # "ray" \/ (k[n].kind # "ray" /\ k[n].hosts \cap k[m].hosts = {})
        BY <1>4, <3>2, <4>1 DEF Blocked
      <4>3. CASE m = Pool
        <5>1. k[m] = PoolKind /\ k[n].kind \in {"ray", "queue"}
          BY <1>2, <3>2, <4>3, NamesAre DEF Kept
        <5>2. k[n].kind = "ray" => Pool \notin k[n].hosts
          BY <2>5, <3>2, <4>1, <4>3
        <5> QED BY <3>2, <5>1, <5>2 DEF Apart, PoolKind
      <4>4. CASE m # Pool
        <5>1. k[m].kind \in {"ray", "queue"} /\ k[n].kind \in {"ray", "queue", "loky"}
          BY <1>2, <3>2, <4>1, <4>4, NamesAre DEF Kept, Kinds
        <5> QED BY <3>2, <4>2, <5>1 DEF Apart
      <4> QED BY <4>3, <4>4
    <3>3. ASSUME takes, Pool \notin crossed, NEW m \in Names \ crossed, m # Pool, registered'[m] # Off
          PROVE  Apart(PoolKind, registered'[m].of)
      <4>1. registered[Pool].of = PoolKind
        BY <3>3, NamesAre DEF Ordered, Typed
      <4> QED BY <2>5, <3>3, <4>1, FittedApart, NamesAre
    <3> QED BY <1>1, <2>2, <2>3, <2>4, <3>1, <3>2, <3>3 DEF Starts
  <2>10. ASSUME NEW s \in Threads PROVE Sits(s)'
    <3>1. CASE s = t
      BY <1>1, <1>2, <2>2, <2>4, <2>9, <3>1 DEF Sits, At
    <3>2. CASE s # t
      <4>1. ~At(s, "starting")
        BY <1>1, OneStarts, NamesAre
      <4> QED BY <1>1, <2>4, <3>2, <4>1, SitsStays DEF Ordered, Rest
    <3> QED BY <3>1, <3>2
  <2>11. MachinesApart'
    <3>1. aside # Nobody => registered'[aside] # Off /\ Pool \in registered'[aside].of.hosts
      BY <2>5, <2>6 DEF Ordered, Fitted, MachinesApart
    <3> QED BY <1>1, <2>5, <3>1 DEF Ordered, Fitted, MachinesApart
  <2>12. MadeOfWhatIsKept'
    <3>1. ASSUME NEW m \in Names \ crossed, registered'[m] # Off PROVE kept[m] # Off /\ registered'[m] = Made(m, kept, host)
      BY <2>5, <3>1 DEF Ordered, Fitted, MadeOfWhatIsKept
    <3> QED BY <1>1, <3>1 DEF MadeOfWhatIsKept, Made
  <2>13. Crossing'
    BY <1>1, <2>5, <2>6 DEF Ordered, Typed, Fitted, Crossing
  <2> QED BY <2>7, <2>8, <2>10, <2>11, <2>12, <2>13 DEF Ordered, Fitted
<1> QED BY <1>3, <1>4

\* The pool of this machine comes back, among what leaves it this machine.
LEMMA BackStep ==
  ASSUME Ordered, UNCHANGED <<kept, host, engine>>, UNCHANGED <<active, flow, attached>>,
         NEW r \in [Names -> Slots \cup {Off}], registered' = LocalBack(r, kept, host),
         \A m \in Names : r[m] # Off => r[m] = registered[m],
         aside' \in {aside, Nobody}, aside' # Nobody => r[aside] # Off,
         activation' = Nobody, crossed' \subseteq crossed, \A m \in Names \ {Pool} : r[m] # Off => m \in crossed' \/ m \notin crossed,
         \A m \in crossed' \ {Pool} : r[m] # Off, Pool \in crossed => Pool \in crossed', engine = "built",
         Pool \notin crossed => \A m \in Names \ crossed : m # Pool /\ r[m] # Off => Apart(PoolKind, registered[m].of),
         doing' \in [Threads -> Doings], \A s \in Threads : Sits(s)'
  PROVE  Ordered'
<1>1. /\ registered' \in [Names -> Slots \cup {Off}] /\ registered'[Pool] # Off
      /\ \A m \in Names \ {Pool} : registered'[m] = r[m]
      /\ registered'[Pool] \in {r[Pool], Made(Pool, kept, host)}
  BY LocalBackIs DEF Ordered, Typed
<1>2. Made(Pool, kept, host).of = PoolKind /\ kept[Pool] # Off
  <2>1. kept \in Kept /\ host \in Described /\ kept[Pool] = PoolKind
    BY DEF Ordered, Typed, Kept
  <2> QED BY <2>1, NamesAre, MadeIs
<1>3. registered'[Pool].of = PoolKind
  BY <1>1, <1>2, NamesAre DEF Ordered, Typed
<1>4. aside' # Nobody => aside' = aside /\ aside \in Names \ {Pool} /\ registered'[aside] = registered[aside] /\ registered[aside] # Off
  BY <1>1 DEF Ordered, Fitted, Crossing, Typed, PoolKind
<1>5. Typed'
  BY <1>1, <1>3, NamesAre DEF Ordered, Typed
<1>6. Engined'
  BY DEF Engined
<1>7. ASSUME NEW m \in Names \ crossed', m # Pool, registered'[m] # Off
      PROVE  m \notin crossed /\ registered'[m] = registered[m] /\ registered[m] # Off /\ r[m] # Off
  BY <1>1, <1>7
<1>8. MachinesApart'
  <2>1. ASSUME NEW l \in Names \ crossed', NEW m \in Names \ crossed', l # m, registered'[l] # Off, registered'[m] # Off
        PROVE  Apart(registered'[l].of, registered'[m].of)
    <3>1. CASE l = Pool
      BY <1>3, <1>7, <2>1, <3>1
    <3>2. CASE m = Pool
      BY <1>3, <1>7, <2>1, <3>2, ApartIs
    <3>3. CASE l # Pool /\ m # Pool
      BY <1>7, <2>1, <3>3, FittedApart
    <3> QED BY <3>1, <3>2, <3>3
  <2>2. aside' # Nobody => registered'[aside'] # Off /\ Pool \in registered'[aside'].of.hosts
    BY <1>4 DEF Ordered, Fitted, MachinesApart
  <2> QED BY <2>1, <2>2 DEF MachinesApart, Apart
<1>9. MadeOfWhatIsKept'
  <2>1. ASSUME NEW m \in Names \ crossed', registered'[m] # Off PROVE kept[m] # Off /\ registered'[m] = Made(m, kept, host)
    <3>1. CASE m = Pool
      BY <1>1, <1>2, <2>1, <3>1 DEF Ordered, Fitted, MadeOfWhatIsKept
    <3>2. CASE m # Pool
      BY <1>7, <2>1, <3>2 DEF Ordered, Fitted, MadeOfWhatIsKept
    <3> QED BY <3>1, <3>2
  <2> QED BY <2>1 DEF MadeOfWhatIsKept, Made
<1>10. Crossing'
  <2>1. ASSUME NEW m \in crossed', m # Pool PROVE registered'[m] # Off
    BY <1>1, <2>1 DEF Ordered, Typed
  <2> QED BY <1>4, <2>1 DEF Ordered, Fitted, Crossing
<1> QED BY <1>5, <1>6, <1>8, <1>9, <1>10 DEF Ordered, Fitted

\* A thread that ends, of which nothing is known any more.
LEMMA EndsRest ==
  ASSUME Ordered, NEW t \in Threads, Ends(t) \/ \E S : EndsWithout(t, S)
  PROVE  doing' \in [Threads -> Doings] /\ doing'[t] = Idle /\ Rest(t)
<1>1. Idle \in Doings
  BY DEF Doings
<1>2. doing' = [doing EXCEPT ![t] = Idle] \/ \E S : doing' = [Without(S) EXCEPT ![t] = Idle]
  BY DEF Ends, Goes, EndsWithout
<1> QED BY <1>1, <1>2, GoesRest DEF Ordered

\* Nobody starts when a thread that could have is done.
LEMMA EndsSit ==
  ASSUME Ordered, NEW t \in Threads, doing' \in [Threads -> Doings], doing'[t] = Idle, Rest(t), UNCHANGED engine,
         activation \in {Nobody, t}
  PROVE  \A s \in Threads : Sits(s)'
<1>1. ASSUME NEW s \in Threads, s # t PROVE Sits(s)'
  <2>1. ~At(s, "starting")
    BY <1>1, OneStarts, NamesAre
  <2> QED BY <1>1, <2>1, SitsStays DEF Ordered, Rest
<1>2. Idle.at = "idle" /\ Idle \notin Activator
  BY DEF Idle, Activator
<1> QED BY <1>1, <1>2 DEF Sits, At

\* The executor that started takes jobs.
LEMMA StartedStep == ASSUME Ordered, NEW t \in Threads, Started(t), UNCHANGED projects PROVE Ordered'
<1> DEFINE n == doing[t].name
           k == doing[t].kept
           with == IF doing[t].aside THEN {n, Pool} ELSE {n}
           same == k = kept /\ doing[t].host = host
<1>1. /\ At(t, "starting") /\ doing[t] \in Activator /\ activation' = Nobody
      /\ UNCHANGED <<kept, host, engine>> /\ UNCHANGED <<active, flow, attached>> /\ EndsWithout(t, {n})
      /\ registered' = [registered EXCEPT ![n] = Made(n, k, doing[t].host)]
      /\ aside' = IF doing[t].aside THEN n ELSE aside
      /\ crossed' = IF same THEN crossed ELSE crossed \cup with
  BY DoingsAre DEF Started, Ordered, Typed, At, projects
<1>2. n \in Names /\ k \in Kept /\ doing[t].host \in Described /\ k[n] # Off /\ engine = "built" /\ Starts(t) /\ activation = t
  BY <1>1 DEF Activator, Ordered, Sits, Starts, At, Typed
<1>3. doing' \in [Threads -> Doings] /\ doing'[t] = Idle /\ Rest(t)
  BY <1>1, EndsRest
<1>4. /\ Made(n, k, doing[t].host) \in Slots /\ Made(n, k, doing[t].host) # Off /\ Made(n, k, doing[t].host).of = k[n] /\ k[n] \in Kinds
      /\ IF n = Pool THEN k[n] = PoolKind ELSE k[n].kind \in {"ray", "queue"}
  BY <1>2, MadeIs
<1>5. /\ registered' \in [Names -> Slots \cup {Off}] /\ registered'[n] = Made(n, k, doing[t].host)
      /\ \A m \in Names \ {n} : registered'[m] = registered[m]
      /\ crossed \subseteq crossed' /\ crossed' \subseteq Names /\ (n \in crossed' \/ same) /\ crossed' \subseteq crossed \cup {n, Pool}
  BY <1>1, <1>2, <1>4, NamesAre DEF Ordered, Typed
<1>6. Typed'
  BY <1>1, <1>2, <1>3, <1>4, <1>5 DEF Ordered, Typed
<1>7. Engined'
  BY <1>1, <1>2 DEF Engined
<1>8. \A s \in Threads : Sits(s)'
  BY <1>1, <1>2, <1>3, EndsSit
<1>9. ~doing[t].aside /\ aside # Nobody => aside \in Names \ {n, Pool}
  BY <1>2 DEF Ordered, Fitted, Crossing, Typed, PoolKind, Starts
<1>10. MachinesApart'
  <2>1. ASSUME NEW m \in Names \ crossed', m # n, registered'[m] # Off, n \notin crossed' PROVE Apart(registered'[n].of, registered'[m].of)
    <3>1. m \notin crossed /\ registered'[m] = registered[m] /\ same
      BY <1>5, <2>1
    <3>2. registered[m] = Made(m, kept, host)
      BY <2>1, <3>1 DEF Ordered, Fitted, MadeOfWhatIsKept
    <3>3. registered[m].of = kept[m]
      BY <3>2 DEF Made
    <3> QED BY <1>2, <1>4, <1>5, <2>1, <3>1, <3>3 DEF Starts
  <2>2. ASSUME NEW l \in Names \ crossed', NEW m \in Names \ crossed', l # m, registered'[l] # Off, registered'[m] # Off
        PROVE  Apart(registered'[l].of, registered'[m].of)
    <3>1. CASE l = n
      BY <2>1, <2>2, <3>1
    <3>2. CASE m = n
      BY <2>1, <2>2, <3>2, ApartIs
    <3>3. CASE l # n /\ m # n
      <4>1. registered'[l] = registered[l] /\ registered'[m] = registered[m] /\ l \notin crossed /\ m \notin crossed
        BY <1>5, <2>2, <3>3
      <4> QED BY <2>2, <4>1, FittedApart
    <3> QED BY <3>1, <3>2, <3>3
  <2>3. aside' # Nobody => registered'[aside'] # Off /\ Pool \in registered'[aside'].of.hosts
    <3>1. CASE doing[t].aside
      BY <1>1, <1>2, <1>4, <1>5, <3>1 DEF Starts
    <3>2. CASE ~doing[t].aside
      BY <1>1, <1>5, <1>9, <3>2 DEF Ordered, Fitted, MachinesApart
    <3> QED BY <3>1, <3>2
  <2> QED BY <2>2, <2>3 DEF MachinesApart, Apart
<1>11. MadeOfWhatIsKept'
  <2>1. ASSUME NEW m \in Names \ crossed', registered'[m] # Off PROVE kept[m] # Off /\ registered'[m] = Made(m, kept, host)
    <3>1. CASE m = n
      BY <1>2, <1>5, <2>1, <3>1
    <3>2. CASE m # n
      BY <1>5, <2>1, <3>2 DEF Ordered, Fitted, MadeOfWhatIsKept
    <3> QED BY <3>1, <3>2
  <2> QED BY <1>1, <2>1 DEF MadeOfWhatIsKept, Made
<1>12. Crossing'
  <2>1. ASSUME NEW m \in crossed', m # Pool PROVE registered'[m] # Off
    BY <1>4, <1>5, <2>1 DEF Ordered, Typed, Fitted, Crossing
  <2>2. ASSUME aside' # Nobody
        PROVE  registered'[aside'] # Off /\ registered'[aside'].of.kind = "ray" /\ (aside' \in crossed' => Pool \in crossed')
    <3>1. CASE doing[t].aside
      <4>1. n # Pool /\ (n \in crossed => registered[n] # Off)
        BY <1>2, <1>4, <3>1 DEF Starts, PoolKind, Ordered, Fitted, Crossing
      <4>2. n \notin crossed
        BY <1>2, <4>1 DEF Starts
      <4> QED BY <1>1, <1>2, <1>4, <1>5, <3>1, <4>2 DEF Starts
    <3>2. CASE ~doing[t].aside
      BY <1>1, <1>5, <1>9, <2>2, <3>2 DEF Ordered, Fitted, Crossing
    <3> QED BY <3>1, <3>2
  <2> QED BY <2>1, <2>2 DEF Crossing
<1> QED BY <1>6, <1>7, <1>8, <1>10, <1>11, <1>12 DEF Ordered, Fitted

\* The start fails, and the pool of this machine comes back.
LEMMA StartFailsStep == ASSUME Ordered, NEW t \in Threads, StartFails(t), UNCHANGED projects PROVE Ordered'
<1>1. /\ At(t, "starting") /\ doing[t] \in Activator /\ activation' = Nobody
      /\ UNCHANGED <<kept, host, engine, aside, crossed>> /\ UNCHANGED <<active, flow, attached>>
      /\ registered' = IF doing[t].aside THEN LocalBack(registered, kept, host) ELSE registered
      /\ Ends(t) \/ \E S : EndsWithout(t, S)
  BY DoingsAre DEF StartFails, Ordered, Typed, At, projects
<1>2. engine = "built" /\ Starts(t) /\ activation = t
  BY <1>1 DEF Ordered, Sits, Starts, At, Typed
<1>3. doing' \in [Threads -> Doings] /\ doing'[t] = Idle /\ Rest(t)
  BY <1>1, EndsRest
<1>4. \A s \in Threads : Sits(s)'
  BY <1>1, <1>2, <1>3, EndsSit
<1>5. Engined'
  BY <1>1, <1>2 DEF Engined
<1>6. CASE ~doing[t].aside
  <2>1. UNCHANGED registered
    BY <1>1, <1>6
  <2>2. Typed'
    BY <1>1, <1>3, <2>1 DEF Ordered, Typed
  <2>3. Fitted'
    BY <1>1, <2>1 DEF Ordered, Fitted, MachinesApart, MadeOfWhatIsKept, Crossing, Made
  <2> QED BY <1>4, <1>5, <2>2, <2>3 DEF Ordered
<1>7. CASE doing[t].aside
  <2>1. registered' = LocalBack(registered, kept, host)
    BY <1>1, <1>7
  <2>2. ASSUME Pool \notin crossed, NEW m \in Names \ crossed, m # Pool, registered[m] # Off PROVE Apart(PoolKind, registered[m].of)
    BY <1>2, <1>7, <2>2 DEF Starts
  <2>3. registered \in [Names -> Slots \cup {Off}] /\ (\A m \in crossed \ {Pool} : registered[m] # Off) /\ (aside # Nobody => registered[aside] # Off)
    BY DEF Ordered, Typed, Fitted, Crossing
  <2> QED BY <1>1, <1>2, <1>3, <1>4, <2>1, <2>2, <2>3, BackStep
<1> QED BY <1>6, <1>7

\* An executor goes, and the pool of this machine comes back if it was aside for that one.
LEMMA DeactivateStep == ASSUME Ordered, NEW t \in Threads, Deactivate(t), UNCHANGED projects PROVE Ordered'
<1> DEFINE n == doing[t].name
           without == [registered EXCEPT ![n] = Off]
<1>1. /\ At(t, "deactivate") /\ doing[t] \in Deactivator /\ activation = Nobody /\ activation' = Nobody
      /\ UNCHANGED <<kept, host, engine>> /\ UNCHANGED <<active, flow, attached>>
      /\ Ends(t) \/ \E S : EndsWithout(t, S)
  BY DoingsAre DEF Deactivate, Ordered, Typed, At, projects
<1>2. n \in Names /\ engine = "built"
  BY <1>1 DEF Deactivator, Ordered, Sits, At, Typed
<1>3. doing' \in [Threads -> Doings] /\ doing'[t] = Idle /\ Rest(t)
  BY <1>1, EndsRest
<1>4. \A s \in Threads : Sits(s)'
  BY <1>1, <1>3, EndsSit
<1>5. Engined'
  BY <1>1, <1>2 DEF Engined
<1>6. without \in [Names -> Slots \cup {Off}] /\ (\A m \in Names \ {n} : without[m] = registered[m]) /\ without[n] = Off
  BY <1>2 DEF Ordered, Typed
<1>7. crossed \subseteq Names /\ (\A m \in crossed \ {Pool} : registered[m] # Off)
  BY DEF Ordered, Typed, Fitted, Crossing
<1>8. CASE Busy(n)
  <2>1. UNCHANGED <<registered, aside, crossed>>
    BY <1>8 DEF Deactivate
  <2>2. Typed'
    BY <1>1, <1>3, <2>1 DEF Ordered, Typed
  <2>3. Fitted'
    BY <1>1, <2>1 DEF Ordered, Fitted, MachinesApart, MadeOfWhatIsKept, Crossing, Made
  <2> QED BY <1>4, <1>5, <2>2, <2>3 DEF Ordered
<1>9. CASE ~Busy(n) /\ aside # n
  <2>1. registered' = without /\ aside' = aside /\ crossed' = crossed \ ({n} \ {Pool})
    BY <1>9 DEF Deactivate
  <2>2. Typed'
    BY <1>1, <1>3, <1>6, <1>7, <2>1 DEF Ordered, Typed
  <2>3. ASSUME NEW m \in Names \ crossed', registered'[m] # Off PROVE m \notin crossed /\ m # n /\ registered'[m] = registered[m]
    BY <1>6, <2>1, <2>3
  <2>4. aside # Nobody => aside \in Names \ {n, Pool} /\ registered'[aside] = registered[aside]
    BY <1>6, <1>9, <2>1 DEF Ordered, Fitted, Crossing, Typed, PoolKind
  <2>5. MachinesApart'
    <3>1. ASSUME NEW l \in Names \ crossed', NEW m \in Names \ crossed', l # m, registered'[l] # Off, registered'[m] # Off
          PROVE  Apart(registered'[l].of, registered'[m].of)
      BY <2>3, <3>1, FittedApart
    <3>2. aside' # Nobody => registered'[aside'] # Off /\ Pool \in registered'[aside'].of.hosts
      BY <2>1, <2>4 DEF Ordered, Fitted, MachinesApart
    <3> QED BY <3>1, <3>2 DEF MachinesApart, Apart
  <2>6. MadeOfWhatIsKept'
    <3>1. ASSUME NEW m \in Names \ crossed', registered'[m] # Off PROVE kept[m] # Off /\ registered'[m] = Made(m, kept, host)
      BY <2>3, <3>1 DEF Ordered, Fitted, MadeOfWhatIsKept
    <3> QED BY <1>1, <3>1 DEF MadeOfWhatIsKept, Made
  <2>7. Crossing'
    BY <1>6, <1>7, <2>1, <2>4 DEF Ordered, Fitted, Crossing
  <2> QED BY <1>4, <1>5, <2>2, <2>5, <2>6, <2>7 DEF Ordered, Fitted
<1>10. CASE ~Busy(n) /\ aside = n
  <2>1. registered' = LocalBack(without, kept, host) /\ aside' = Nobody /\ crossed' = crossed \ ({n} \ {Pool})
    BY <1>10 DEF Deactivate
  <2>2. n # Nobody /\ n # Pool /\ registered[n] # Off /\ registered[n].of.kind = "ray" /\ (n \in crossed => Pool \in crossed)
        /\ Pool \in registered[n].of.hosts
    BY <1>2, <1>10, NamesAre DEF Ordered, Fitted, Crossing, MachinesApart, Typed, PoolKind
  <2>3. ASSUME Pool \notin crossed, NEW m \in Names \ crossed, m # Pool, without[m] # Off PROVE Apart(PoolKind, registered[m].of)
    <3>1. m # n /\ n \notin crossed /\ registered[m] # Off
      BY <1>6, <2>2, <2>3
    <3>2. Apart(registered[n].of, registered[m].of)
      BY <1>2, <2>2, <2>3, <3>1, FittedApart
    <3>3. registered[m].of.kind \in {"ray", "queue"}
      BY <2>3, <3>1 DEF Ordered, Typed
    <3> QED BY <2>2, <3>2, <3>3 DEF Apart, PoolKind
  <2>4. \A m \in crossed' \ {Pool} : without[m] # Off
    BY <1>6, <1>7, <2>1
  <2>5. (\A m \in Names : without[m] # Off => without[m] = registered[m]) /\ crossed' \subseteq crossed /\ (Pool \in crossed => Pool \in crossed')
    BY <1>6, <2>1, <2>2
  <2>6. PICK r \in [Names -> Slots \cup {Off}] : r = without
    BY <1>6
  <2>7. registered' = LocalBack(r, kept, host) /\ (\A m \in Names : r[m] # Off => r[m] = registered[m]) /\ (\A m \in crossed' \ {Pool} : r[m] # Off)
        /\ (Pool \notin crossed => \A m \in Names \ crossed : m # Pool /\ r[m] # Off => Apart(PoolKind, registered[m].of))
    BY <2>1, <2>3, <2>4, <2>5, <2>6
  <2>8. aside' \in {aside, Nobody} /\ (aside' # Nobody => r[aside] # Off) /\ crossed' \subseteq crossed /\ (Pool \in crossed => Pool \in crossed')
        /\ (\A m \in Names \ {Pool} : r[m] # Off => m \in crossed' \/ m \notin crossed)
    BY <1>6, <2>1, <2>2, <2>6
  <2> HIDE DEF without, n
  <2> QED BY <1>1, <1>2, <1>3, <1>4, <2>7, <2>8, BackStep
<1> QED BY <1>8, <1>9, <1>10

\* What may be kept instead is fit to be kept.
LEMMA OthersAre ==
  ASSUME Ordered, NEW n
  PROVE  /\ n \in Hosts => \A h \in OtherHost(n) : h \in Described /\ \A m \in Hosts \ {n} : h[m] = host[m]
         /\ n \in Names => \A k \in OtherExecutor(n) : k \in Kept /\ \A m \in Names \ {n} : k[m] = kept[m]
<1>1. kept \in Kept /\ host \in Described
  BY DEF Ordered, Typed
<1>2. ASSUME n \in Hosts, NEW h \in OtherHost(n) PROVE h \in Described /\ \A m \in Hosts \ {n} : h[m] = host[m]
  BY <1>1, <1>2 DEF OtherHost, Described, Descriptions
<1>3. ASSUME n \in Names, NEW k \in OtherExecutor(n) PROVE k \in Kept /\ \A m \in Names \ {n} : k[m] = kept[m]
  <2>1. CASE k = kept
    BY <1>1, <2>1
  <2>2. CASE k # kept
    <3>1. n \in Others /\ \E c \in {Off} \cup Configs[n] : k = [kept EXCEPT ![n] = c]
      BY <1>3, <2>2, NamesAre DEF OtherExecutor
    <3>2. PICK c \in {Off} \cup Configs[n] : k = [kept EXCEPT ![n] = c]
      BY <3>1
    <3>3. c \in Kinds \cup {Off} /\ (c # Off => c.kind \in {"ray", "queue"})
      BY <3>1, NamesAre
    <3>4. kept \in [Names -> Kinds \cup {Off}] /\ kept[Pool] = PoolKind /\ (\A m \in Others : kept[m] # Off => kept[m].kind \in {"ray", "queue"})
      BY <1>1 DEF Kept
    <3> QED BY <3>1, <3>2, <3>3, <3>4, NamesAre DEF Kept
  <2> QED BY <2>1, <2>2
<1> QED BY <1>2, <1>3

\* Something else is kept: what is made of it was looked at before, or is noted.
LEMMA ChangeStep == ASSUME Ordered, NEW t \in Threads, Change(t), UNCHANGED projects PROVE Ordered'
<1> DEFINE n == doing[t].name
           users == doing[t].users
           table == doing[t].table
<1>1. /\ At(t, "changing") /\ doing[t] \in Changer /\ activation = Nobody /\ activation' = Nobody
      /\ UNCHANGED <<engine, aside>> /\ UNCHANGED <<active, flow, attached>>
      /\ Ends(t) \/ \E S : EndsWithout(t, S)
  BY DoingsAre DEF Change, Ordered, Typed, At, projects
<1>2. /\ users \subseteq {Pool} /\ (engine = "none" => users = {}) /\ table \in {"hosts", "executors"}
      /\ n \in IF table = "hosts" THEN Hosts ELSE Names
  BY <1>1 DEF Changer, Ordered, Sits, At
<1>3. doing' \in [Threads -> Doings] /\ doing'[t] = Idle /\ Rest(t)
  BY <1>1, EndsRest
<1>4. \A s \in Threads : Sits(s)'
  BY <1>1, <1>3, EndsSit
<1>5. CASE users # {} /\ Busy(Pool)
  <2>1. UNCHANGED <<kept, host, registered, crossed>>
    BY <1>5 DEF Change
  <2>2. Typed'
    BY <1>1, <1>3, <2>1 DEF Ordered, Typed
  <2>3. Fitted'
    BY <1>1, <2>1 DEF Ordered, Fitted, MachinesApart, MadeOfWhatIsKept, Crossing, Made
  <2>4. Engined'
    BY <1>1, <2>1 DEF Ordered, Engined
  <2> QED BY <1>4, <2>2, <2>3, <2>4 DEF Ordered
<1>6. CASE ~(users # {} /\ Busy(Pool))
  <2>1. /\ host' \in IF table = "hosts" THEN OtherHost(n) ELSE {host}
        /\ kept' \in IF table = "executors" THEN OtherExecutor(n) ELSE {kept}
        /\ registered' = IF users = {} THEN registered ELSE LocalBack(registered, kept', host')
        /\ crossed' = crossed \cup Came(t, <<kept', host'>> # <<kept, host>>)
    BY <1>6 DEF Change
  <2>2. /\ kept' \in Kept /\ host' \in Described
        /\ table = "hosts" => kept' = kept /\ \A m \in Hosts \ {n} : host'[m] = host[m]
        /\ table = "executors" => host' = host /\ \A m \in Names \ {n} : kept'[m] = kept[m]
    BY <1>2, <2>1, OthersAre DEF Ordered, Typed
  <2>3. kept'[Pool] = PoolKind /\ kept'[Pool] # Off /\ Made(Pool, kept', host').of = PoolKind /\ Made(Pool, kept', host') # Off
    <3>1. kept'[Pool] = PoolKind /\ kept'[Pool] # Off
      BY <2>2, NamesAre DEF Kept
    <3> QED BY <2>2, <3>1, NamesAre, MadeIs
  <2>4. /\ registered' \in [Names -> Slots \cup {Off}]
        /\ \A m \in Names \ {Pool} : registered'[m] = registered[m]
        /\ users = {} => registered'[Pool] = registered[Pool]
        /\ users # {} => registered'[Pool] = Made(Pool, kept', host')
    BY <1>6, <2>1, <2>2, LocalBackIs DEF Ordered, Typed
  <2>5. PICK seen : seen = IF <<kept', host'>> # <<kept, host>> THEN Users(table, n) \ users ELSE {}
    OBVIOUS
  <2>6. crossed' = crossed \cup (seen \cup {m \in {Pool} : aside \in seen}) \cup {m \in users : registered[m] = Off}
    BY <2>1, <2>5 DEF Came, WithPool
  <2>7. \A m \in seen : m \in Names /\ registered[m] # Off
    BY <2>5, NamesAre DEF Users, Active, Ordered, Engined, Typed
  <2>8. aside # Nobody => aside \in Names \ {Pool} /\ registered'[aside] = registered[aside]
    BY <2>4 DEF Ordered, Fitted, Crossing, Typed, PoolKind
  <2>9. crossed \subseteq crossed' /\ crossed' \subseteq Names
    BY <1>2, <2>6, <2>7, NamesAre DEF Ordered, Typed
  <2>10. ASSUME NEW m \in Names \ crossed', registered'[m] # Off
         PROVE  m \notin crossed /\ registered[m] # Off /\ registered'[m].of = registered[m].of
    <3>1. CASE m = Pool /\ users # {}
      <4>1. Pool \in users /\ registered[Pool] # Off
        BY <1>2, <2>6, <2>10, <3>1
      <4>2. registered[Pool].of = PoolKind
        BY <4>1, NamesAre DEF Ordered, Typed
      <4> QED BY <2>3, <2>4, <2>9, <2>10, <3>1, <4>1, <4>2
    <3>2. CASE m # Pool \/ users = {}
      BY <2>4, <2>9, <2>10, <3>2
    <3> QED BY <3>1, <3>2
  <2>11. Typed'
    <3>1. ASSUME NEW m \in Names, registered'[m] # Off
          PROVE  registered'[m].of \in Kinds /\ (IF m = Pool THEN registered'[m].of = PoolKind ELSE registered'[m].of.kind \in {"ray", "queue"})
      BY <2>3, <2>4, <3>1, NamesAre DEF Ordered, Typed
    <3> QED BY <1>1, <1>3, <2>2, <2>4, <2>9, <3>1 DEF Ordered, Typed
  <2>12. Engined'
    <3>1. engine = "none" => registered' = registered
      BY <1>2, <2>1
    <3> QED BY <1>1, <3>1 DEF Ordered, Engined
  <2>13. MachinesApart'
    <3>1. ASSUME NEW l \in Names \ crossed', NEW m \in Names \ crossed', l # m, registered'[l] # Off, registered'[m] # Off
          PROVE  Apart(registered'[l].of, registered'[m].of)
      BY <2>10, <3>1, FittedApart
    <3>2. aside' # Nobody => registered'[aside'] # Off /\ Pool \in registered'[aside'].of.hosts
      BY <1>1, <2>8 DEF Ordered, Fitted, MachinesApart
    <3> QED BY <3>1, <3>2 DEF MachinesApart, Apart
  <2>14. MadeOfWhatIsKept'
    <3>1. ASSUME NEW m \in Names \ crossed', registered'[m] # Off PROVE kept'[m] # Off /\ registered'[m] = Made(m, kept', host')
      <4>1. CASE m = Pool /\ users # {}
        BY <2>3, <2>4, <4>1
      <4>2. CASE m # Pool \/ users = {}
        <5>1. registered'[m] = registered[m] /\ m \notin crossed /\ registered[m] # Off /\ m \notin users
          BY <1>2, <2>4, <2>10, <3>1, <4>2
        <5>2. kept[m] # Off /\ registered[m] = Made(m, kept, host) /\ kept[m].hosts \subseteq Hosts
          BY <3>1, <5>1 DEF Ordered, Fitted, MadeOfWhatIsKept, Typed, Kept, Kinds
        <5>3. CASE <<kept', host'>> = <<kept, host>>
          BY <5>1, <5>2, <5>3
        <5>4. CASE <<kept', host'>> # <<kept, host>>
          <6>1. m \notin Users(table, n)
            BY <2>5, <2>6, <3>1, <5>1, <5>4
          <6>2. m \in Active /\ engine # "none"
            BY <3>1, <5>1 DEF Active, Ordered, Engined
          <6>3. CASE table = "executors"
            <7>1. m # n /\ kept'[m] = kept[m] /\ host' = host
              BY <2>2, <3>1, <5>2, <6>1, <6>2, <6>3 DEF Users
            <7> QED BY <5>1, <5>2, <7>1 DEF Made
          <6>4. CASE table = "hosts"
            <7>1. n \notin kept[m].hosts /\ kept' = kept /\ \A x \in kept[m].hosts : host'[x] = host[x]
              BY <2>2, <3>1, <5>2, <6>1, <6>2, <6>4 DEF Users
            <7>2. [x \in kept[m].hosts |-> host'[x]] = [x \in kept[m].hosts |-> host[x]]
              BY <7>1
            <7> QED BY <5>1, <5>2, <7>1, <7>2 DEF Made
          <6> QED BY <1>2, <6>3, <6>4
        <5> QED BY <5>3, <5>4
      <4> QED BY <4>1, <4>2
    <3> QED BY <3>1 DEF MadeOfWhatIsKept, Made
  <2>15. Crossing'
    <3>1. ASSUME NEW m \in crossed', m # Pool PROVE registered'[m] # Off
      <4>1. m \in crossed \/ m \in seen
        BY <1>2, <2>6, <3>1
      <4>2. registered[m] # Off /\ m \in Names
        BY <2>7, <3>1, <4>1 DEF Ordered, Typed, Fitted, Crossing
      <4> QED BY <2>4, <3>1, <4>2
    <3>2. ASSUME aside # Nobody, aside \in crossed' PROVE Pool \in crossed'
      <4>1. aside \in crossed \/ aside \in seen
        BY <1>2, <2>6, <2>8, <3>2
      <4> QED BY <2>6, <3>2, <4>1 DEF Ordered, Fitted, Crossing
    <3> QED BY <1>1, <2>8, <3>1, <3>2 DEF Ordered, Fitted, Crossing
  <2> QED BY <1>4, <2>11, <2>12, <2>13, <2>14, <2>15 DEF Ordered, Fitted
<1> QED BY <1>5, <1>6

-----------------------------------------------------------------------------
(* What else happens *)

\* A step that leaves the executors and the threads.
LEMMA StaysStep == ASSUME Ordered, UNCHANGED <<executors, doing, active, flow, attached>> PROVE Ordered'
<1>1. doing' \in [Threads -> Doings] /\ {active, flow, attached}' \subseteq Places /\ UNCHANGED executors /\ UNCHANGED doing
  BY DEF Ordered, Typed
<1> QED BY <1>1, QuietStep

\* A call that closes the project leaves the threads where they are, some without it.
LEMMA ClosesStep ==
  ASSUME Ordered, UNCHANGED executors, RuntimeCloses \/ RuntimeStays, active' \in Places
  PROVE  Ordered'
<1>1. CASE UNCHANGED doing
  <2>1. {active, flow, attached}' \subseteq Places /\ doing' \in [Threads -> Doings]
    BY <1>1 DEF RuntimeCloses, RuntimeStays, Ordered, Typed, Places
  <2> QED BY <1>1, <2>1, QuietStep
<1>2. CASE doing' = [t \in Threads |-> IF At(t, "landing") THEN [doing[t] EXCEPT !.home = None, !.flow = None]
                                       ELSE IF At(t, "ready") THEN [doing[t] EXCEPT !.flow = None] ELSE doing[t]]
           /\ ~RuntimeStays
  <2>1. ASSUME NEW s \in Threads
        PROVE  /\ doing'[s] \in Doings
               /\ \/ doing'[s] = doing[s] \/ (At(s, "landing") /\ doing'[s].at = "landing")
                  \/ ~At(s, "starting") /\ doing'[s].at # "starting" /\ Sits(s)'
    <3>1. doing[s] \in Doings
      BY DEF Ordered, Typed
    <3>2. CASE At(s, "landing")
      <4>1. doing[s] \in Lander /\ doing'[s] = [doing[s] EXCEPT !.home = None, !.flow = None]
        BY <1>2, <3>1, <3>2, DoingsAre DEF At
      <4>2. doing'[s] \in Lander
        BY <4>1 DEF Lander, Places
      <4> QED BY <3>2, <4>2 DEF Doings, Lander
    <3>3. CASE At(s, "ready")
      <4>1. doing[s] \in Submitter /\ doing'[s] = [doing[s] EXCEPT !.flow = None]
        BY <1>2, <3>1, <3>3, DoingsAre DEF At
      <4>2. doing'[s] \in Submitter /\ doing'[s] \in Doings /\ doing'[s].at = "ready"
        BY <3>3, <4>1 DEF Submitter, Places, Doings, At
      <4>3. engine # "none" /\ engine' = engine /\ doing'[s] \notin Activator
        BY <3>3, <4>2, DoingsAre DEF Ordered, Sits, At, executors
      <4> QED BY <3>3, <4>2, <4>3 DEF Sits, At
    <3>4. CASE ~At(s, "landing") /\ ~At(s, "ready")
      BY <1>2, <3>1, <3>4
    <3> QED BY <3>2, <3>3, <3>4
  <2>2. doing' \in [Threads -> Doings]
    BY <1>2, <2>1
  <2>3. flow' = None /\ attached' \in {attached, None}
    BY <1>2 DEF RuntimeCloses
  <2>4. {active, flow, attached}' \subseteq Places
    BY <2>3 DEF Ordered, Typed, Places
  <2> QED BY <2>1, <2>2, <2>4, QuietStep
<1> QED BY <1>1, <1>2 DEF RuntimeCloses, RuntimeStays

\* The calls on projects.
LEMMA ProjectStep ==
  ASSUME Ordered, NEW t \in Threads,
         \/ \E f \in Folders : \/ Open(t, f) \/ CreateOrOpen(t, f)
                               \/ \E base \in {"global", "default"} : Create(t, f, base) \/ CreateOver(t, f, base) \/ CreateOnly(t, f, base)
         \/ \E cancel \in BOOLEAN : Close(t, cancel)
         \/ \E f \in Folders, files \in BOOLEAN : Delete(t, f, files)
         \/ Register(t)
  PROVE  Ordered'
<1>1. active \in Places
  BY DEF Ordered, Typed
<1>2. ASSUME NEW f \in Folders, Open(t, f) PROVE Ordered'
  <2>1. UNCHANGED executors /\ (RuntimeCloses \/ RuntimeStays) /\ active' \in Places
    BY <1>1, <1>2 DEF Open, ProjectCall, StaysOpen, Loads, Activates, Places
  <2> QED BY <2>1, ClosesStep
<1>3. ASSUME NEW f \in Folders, Finds(t, f) PROVE Ordered'
  <2>1. CASE ~Open(t, f)
    <3>1. UNCHANGED executors /\ RuntimeStays /\ active' \in Places
      BY <1>1, <1>3, <2>1 DEF Finds, ProjectCall
    <3> QED BY <3>1, ClosesStep
  <2> QED BY <1>2, <2>1
<1>4. ASSUME NEW f \in Folders, NEW base \in {"global", "default"},
             Create(t, f, base) \/ CreateOver(t, f, base) \/ CreateOnly(t, f, base)
      PROVE  Ordered'
  <2>1. UNCHANGED executors /\ (RuntimeCloses \/ RuntimeStays) /\ active' \in Places
    BY <1>1, <1>4 DEF Create, CreateOver, CreateOnly, Makes, ProjectCall, Activates, Places
  <2> QED BY <2>1, ClosesStep
<1>5. ASSUME NEW f \in Folders, CreateOrOpen(t, f) PROVE Ordered'
  BY <1>3, <1>4, <1>5 DEF CreateOrOpen, Named
<1>6. ASSUME NEW cancel \in BOOLEAN, Close(t, cancel) PROVE Ordered'
  <2>1. UNCHANGED executors /\ (RuntimeCloses \/ RuntimeStays) /\ active' \in Places
    BY <1>1, <1>6 DEF Close, ProjectCall, Stays, StaysOpen, Activates, Places
  <2> QED BY <2>1, ClosesStep
<1>7. ASSUME NEW f \in Folders, NEW files \in BOOLEAN, Delete(t, f, files) PROVE Ordered'
  <2>1. UNCHANGED executors /\ (RuntimeCloses \/ RuntimeStays) /\ active' \in Places
    BY <1>1, <1>7 DEF Delete, ProjectCall, Stays, StaysOpen, Activates, Places
  <2> QED BY <2>1, ClosesStep
<1>8. ASSUME Register(t) PROVE Ordered'
  <2>1. UNCHANGED executors /\ RuntimeStays /\ active' \in Places
    BY <1>1, <1>8 DEF Register, ProjectCall
  <2> QED BY <2>1, ClosesStep
<1> QED BY <1>2, <1>4, <1>5, <1>6, <1>7, <1>8

\* A thread that submits goes on or ends.
LEMMA GoesStep ==
  ASSUME Ordered, NEW t \in Threads, NEW x \in {Idle} \cup Submitter \cup Lander, Goes(t, x), UNCHANGED executors,
         ~At(t, "starting"), {active, flow, attached}' \subseteq Places, x.at \in {"idle", "building"} \/ engine # "none"
  PROVE  Ordered'
<1>1. x \in Doings /\ doing' = [doing EXCEPT ![t] = x] /\ UNCHANGED engine
  BY DEF Doings, Goes, executors
<1>2. doing' \in [Threads -> Doings] /\ doing'[t] = x /\ Rest(t)
  BY <1>1, GoesRest DEF Ordered
<1>3. x \notin Activator /\ x.at \notin {"starting", "changing"}
  BY DEF Activator, Idle, Submitter, Lander
<1>4. Sits(t)'
  BY <1>1, <1>2, <1>3 DEF Sits, At
<1>5. \A s \in Threads : \/ doing'[s] = doing[s] \/ (At(s, "landing") /\ doing'[s].at = "landing")
                         \/ ~At(s, "starting") /\ doing'[s].at # "starting" /\ Sits(s)'
  BY <1>2, <1>3, <1>4 DEF Rest
<1> QED BY <1>2, <1>5, QuietStep

\* `submit`, step by step.
LEMMA SubmitStep ==
  ASSUME Ordered, NEW t \in Threads,
         \/ Attach(t) \/ MakeFlow(t) \/ Ready(t) \/ Land(t)
         \/ \E n \in Names : Submit(t, n) \/ \E j \in jobs : Move(t, j, n)
  PROVE  Ordered'
<1>1. /\ UNCHANGED executors /\ UNCHANGED active /\ {active, flow, attached} \subseteq Places
      /\ doing[t] \in Doings /\ registered \in [Names -> Slots \cup {Off}] /\ None \in Places
  BY DEF Attach, MakeFlow, Ready, Land, Submit, Move, Only, Ordered, Typed, Places
<1>2. Idle \in {Idle} \cup Submitter \cup Lander /\ Idle.at = "idle"
  BY DEF Idle
<1>3. ASSUME NEW n \in Names, Submits(t, n), At(t, "idle"), UNCHANGED <<flow, attached>> PROVE Ordered'
  <2>1. PICK then \in {"flow", "ready"} : then = IF flow # None THEN "ready" ELSE "flow"
    OBVIOUS
  <2>2. PICK x : x = [at |-> IF engine = "none" THEN "building" ELSE then, then |-> then, name |-> n, home |-> active, flow |-> flow]
    OBVIOUS
  <2>3. x \in Submitter /\ (engine = "none" => x.at = "building")
    BY <1>1, <2>2 DEF Submitter
  <2>4. Goes(t, x) /\ ~At(t, "starting")
    BY <1>3, <2>1, <2>2 DEF Submits, At
  <2> QED BY <1>1, <1>3, <2>3, <2>4, GoesStep
<1>4. ASSUME NEW n \in Names, Submit(t, n) \/ \E j \in jobs : Move(t, j, n) PROVE Ordered'
  BY <1>3, <1>4 DEF Submit, Move
<1>5. ASSUME ~At(t, "idle"), ~At(t, "building"), ~At(t, "starting"), ~At(t, "changing"), {flow, attached}' \subseteq Places,
             NEW x \in {Idle} \cup Submitter \cup Lander, Goes(t, x)
      PROVE  Ordered'
  <2>1. engine # "none"
    BY <1>5 DEF Ordered, Sits, At
  <2> QED BY <1>1, <1>5, <2>1, GoesStep
<1>6. CASE Attach(t)
  <2>1. doing[t] \in Submitter /\ At(t, "flow")
    BY <1>1, <1>6, DoingsAre DEF Attach, At
  <2>2. [doing[t] EXCEPT !.at = "flowing"] \in Submitter /\ doing[t].home \in Places
    BY <2>1 DEF Submitter
  <2>3. {flow, attached}' \subseteq Places /\ (Goes(t, Idle) \/ Goes(t, [doing[t] EXCEPT !.at = "flowing"]))
    BY <1>1, <1>6, <2>2 DEF Attach, Ends
  <2> QED BY <1>2, <1>5, <2>1, <2>2, <2>3 DEF At
<1>7. CASE MakeFlow(t)
  <2>1. doing[t] \in Submitter /\ At(t, "flowing")
    BY <1>1, <1>7, DoingsAre DEF MakeFlow, At
  <2>2. [doing[t] EXCEPT !.at = "ready", !.flow = doing[t].home] \in Submitter /\ doing[t].home \in Places
    BY <2>1 DEF Submitter
  <2>3. {flow, attached}' \subseteq Places /\ Goes(t, [doing[t] EXCEPT !.at = "ready", !.flow = doing[t].home])
    BY <1>1, <1>7, <2>2 DEF MakeFlow
  <2> QED BY <1>5, <2>1, <2>2, <2>3 DEF At
<1>8. CASE Ready(t)
  <2>1. doing[t] \in Submitter /\ At(t, "ready")
    BY <1>1, <1>8, DoingsAre DEF Ready, At
  <2>2. PICK x : x = [at |-> "landing", slot |-> registered[doing[t].name], home |-> attached, flow |-> doing[t].flow]
    OBVIOUS
  <2>3. x \in Lander
    BY <1>1, <2>1, <2>2 DEF Lander, Submitter
  <2>4. {flow, attached}' \subseteq Places /\ (Goes(t, Idle) \/ Goes(t, x))
    BY <1>1, <1>8, <2>2 DEF Ready, Ends
  <2> QED BY <1>2, <1>5, <2>1, <2>3, <2>4 DEF At
<1>9. CASE Land(t)
  <2>1. {flow, attached}' \subseteq Places /\ Goes(t, Idle) /\ At(t, "landing")
    BY <1>1, <1>9 DEF Land, Ends
  <2> QED BY <1>2, <1>5, <2>1 DEF At
<1> QED BY <1>4, <1>6, <1>7, <1>8, <1>9

\* A process that starts has no executors.
LEMMA RestartStep == ASSUME Ordered, Restart PROVE Ordered'
<1>1. /\ engine' = "none" /\ registered' = [n \in Names |-> Off] /\ aside' = Nobody /\ activation' = Nobody
      /\ doing' = [t \in Threads |-> Idle] /\ UNCHANGED <<kept, host>> /\ crossed' = {}
      /\ active' = None /\ flow' = None /\ attached' = None
  BY DEF Restart, Activates
<1>2. Idle \in Doings /\ Idle.at = "idle" /\ Idle \notin Activator
  BY DEF Doings, Idle, Activator
<1>3. Typed'
  BY <1>1, <1>2 DEF Ordered, Typed, Places
<1>4. Engined' /\ \A s \in Threads : Sits(s)'
  BY <1>1, <1>2 DEF Engined, Sits, At
<1>5. Fitted'
  BY <1>1 DEF Fitted, MachinesApart, MadeOfWhatIsKept, Crossing
<1> QED BY <1>3, <1>4, <1>5 DEF Ordered

\* At the start none is active.
LEMMA OrderedInit == ASSUME Init PROVE Ordered
<1>1. /\ engine = "none" /\ registered = [n \in Names |-> Off] /\ aside = Nobody /\ activation = Nobody
      /\ doing = [t \in Threads |-> Idle] /\ crossed = {}
      /\ active = None /\ flow = None /\ attached = None /\ host = [h \in Hosts |-> "first"]
  BY DEF Init, ExecutorsInit
<1>2. Idle \in Doings /\ Idle.at = "idle" /\ Idle \notin Activator
  BY DEF Doings, Idle, Activator
<1>3. PICK all : all = UNION {Configs[n] : n \in Others} \cup {Off, PoolKind}
  OBVIOUS
<1>4. kept \in [Names -> all] /\ kept[Pool] = PoolKind /\ \A n \in Others : kept[n] \in Configs[n] \cup {Off}
  BY <1>3 DEF Init, ExecutorsInit, PoolKind
<1>5. kept \in Kept
  <2>1. \A n \in Names : kept[n] \in Kinds \cup {Off}
    BY <1>4, NamesAre
  <2>2. kept \in [Names -> Kinds \cup {Off}]
    BY <1>4, <2>1
  <2> QED BY <1>4, <2>2, NamesAre DEF Kept
<1>6. Typed
  BY <1>1, <1>2, <1>5 DEF Typed, Places, Described, Descriptions
<1>7. Engined /\ \A s \in Threads : Sits(s)
  BY <1>1, <1>2 DEF Engined, Sits, At
<1>8. Fitted
  BY <1>1 DEF Fitted, MachinesApart, MadeOfWhatIsKept, Crossing
<1> QED BY <1>6, <1>7, <1>8 DEF Ordered

\* Whatever happens, what was looked at is so, or what came across is noted.
LEMMA OrderedStep == ASSUME Ordered, [Next]_vars PROVE Ordered'
<1>1. ASSUME NEW t \in Threads, ExecutorsCall(t) PROVE Ordered'
  <2>1. UNCHANGED projects
    BY <1>1 DEF ExecutorsCall
  <2> QED BY <1>1, <2>1, BuildEngineStep, BuildPoolStep, ActivateCalledStep, DeactivateCalledStep, ChangeCalledStep, ActivateStep,
             StartedStep, StartFailsStep, DeactivateStep, ChangeStep DEF ExecutorsCall
<1>2. CASE UNCHANGED vars
  BY <1>2, StaysStep DEF vars, projects
<1>3. ASSUME NEW t \in Threads,
             \/ \E k \in Keys, v \in Values : SetForUser(t, k, v)
             \/ \E k \in Keys, v \in Values, too \in BOOLEAN : Update(t, k, v, too)
             \/ \E k \in Keys, target \in {"global", "default"} : Reset(t, k, target)
      PROVE  Ordered'
  <2>1. UNCHANGED <<executors, doing, active, flow, attached>>
    BY <1>3 DEF SetForUser, Update, Reset, SettingsCall, ProjectCall, projects
  <2> QED BY <2>1, StaysStep
<1>4. ASSUME NEW f \in Folders,
             \/ Removed(f)
             \/ \E app \in Apps, base \in {"global", "default"} : CatalogCreates(f, app, base)
             \/ \E g \in Folders, app \in Apps : CatalogMoves(f, g, app)
             \/ \E files \in BOOLEAN : CatalogDeletes(f, files)
      PROVE  Ordered'
  <2>1. UNCHANGED <<executors, doing, active, flow, attached>>
    BY <1>4 DEF Removed, CatalogCreates, CatalogMoves, CatalogDeletes, Elsewhere
  <2> QED BY <2>1, StaysStep
<1>5. ASSUME NEW j \in jobs, JobEnds(j) PROVE Ordered'
  BY <1>5, StaysStep DEF JobEnds, projects
<1> QED BY <1>1, <1>2, <1>3, <1>4, <1>5, ProjectStep, SubmitStep, RestartStep DEF Next

\* A machine works for one executor at a time, whichever threads start, stop and change them meanwhile
\* (`blocked` and `activate`); only what a change of what is kept came across may share.
THEOREM MachinesApartHolds == Spec => []MachinesApart
<1>1. Ordered => MachinesApart
  BY DEF Ordered, Fitted
<1> QED BY <1>1, OrderedInit, OrderedStep, PTL DEF Spec

\* No executor and no host changes under one that is made of it, though a start uses what it read
\* minutes before (`_change`, `activate`): what did change meanwhile is noted, and nothing else is out
\* of date.
THEOREM MadeOfWhatIsKeptHolds == Spec => []MadeOfWhatIsKept
<1>1. Ordered => MadeOfWhatIsKept
  BY DEF Ordered, Fitted
<1> QED BY <1>1, OrderedInit, OrderedStep, PTL DEF Spec

-----------------------------------------------------------------------------
(* Jobs *)

\* The journal is attached before there is a flow, by one thread, for a project that was open.
Flows ==
  /\ flow # None => attached # None
  /\ \A t \in Threads : At(t, "flowing") => flow = None /\ attached # None
  /\ \A s, t \in Threads : At(s, "flowing") /\ At(t, "flowing") => s = t
  /\ \A t \in Threads : doing[t] \in Submitter => doing[t].home # None

\* A step in which nobody attaches a journal, and who submits does so for the same project.
Flowing(s) ==
  \/ doing'[s] = doing[s]
  \/ doing'[s].at # "flowing" /\ (doing'[s] \in Submitter => doing[s] \in Submitter /\ doing'[s].home = doing[s].home)

LEMMA FlowsStays ==
  ASSUME Flows, \A s \in Threads : Flowing(s), UNCHANGED attached, UNCHANGED flow \/ flow' = None
  PROVE  Flows'
BY DEF Flows, Flowing, At

\* Threads that start, stop and change executors are not those that submit, until the engine is there.
LEMMA CallFlows == ASSUME Ordered, Flows, NEW t \in Threads, ExecutorsCall(t) PROVE Flows'
<1>1. UNCHANGED <<flow, attached>> /\ doing[t] \in Doings
  BY DEF ExecutorsCall, projects, Ordered, Typed
<1>2. ASSUME NEW x \in Doings, doing' = [doing EXCEPT ![t] = x] \/ (\E S : doing' = [Without(S) EXCEPT ![t] = x]),
             x.at # "flowing", x \in Submitter => doing[t] \in Submitter /\ x.home = doing[t].home
      PROVE  Flows'
  <2>1. doing' \in [Threads -> Doings] /\ doing'[t] = x /\ Rest(t)
    BY <1>2, GoesRest DEF Ordered
  <2>2. ASSUME NEW s \in Threads PROVE Flowing(s)
    <3>1. CASE s = t
      BY <1>2, <2>1, <3>1 DEF Flowing
    <3>2. CASE s # t
      <4>1. \A d \in Submitter : d.at # "landing"
        BY DEF Submitter
      <4> QED BY <2>1, <3>2, <4>1 DEF Flowing, Rest
    <3> QED BY <3>1, <3>2
  <2> QED BY <1>1, <2>2, FlowsStays
<1>3. Idle \in Doings /\ Idle.at = "idle" /\ Idle \notin Submitter
  BY DEF Doings, Idle, Submitter
<1>4. ASSUME Ends(t) \/ \E S : EndsWithout(t, S) PROVE Flows'
  BY <1>2, <1>3, <1>4 DEF Ends, Goes, EndsWithout
<1>5. CASE BuildEngine(t) \/ BuildPool(t)
  <2>1. doing[t].at \in {"building", "pooling"} /\ doing[t] \in Submitter \cup Activator
    BY <1>1, <1>5, DoingsAre DEF BuildEngine, BuildPool, At
  <2>2. ASSUME NEW at \in {"pooling", doing[t].then},
               doing' = [doing EXCEPT ![t] = [doing[t] EXCEPT !.at = at]]
                 \/ \E S : doing' = [Without(S) EXCEPT ![t] = [doing[t] EXCEPT !.at = at]]
        PROVE  Flows'
    <3>1. PICK x : x = [doing[t] EXCEPT !.at = at]
      OBVIOUS
    <3>2. x \in Doings /\ x.at # "flowing" /\ (x \in Submitter => doing[t] \in Submitter /\ x.home = doing[t].home)
      <4>1. CASE doing[t] \in Submitter
        BY <3>1, <4>1 DEF Submitter, Doings
      <4>2. CASE doing[t] \in Activator
        BY <3>1, <4>2 DEF Submitter, Activator, Doings
      <4> QED BY <2>1, <4>1, <4>2
    <3> QED BY <1>2, <2>2, <3>1, <3>2
  <2>3. CASE BuildEngine(t)
    BY <1>4, <2>2, <2>3 DEF BuildEngine, Goes
  <2>4. CASE BuildPool(t)
    BY <1>4, <2>2, <2>4 DEF BuildPool
  <2> QED BY <1>5, <2>3, <2>4
<1>6. CASE Activate(t)
  <2>1. doing[t] \in Activator
    BY <1>1, <1>6, DoingsAre DEF Activate, At
  <2>2. ASSUME NEW takes \in BOOLEAN,
               doing' = [doing EXCEPT ![t] = [doing[t] EXCEPT !.at = "starting", !.aside = takes]]
                 \/ \E S : doing' = [Without(S) EXCEPT ![t] = [doing[t] EXCEPT !.at = "starting", !.aside = takes]]
        PROVE  Flows'
    <3>1. PICK x : x = [doing[t] EXCEPT !.at = "starting", !.aside = takes]
      OBVIOUS
    <3>2. x \in Activator /\ x \in Doings /\ x \notin Submitter /\ x.at # "flowing"
      BY <2>1, <3>1 DEF Activator, Submitter, Doings
    <3> QED BY <1>2, <2>2, <3>1, <3>2
  <2> DEFINE takes == doing[t].kept[doing[t].name].kind = "ray" /\ Pool \in doing[t].kept[doing[t].name].hosts /\ registered[Pool] # Off
  <2>3. \/ Ends(t)
        \/ doing' = [doing EXCEPT ![t] = [doing[t] EXCEPT !.at = "starting", !.aside = takes]]
        \/ \E S : doing' = [Without(S) EXCEPT ![t] = [doing[t] EXCEPT !.at = "starting", !.aside = takes]]
    BY <1>6 DEF Activate, Goes
  <2>4. takes \in BOOLEAN
    OBVIOUS
  <2> HIDE DEF takes
  <2> QED BY <1>4, <2>2, <2>3, <2>4
<1>7. CASE Started(t) \/ StartFails(t) \/ Deactivate(t) \/ Change(t)
  BY <1>4, <1>7 DEF Started, StartFails, Deactivate, Change
<1>8. ASSUME NEW n \in Names, ActivateCalled(t, n) PROVE Flows'
  <2>1. PICK x : x = [at |-> IF engine = "none" THEN "building" ELSE "activate", then |-> "activate",
                      name |-> n, kept |-> kept, host |-> host, aside |-> FALSE]
    OBVIOUS
  <2>2. x \in Activator /\ x \in Doings /\ x \notin Submitter /\ x.at # "flowing"
    BY <2>1 DEF Activator, Submitter, Doings, Ordered, Typed
  <2>3. doing' = [doing EXCEPT ![t] = x]
    BY <1>8, <2>1 DEF ActivateCalled, Goes
  <2> QED BY <1>2, <2>2, <2>3
<1>9. ASSUME NEW n \in Names, DeactivateCalled(t, n) PROVE Flows'
  <2>1. PICK x : x = [at |-> "deactivate", name |-> n]
    OBVIOUS
  <2>2. x \in Deactivator /\ x \in Doings /\ x \notin Submitter /\ x.at # "flowing"
    BY <2>1 DEF Deactivator, Submitter, Doings
  <2>3. doing' = [doing EXCEPT ![t] = x]
    BY <1>9, <2>1 DEF DeactivateCalled, Goes
  <2> QED BY <1>2, <2>2, <2>3
<1>10. ASSUME NEW table \in {"hosts", "executors"}, NEW n \in IF table = "hosts" THEN Hosts ELSE Names, ChangeCalled(t, table, n)
       PROVE  Flows'
  <2>1. PICK x : x = [at |-> "changing", table |-> table, name |-> n, users |-> Users(table, n)]
    OBVIOUS
  <2>2. Users(table, n) \subseteq {Pool} /\ doing' = [doing EXCEPT ![t] = x]
    BY <1>10, <2>1 DEF ChangeCalled, Goes
  <2>3. x \in Changer /\ x \in Doings /\ x \notin Submitter /\ x.at # "flowing"
    BY <2>1, <2>2, NamesAre DEF Changer, Submitter, Doings
  <2> QED BY <1>2, <2>2, <2>3
<1> QED BY <1>5, <1>6, <1>7, <1>8, <1>9, <1>10 DEF ExecutorsCall

\* A call that closes the project: nobody is about to make a flow for it.
LEMMA ClosesFlows == ASSUME Ordered, Flows, RuntimeCloses \/ RuntimeStays PROVE Flows'
<1>1. CASE RuntimeStays \/ flow = None
  <2>1. UNCHANGED <<doing, attached>> /\ (UNCHANGED flow \/ flow' = None)
    BY <1>1 DEF RuntimeCloses, RuntimeStays
  <2> QED BY <2>1, FlowsStays DEF Flowing
<1>2. CASE RuntimeCloses /\ flow # None
  <2>1. /\ flow' = None
        /\ doing' = [t \in Threads |-> IF At(t, "landing") THEN [doing[t] EXCEPT !.home = None, !.flow = None]
                                       ELSE IF At(t, "ready") THEN [doing[t] EXCEPT !.flow = None] ELSE doing[t]]
    BY <1>2 DEF RuntimeCloses
  <2>2. ASSUME NEW s \in Threads
        PROVE  doing'[s].at # "flowing" /\ (doing'[s] \in Submitter => doing[s] \in Submitter /\ doing'[s].home = doing[s].home)
    <3>1. doing[s] \in Doings /\ ~At(s, "flowing")
      BY <1>2 DEF Ordered, Typed, Flows
    <3>2. CASE At(s, "landing")
      <4>1. doing[s] \in Lander /\ doing'[s] = [doing[s] EXCEPT !.home = None, !.flow = None]
        BY <2>1, <3>1, <3>2, DoingsAre DEF At
      <4> QED BY <4>1 DEF Lander, Submitter
    <3>3. CASE At(s, "ready")
      <4>1. doing[s] \in Submitter /\ doing'[s] = [doing[s] EXCEPT !.flow = None]
        BY <2>1, <3>1, <3>3, DoingsAre DEF At
      <4> QED BY <3>3, <4>1 DEF Submitter, At
    <3>4. CASE ~At(s, "landing") /\ ~At(s, "ready")
      BY <2>1, <3>1, <3>4 DEF At
    <3> QED BY <3>2, <3>3, <3>4
  <2> QED BY <2>1, <2>2 DEF Flows, At
<1> QED BY <1>1, <1>2

\* `submit`: one attaches the journal, and makes the flow.
LEMMA SubmitFlows ==
  ASSUME Ordered, Flows, NEW t \in Threads,
         \/ Attach(t) \/ MakeFlow(t) \/ Ready(t) \/ Land(t)
         \/ \E n \in Names : Submit(t, n) \/ \E j \in jobs : Move(t, j, n)
  PROVE  Flows'
<1>1. doing \in [Threads -> Doings] /\ doing[t] \in Doings
  BY DEF Ordered, Typed
<1>2. Idle \notin Submitter /\ Idle.at = "idle"
  BY DEF Idle, Submitter
<1>3. ASSUME NEW x, Goes(t, x), UNCHANGED <<flow, attached>>, x.at # "flowing", x \in Submitter => x.home # None PROVE Flows'
  BY <1>1, <1>3 DEF Goes, Flows, At
<1>4. ASSUME NEW n \in Names, Submits(t, n), active # None, UNCHANGED <<flow, attached>> PROVE Flows'
  <2>1. PICK then \in {"flow", "ready"} : then = IF flow # None THEN "ready" ELSE "flow"
    OBVIOUS
  <2>2. PICK x : x = [at |-> IF engine = "none" THEN "building" ELSE then, then |-> then, name |-> n, home |-> active, flow |-> flow]
    OBVIOUS
  <2>3. x.at # "flowing" /\ x.home # None /\ Goes(t, x)
    BY <1>4, <2>1, <2>2 DEF Submits
  <2> QED BY <1>3, <1>4, <2>3
<1>5. ASSUME NEW n \in Names, Submit(t, n) \/ \E j \in jobs : Move(t, j, n) PROVE Flows'
  BY <1>4, <1>5 DEF Submit, Move
<1>6. CASE Attach(t)
  <2>1. doing[t] \in Submitter /\ At(t, "flow") /\ doing[t].home # None /\ UNCHANGED flow
    BY <1>1, <1>6, DoingsAre DEF Attach, At, Flows
  <2>2. CASE attached # None
    BY <1>2, <1>3, <1>6, <2>1, <2>2 DEF Attach, Ends
  <2>3. CASE attached = None
    <3>1. PICK x : x = [doing[t] EXCEPT !.at = "flowing"]
      OBVIOUS
    <3>2. doing' = [doing EXCEPT ![t] = x] /\ attached' = doing[t].home /\ x.home = doing[t].home
      BY <1>6, <2>1, <2>3, <3>1 DEF Attach, Goes, Submitter
    <3>3. \A s \in Threads \ {t} : doing'[s] = doing[s] /\ ~At(s, "flowing")
      BY <1>1, <2>3, <3>2 DEF Flows
    <3>4. doing'[t] = x /\ flow = None
      BY <1>1, <2>3, <3>2 DEF Flows
    <3> QED BY <2>1, <3>2, <3>3, <3>4 DEF Flows, At
  <2> QED BY <2>2, <2>3
<1>7. CASE MakeFlow(t)
  <2>1. doing[t] \in Submitter /\ At(t, "flowing") /\ doing[t].home # None /\ UNCHANGED attached /\ attached # None
    BY <1>1, <1>7, DoingsAre DEF MakeFlow, At, Flows
  <2>2. PICK x : x = [doing[t] EXCEPT !.at = "ready", !.flow = doing[t].home]
    OBVIOUS
  <2>3. x.at = "ready" /\ x.home = doing[t].home /\ doing' = [doing EXCEPT ![t] = x]
    BY <1>7, <2>1, <2>2 DEF MakeFlow, Goes, Submitter
  <2>4. \A s \in Threads : doing'[s].at # "flowing"
    BY <1>1, <2>1, <2>3 DEF Flows, At
  <2> QED BY <1>1, <2>1, <2>3, <2>4 DEF Flows, At
<1>8. CASE Ready(t)
  <2>1. PICK x : x = [at |-> "landing", slot |-> registered[doing[t].name], home |-> attached, flow |-> doing[t].flow]
    OBVIOUS
  <2>2. x.at # "flowing" /\ x \notin Submitter
    BY <2>1 DEF Submitter
  <2> QED BY <1>2, <1>3, <1>8, <2>1, <2>2 DEF Ready, Ends
<1>9. CASE Land(t)
  BY <1>2, <1>3, <1>9 DEF Land, Ends
<1> QED BY <1>5, <1>6, <1>7, <1>8, <1>9

\* Whatever happens, nobody makes a flow for a project that is not open any more.
LEMMA FlowsStep == ASSUME Ordered, Flows, [Next]_vars PROVE Flows'
<1>1. ASSUME UNCHANGED <<doing, flow, attached>> PROVE Flows'
  BY <1>1, FlowsStays DEF Flowing
<1>2. CASE UNCHANGED vars
  BY <1>1, <1>2 DEF vars, projects
<1>3. ASSUME RuntimeCloses \/ RuntimeStays PROVE Flows'
  BY <1>3, ClosesFlows
<1>4. ASSUME NEW t \in Threads, NEW f \in Folders,
             \/ Open(t, f) \/ Finds(t, f)
             \/ \E base \in {"global", "default"} : Create(t, f, base) \/ CreateOver(t, f, base) \/ CreateOnly(t, f, base)
             \/ \E files \in BOOLEAN : Delete(t, f, files)
      PROVE  Flows'
  BY <1>3, <1>4 DEF Open, Finds, Create, CreateOver, CreateOnly, Makes, Delete, StaysOpen
<1>5. ASSUME NEW t \in Threads, NEW f \in Folders, CreateOrOpen(t, f) PROVE Flows'
  BY <1>4, <1>5 DEF CreateOrOpen, Named
<1>6. ASSUME NEW t \in Threads, (\E cancel \in BOOLEAN : Close(t, cancel)) \/ Register(t) PROVE Flows'
  BY <1>3, <1>6 DEF Close, Register, StaysOpen
<1>7. ASSUME NEW t \in Threads,
             \/ \E k \in Keys, v \in Values : SetForUser(t, k, v)
             \/ \E k \in Keys, v \in Values, too \in BOOLEAN : Update(t, k, v, too)
             \/ \E k \in Keys, target \in {"global", "default"} : Reset(t, k, target)
      PROVE  Flows'
  BY <1>1, <1>7 DEF SetForUser, Update, Reset, SettingsCall, projects
<1>8. ASSUME NEW f \in Folders,
             \/ Removed(f)
             \/ \E app \in Apps, base \in {"global", "default"} : CatalogCreates(f, app, base)
             \/ \E g \in Folders, app \in Apps : CatalogMoves(f, g, app)
             \/ \E files \in BOOLEAN : CatalogDeletes(f, files)
      PROVE  Flows'
  BY <1>1, <1>8 DEF Removed, CatalogCreates, CatalogMoves, CatalogDeletes, Elsewhere
<1>9. CASE \E j \in jobs : JobEnds(j)
  BY <1>1, <1>9 DEF JobEnds, projects
<1>10. CASE Restart
  <2>1. flow' = None /\ doing' = [t \in Threads |-> Idle]
    BY <1>10 DEF Restart
  <2> QED BY <2>1 DEF Flows, At, Idle, Submitter
<1> QED BY <1>2, <1>4, <1>5, <1>6, <1>7, <1>8, <1>9, <1>10, CallFlows, SubmitFlows DEF Next

LEMMA FlowsInit == ASSUME Init PROVE Flows
<1>1. flow = None /\ doing = [t \in Threads |-> Idle]
  BY DEF Init, ExecutorsInit
<1> QED BY <1>1 DEF Flows, At, Idle, Submitter

\* An executor that has a job is left alone by whoever starts, stops and changes executors.
LEMMA BusyStays ==
  ASSUME Ordered, NEW t \in Threads, ExecutorsCall(t), NEW n \in Names, Busy(n)
  PROVE  registered'[n] = registered[n]
<1>1. registered \in [Names -> Slots \cup {Off}] /\ registered[n] # Off /\ Pool \in Names /\ doing[t] \in Doings
  BY NamesAre DEF Ordered, Typed, Busy
<1>2. \A k, h : LocalBack(registered, k, h)[n] = registered[n]
  BY <1>1 DEF LocalBack
<1>3. CASE UNCHANGED registered
  BY <1>3
<1>4. CASE BuildPool(t)
  BY <1>2, <1>4 DEF BuildPool
<1>5. CASE Activate(t) /\ registered' # registered
  <2>1. registered' = [registered EXCEPT ![Pool] = Off] /\ ~Busy(Pool)
    BY <1>5 DEF Activate
  <2> QED BY <1>1, <2>1
<1>6. CASE Started(t)
  BY <1>1, <1>6 DEF Started
<1>7. CASE StartFails(t)
  BY <1>2, <1>7 DEF StartFails
<1>8. CASE Deactivate(t) /\ registered' # registered
  <2> DEFINE m == doing[t].name
             without == [registered EXCEPT ![m] = Off]
  <2>1. ~Busy(m) /\ (registered' = without \/ (aside = m /\ registered' = LocalBack(without, kept, host)))
    BY <1>8 DEF Deactivate
  <2>2. n # m /\ without[n] = registered[n]
    BY <1>1, <2>1
  <2>3. m \in Names
    BY <1>1, <1>8, DoingsAre DEF Deactivate, At, Deactivator
  <2>4. aside = m => m # Pool
    BY <2>3, NamesAre DEF Ordered, Fitted, Crossing, Typed, PoolKind
  <2>5. aside = m => without[Pool] = registered[Pool]
    BY <1>1, <2>4
  <2>6. aside = m => LocalBack(without, kept, host)[n] = registered[n]
    BY <1>1, <2>2, <2>5 DEF LocalBack
  <2> QED BY <2>1, <2>2, <2>6
<1>9. CASE Change(t)
  BY <1>2, <1>9 DEF Change
<1> QED BY <1>3, <1>4, <1>5, <1>6, <1>7, <1>8, <1>9 DEF ExecutorsCall, BuildEngine, ActivateCalled, DeactivateCalled, ChangeCalled, executors

\* A job that is at home stays so while neither executors nor the project change.
LEMMA HomeSame ==
  ASSUME NEW j, AtHome(j), UNCHANGED <<registered, active, flow, attached>>
  PROVE  AtHome(j)'
BY DEF AtHome

\* Who closes a project ends the jobs in it.
LEMMA HomeCloses ==
  ASSUME NEW j \in jobs, AtHome(j), j \in jobs', RuntimeCloses
  PROVE  FALSE
BY DEF AtHome, RuntimeCloses

\* The calls on projects, which close the one that is open.
LEMMA HomeProject ==
  ASSUME NEW t \in Threads, NEW j \in jobs, AtHome(j), j \in jobs',
         \/ \E f \in Folders : \/ Open(t, f) \/ CreateOrOpen(t, f)
                               \/ \E base \in {"global", "default"} : Create(t, f, base) \/ CreateOver(t, f, base) \/ CreateOnly(t, f, base)
         \/ \E cancel \in BOOLEAN : Close(t, cancel)
         \/ \E f \in Folders, files \in BOOLEAN : Delete(t, f, files)
         \/ Register(t)
  PROVE  AtHome(j)'
<1>1. ~RuntimeCloses /\ active # None
  BY HomeCloses DEF AtHome
<1>2. ASSUME UNCHANGED active, UNCHANGED executors, RuntimeStays PROVE AtHome(j)'
  BY <1>2, HomeSame DEF RuntimeStays, executors
<1>3. ASSUME NEW f \in Folders,
             \/ Open(t, f) \/ Finds(t, f)
             \/ \E base \in {"global", "default"} : Create(t, f, base) \/ CreateOver(t, f, base) \/ CreateOnly(t, f, base)
             \/ \E files \in BOOLEAN : Delete(t, f, files)
      PROVE  AtHome(j)'
  <2>1. UNCHANGED active /\ UNCHANGED executors /\ RuntimeStays
    BY <1>1, <1>3 DEF Open, Finds, Create, CreateOver, CreateOnly, Makes, Delete, StaysOpen, Stays, ProjectCall
  <2> QED BY <1>2, <2>1
<1>4. ASSUME NEW f \in Folders, CreateOrOpen(t, f) PROVE AtHome(j)'
  BY <1>3, <1>4 DEF CreateOrOpen, Named
<1>5. ASSUME (\E cancel \in BOOLEAN : Close(t, cancel)) \/ Register(t) PROVE AtHome(j)'
  <2>1. UNCHANGED active /\ UNCHANGED executors /\ RuntimeStays
    BY <1>1, <1>5 DEF Close, Register, StaysOpen, ProjectCall
  <2> QED BY <1>2, <2>1
<1> QED BY <1>3, <1>4, <1>5

\* Whatever happens, a job that is at home is so until it ends.
LEMMA HomeStep ==
  ASSUME Ordered, Flows, [Next]_vars, NEW j \in jobs, AtHome(j), j \in jobs'
  PROVE  AtHome(j)'
<1>1. CASE UNCHANGED vars
  BY <1>1, HomeSame DEF vars, executors, projects
<1>2. ASSUME NEW t \in Threads, ExecutorsCall(t) PROVE AtHome(j)'
  <2>1. PICK n \in Names : j.slot = registered[n] /\ registered[n] # Off
    BY DEF AtHome
  <2>2. Busy(n)
    BY <2>1 DEF Busy
  <2>3. registered'[n] = registered[n]
    BY <1>2, <2>2, BusyStays
  <2>4. UNCHANGED <<active, flow, attached>>
    BY <1>2 DEF ExecutorsCall, projects
  <2> QED BY <2>1, <2>3, <2>4 DEF AtHome
<1>3. ASSUME NEW t \in Threads,
             \/ Attach(t) \/ MakeFlow(t) \/ Ready(t) \/ Land(t)
             \/ \E n \in Names : Submit(t, n) \/ \E i \in jobs : Move(t, i, n)
      PROVE  AtHome(j)'
  <2>1. flow # None /\ attached # None
    BY DEF AtHome
  <2>2. ~At(t, "flowing")
    BY <2>1 DEF Flows
  <2>3. UNCHANGED <<registered, active, flow, attached>>
    BY <1>3, <2>1, <2>2 DEF Attach, MakeFlow, Ready, Land, Submit, Move, Only, executors
  <2> QED BY <2>3, HomeSame
<1>4. ASSUME NEW t \in Threads,
             \/ \E k \in Keys, v \in Values : SetForUser(t, k, v)
             \/ \E k \in Keys, v \in Values, too \in BOOLEAN : Update(t, k, v, too)
             \/ \E k \in Keys, target \in {"global", "default"} : Reset(t, k, target)
      PROVE  AtHome(j)'
  BY <1>4, HomeSame DEF SetForUser, Update, Reset, SettingsCall, ProjectCall, executors, projects
<1>5. ASSUME NEW f \in Folders,
             \/ Removed(f)
             \/ \E app \in Apps, base \in {"global", "default"} : CatalogCreates(f, app, base)
             \/ \E g \in Folders, app \in Apps : CatalogMoves(f, g, app)
             \/ \E files \in BOOLEAN : CatalogDeletes(f, files)
      PROVE  AtHome(j)'
  BY <1>5, HomeSame DEF Removed, CatalogCreates, CatalogMoves, CatalogDeletes, Elsewhere, executors
<1>6. CASE \E i \in jobs : JobEnds(i)
  BY <1>6, HomeSame DEF JobEnds, executors, projects
<1>7. CASE Restart
  BY <1>7 DEF Restart
<1> QED BY <1>1, <1>2, <1>3, <1>4, <1>5, <1>6, <1>7, HomeProject DEF Next

\* Executors and projects change between jobs, never under one, whichever threads start, stop, change,
\* open, close and submit meanwhile: `submit`, `unregister` and `_close_project_runtime`.
THEOREM JobsAtHomeHolds == Spec => JobsAtHome
<1> DEFINE HomeKept == \A j \in jobs : j \in jobs' /\ AtHome(j) => AtHome(j)'
<1>1. Ordered /\ Flows /\ [Next]_vars => Ordered' /\ Flows' /\ HomeKept
  BY OrderedStep, FlowsStep, HomeStep
<1>2. Ordered /\ Flows /\ [Next]_vars => [HomeKept]_vars
  BY <1>1
<1> QED BY <1>1, <1>2, OrderedInit, FlowsInit, PTL DEF Spec, JobsAtHome
=============================================================================
