------------------------------ MODULE Settings ------------------------------
(***************************************************************************)
(* The settings of a process (core/settings/manager.py): what the package  *)
(* gives, under what the user chose, under what a project chose, the last  *)
(* two in files that hold only what differs.  The actions are the calls of *)
(* `SettingsManager`; module Workspace says who makes them.                *)
(***************************************************************************)

CONSTANTS
  Keys,      \* the settings
  Values,    \* what they may be
  Packaged,  \* what the package gives: a value for each key
  AppKeys,   \* those of the application, which the package knows nothing of
  Folders,   \* where projects may be
  None,      \* no folder, no layer
  Bare       \* a folder without a file of settings

ASSUME SettingsAssumption == Packaged \in [Keys -> Values] /\ AppKeys \subseteq Keys

Unset == "unset"    \* a layer says nothing of a key
User == "user"      \* the layer of the user

Layers == [Keys -> Values \cup {Unset}]

ASSUME LayersAssumption ==
  /\ Unset \notin Values /\ {None, Bare, User} \cap Folders = {} /\ None # Bare
  /\ {None, Bare} \cap Layers = {}

VARIABLES
  file,       \* the file of the user and that of each folder, None where there is no folder
  globals,    \* `_global_overrides`
  local,      \* `_local_overrides`, None without a project
  path,       \* whose file `project_path` is
  effective   \* `_effective`, what everybody reads

settings == <<file, globals, local, path, effective>>

Says(layer, k) == layer[k] # Unset

\* `_deep_merge_dicts`
Over(base, layer) == [k \in Keys |-> IF Says(layer, k) THEN layer[k] ELSE base[k]]

PrunedOfPackaged(layer, base) == [k \in Keys |-> IF layer[k] = Packaged[k] THEN Unset ELSE layer[k]]

\* `_prune_equal`: a layer says only what differs from those below.
Pruned(layer, base) == [k \in Keys |-> IF layer[k] = base[k] THEN Unset ELSE layer[k]]

Nothing == [k \in Keys |-> Unset]

\* `register_app_settings`: until it is called, nothing is given to the settings of the application.
Undeclared == [k \in Keys |-> IF k \in AppKeys THEN Unset ELSE Packaged[k]]

\* `_global`, and `_compose` with the layer of a project or without.
Global == Over(Packaged, globals)
Compose(g, l) == IF l = None THEN Over(Packaged, g) ELSE Over(Over(Packaged, g), l)

Refresh == effective' = Compose(globals', local')

-----------------------------------------------------------------------------

SettingsInit ==
  /\ file = [f \in Folders \cup {User} |-> IF f = User THEN Nothing ELSE None]
  /\ globals = Nothing /\ local = None /\ path = None /\ effective = Packaged

\* `__init__`, by the process that comes next, which then says what its application has.
LoadSettings ==
  /\ globals' = Pruned(file[User], Undeclared)
  /\ file' = [file EXCEPT ![User] = globals'] /\ local' = None /\ path' = None
  /\ Refresh

\* What a project in `f` says, over what is `below`: a file that is there is brought in line with that.
HasFile(f) == file[f] \notin {None, Bare}
LocalOf(f, start, below) == Pruned(IF HasFile(f) THEN file[f] ELSE start, below)

\* `set_project`
SetProject(f, base) ==
  /\ path' = f
  /\ local' = LocalOf(f, IF base = "default" THEN Packaged ELSE Nothing, Global)
  /\ file' = [file EXCEPT ![f] = local'] /\ UNCHANGED globals
  /\ Refresh

LeavesProject == path' = None /\ UNCHANGED <<file, globals, local, effective>>

\* `clear_project`
ClearProject == path' = None /\ local' = None /\ UNCHANGED <<file, globals>> /\ Refresh

\* `has_project`
HasProject == local # None /\ path # None

With(layer, k, v) == [layer EXCEPT ![k] = v]

\* `update_setting`: for the project, and for the user with `save_global_too` or without one.
UpdateSetting(k, v, too) ==
  /\ local' = IF HasProject THEN With(local, k, v) ELSE local
  /\ globals' = IF too \/ ~HasProject THEN With(globals, k, v) ELSE globals
  /\ file' = [f \in DOMAIN file |-> IF f = User THEN globals' ELSE IF f = path /\ HasProject THEN local' ELSE file[f]]
  /\ UNCHANGED path /\ Refresh

\* `update_app_setting`, of what the application declared.
UpdateAppSetting(k, v, too) == k \in AppKeys /\ UpdateSetting(k, v, too)

\* `set_global_value`
SetGlobalValue(k, v) ==
  /\ globals' = With(globals, k, v) /\ file' = [file EXCEPT ![User] = globals']
  /\ UNCHANGED <<local, path>> /\ Refresh

\* `reset_value`
ResetValue(k, target) ==
  IF target = "default" /\ HasProject THEN UpdateSetting(k, Packaged[k], FALSE)
  ELSE IF target = "default" THEN SetGlobalValue(k, Unset)
  ELSE /\ HasProject /\ local' = With(local, k, Unset) /\ file' = [file EXCEPT ![path] = local']
       /\ UNCHANGED <<globals, path>> /\ Refresh

-----------------------------------------------------------------------------

SettingsTypeOK ==
  /\ file \in [Folders \cup {User} -> Layers \cup {None, Bare}] /\ HasFile(User)
  /\ globals \in Layers /\ local \in Layers \cup {None} /\ path \in Folders \cup {None}
  /\ effective \in [Keys -> Values]

\* What a process that opens the project in `f` now is to see: what is said last, by its file, the
\* user's and the package.
View(f) ==
  [k \in Keys |-> IF f # None /\ HasFile(f) /\ Says(file[f], k) THEN file[f][k]
                  ELSE IF Says(file[User], k) THEN file[User][k] ELSE Packaged[k]]
=============================================================================
