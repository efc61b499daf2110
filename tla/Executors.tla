----------------------------- MODULE Executors -----------------------------
(***************************************************************************)
(* Who runs jobs (_api_impl/job_api.py): executors are kept in the         *)
(* settings, made of hosts kept there too, and activated and deactivated   *)
(* while a process runs.  Any thread calls; one starts at a time, which    *)
(* may take minutes; settings are read before, in some calls, and a Ray    *)
(* that takes this machine puts the pool of it aside.  Module Workspace    *)
(* composes this with the projects and their jobs.                         *)
(***************************************************************************)
EXTENDS FiniteSets

CONSTANTS
  Threads,
  Others,   \* the executors that may be kept besides the pool of this machine
  Configs,  \* what each of them may be: a kind and its hosts
  Far,      \* the hosts besides this machine
  Off       \* not kept, or not active

Pool == "local"     \* the pool of this machine, and this machine
Names == Others \cup {Pool}
Hosts == Far \cup {Pool}
Nobody == "nobody"

ASSUME ExecutorsAssumption ==
  /\ Configs \in [Others -> SUBSET [kind : {"ray", "queue"}, hosts : SUBSET Hosts \ {{}}]]
  /\ Pool \notin Others \cup Far
  /\ Nobody \notin Threads \cup Names

\* What may be kept of a host and of an executor, and what an executor is made of.
Descriptions == {"first", "second", Off}
Kinds == [kind : {"loky", "ray", "queue"}, hosts : SUBSET Hosts]
Slots == [name : Names, of : Kinds, on : UNION {[S -> Descriptions] : S \in SUBSET Hosts}]

ASSUME OffAssumption == Off \notin {"first", "second"} \cup Kinds \cup Slots

VARIABLES
  kept,        \* `settings.executors`
  host,        \* `settings.hosts`: which of two descriptions of each is kept
  engine,      \* whether it is there
  registered,  \* `engine._executors`: what each that is active was made of
  aside,       \* `_aside`: whom the pool of this machine is aside for
  activation,  \* who holds the lock `_activation`
  doing,       \* where each thread is
  jobs,        \* the jobs that have not ended
  crossed      \* history: the executors that a change of what is kept, or the making of the engine, came across

executors == <<kept, host, engine, registered, aside, activation, crossed>>

Idle == [at |-> "idle"]
At(t, at) == doing[t].at = at
Goes(t, what) == doing' = [doing EXCEPT ![t] = what]
Ends(t) == Goes(t, Idle)

\* Those in `S` are kept already.
ExecutorsInit(S) ==
  /\ kept \in {k \in [Names -> UNION {Configs[n] : n \in Others} \cup {Off, [kind |-> "loky", hosts |-> {Pool}]}] :
                 /\ k[Pool] = [kind |-> "loky", hosts |-> {Pool}]
                 /\ \A n \in Others : IF n \in S THEN k[n] \in Configs[n] ELSE k[n] = Off}
  /\ host = [h \in Hosts |-> "first"]
  /\ engine = "none" /\ registered = [n \in Names |-> Off] /\ aside = Nobody /\ activation = Nobody
  /\ doing = [t \in Threads |-> Idle] /\ jobs = {} /\ crossed = {}

-----------------------------------------------------------------------------
(* What the calls look at. *)

\* `_active`
Active == IF engine = "none" THEN {Pool} ELSE {n \in Names : registered[n] # Off}

\* `build_executor`: an executor is made of what is kept of it and of its hosts.
Made(n, k, h) == [name |-> n, of |-> k[n], on |-> [m \in k[n].hosts |-> h[m]]]

BlockedByRay(n, k, active) ==
  k[n].kind = "ray" /\ \E other \in active \ {n} : k[other] # Off /\ k[other].kind = "ray"

\* `blocked`: another one has a machine of it, or is a Ray too.  A queue is in nobody's way.
Blocked(n, k, active) ==
  \E other \in {o \in active \ {n} : k[o] # Off} :
    /\ "queue" \notin {k[n].kind, k[other].kind}
    /\ k[other].kind = "ray"
    /\ k[n].kind = "ray" \/ k[n].hosts \cap k[other].hosts # {}

\* The executor takes jobs that have not ended: `unregister` refuses.
Busy(n) == registered[n] # Off /\ \E j \in jobs : j.slot = registered[n]

\* `unregister`: a thread that has found this executor, and has not told the engine of its job yet, is
\* left with one that is shut down (engine/engine.py:300).
Without(S) ==
  [t \in Threads |-> IF At(t, "landing") /\ doing[t].slot \in {registered[n] : n \in S} THEN [doing[t] EXCEPT !.slot = Off]
                     ELSE doing[t]]
EndsWithout(t, S) == doing' = [Without(S) EXCEPT ![t] = Idle]

\* History: the pool of this machine comes back when the one it was aside for goes.
WithPool(S) == S \cup {n \in {Pool} : aside \in S}

-----------------------------------------------------------------------------
(* `engine`: built when it is asked for first.  `then` is what the thread goes on with. *)

\* A second one that is built meanwhile finds the first at its lock: `Busy`.
BuildEngine(t) ==
  /\ At(t, "building")
  /\ IF engine = "none" THEN engine' = "built" /\ Goes(t, [doing[t] EXCEPT !.at = "pooling"])
     ELSE Ends(t) /\ UNCHANGED engine
  /\ UNCHANGED <<kept, host, registered, aside, activation, jobs, crossed>>

\* `_local_back`, with what is kept by then; refused while there is one that has jobs.
LocalBack(r, k, h) == IF r[Pool] # Off /\ Busy(Pool) THEN r ELSE [r EXCEPT ![Pool] = Made(Pool, k, h)]

\* Without the lock: others may have started executors by then, or be about to.
BuildPool(t) ==
  /\ At(t, "pooling")
  /\ registered' = LocalBack(registered, kept, host)
  /\ IF Busy(Pool) THEN Ends(t) ELSE doing' = [Without({Pool}) EXCEPT ![t] = [doing[t] EXCEPT !.at = doing[t].then]]
  /\ crossed' = IF activation # Nobody \/ \E n \in Names : registered[n] # Off THEN crossed \cup {Pool} ELSE crossed
  /\ UNCHANGED <<kept, host, engine, aside, activation, jobs>>

-----------------------------------------------------------------------------
(* `activate` and `deactivate` *)

\* The settings are read first, and used until the executor is there.
ActivateCalled(t, n) ==
  /\ At(t, "idle") /\ kept[n] # Off
  /\ Goes(t, [at |-> IF engine = "none" THEN "building" ELSE "activate", then |-> "activate",
              name |-> n, kept |-> kept, host |-> host, aside |-> FALSE])
  /\ UNCHANGED <<executors, jobs>>

\* With the lock: nothing to do, refused, or begun, the pool of this machine out of the way.
Activate(t) ==
  /\ At(t, "activate") /\ activation = Nobody
  /\ LET n == doing[t].name
         takes == doing[t].kept[n].kind = "ray" /\ Pool \in doing[t].kept[n].hosts /\ registered[Pool] # Off
     IN IF registered[n] # Off \/ Blocked(n, doing[t].kept, Active) \/ (takes /\ Busy(Pool))
        THEN Ends(t) /\ UNCHANGED <<registered, activation>>
        ELSE LET begun == [doing[t] EXCEPT !.at = "starting", !.aside = takes]
             IN /\ activation' = t
                /\ IF takes THEN registered' = [registered EXCEPT ![Pool] = Off] /\ doing' = [Without({Pool}) EXCEPT ![t] = begun]
                   ELSE Goes(t, begun) /\ UNCHANGED registered
  /\ UNCHANGED <<kept, host, engine, aside, jobs, crossed>>

\* The executor is there, and takes jobs: in the place of the pool, when that was made meanwhile.
Started(t) ==
  /\ At(t, "starting")
  /\ LET n == doing[t].name
         with == IF doing[t].aside THEN {n, Pool} ELSE {n}
     IN /\ ~Busy(n) /\ EndsWithout(t, {n})
        /\ registered' = [registered EXCEPT ![n] = Made(n, doing[t].kept, doing[t].host)]
        /\ aside' = IF doing[t].aside THEN n ELSE aside
        /\ crossed' = IF doing[t].kept = kept /\ doing[t].host = host THEN crossed ELSE crossed \cup with
  /\ activation' = Nobody
  /\ UNCHANGED <<kept, host, engine, jobs>>

\* A host is not reached or not prepared: everything is as it was.
StartFails(t) ==
  /\ At(t, "starting")
  /\ registered' = IF doing[t].aside THEN LocalBack(registered, kept, host) ELSE registered
  /\ IF doing[t].aside /\ ~Busy(Pool) THEN EndsWithout(t, {Pool}) ELSE Ends(t)
  /\ activation' = Nobody
  /\ UNCHANGED <<kept, host, engine, aside, jobs, crossed>>

DeactivateCalled(t, n) ==
  /\ At(t, "idle") /\ engine # "none" /\ n \in Active
  /\ Goes(t, [at |-> "deactivate", name |-> n])
  /\ UNCHANGED <<executors, jobs>>

\* `unregister`, and the pool of this machine if it was aside for this one.
Deactivate(t) ==
  /\ At(t, "deactivate") /\ activation = Nobody
  /\ LET n == doing[t].name
         without == [registered EXCEPT ![n] = Off]
     IN IF Busy(n) THEN Ends(t) /\ UNCHANGED <<registered, aside, crossed>>
        ELSE /\ registered' = IF aside = n THEN LocalBack(without, kept, host) ELSE without
             /\ aside' = IF aside = n THEN Nobody ELSE aside
             /\ EndsWithout(t, IF aside = n /\ ~Busy(Pool) THEN {n, Pool} ELSE {n})
             /\ crossed' = crossed \ ({n} \ {Pool})
  /\ UNCHANGED <<kept, host, engine, activation, jobs>>

-----------------------------------------------------------------------------
(* `save_host`, `remove_host`, `save_executor`, `remove_executor` *)

UsersByName(table, n) == {k \in Active : engine # "none" /\ kept[k] # Off /\ k = n}

\* The active ones that are made of the entry, by what is kept of them.
Users(table, n) ==
  {k \in Active : engine # "none" /\ kept[k] # Off /\ (IF table = "executors" THEN k = n ELSE n \in kept[k].hosts)}

\* `_change` looks who uses the entry before it takes the lock.
ChangeCalled(t, table, n) ==
  /\ At(t, "idle")
  /\ Users(table, n) \subseteq {Pool}
  /\ Goes(t, [at |-> "changing", table |-> table, name |-> n, users |-> Users(table, n)])
  /\ UNCHANGED <<executors, jobs>>

\* What may be kept instead: only what is valid is.
OtherHost(n) ==
  {h \in {[host EXCEPT ![n] = other] : other \in {"first", "second", Off}} :
     h[n] = Off => n # Pool /\ \A e \in Names : kept[e] = Off \/ n \notin kept[e].hosts}
OtherExecutor(n) ==
  IF n = Pool THEN {kept}
  ELSE {kept} \cup {[kept EXCEPT ![n] = config] :
                      config \in {Off} \cup {c \in Configs[n] : \A m \in c.hosts : host[m] # Off}}

\* History: those that came to use the entry since it was looked at, if something else is kept now, and
\* the pool, if it went meanwhile.
Came(t, something) ==
  WithPool(IF something THEN Users(doing[t].table, doing[t].name) \ doing[t].users ELSE {})
    \cup {n \in doing[t].users : registered[n] = Off}

\* With the lock: the pool is made again, whether what is asked for is kept or is not valid, and whether
\* or not it is there by now.
Change(t) ==
  /\ At(t, "changing") /\ activation = Nobody
  /\ IF doing[t].users # {} /\ Busy(Pool) THEN Ends(t) /\ UNCHANGED <<kept, host, registered, crossed>>
     ELSE /\ host' \in IF doing[t].table = "hosts" THEN OtherHost(doing[t].name) ELSE {host}
          /\ kept' \in IF doing[t].table = "executors" THEN OtherExecutor(doing[t].name) ELSE {kept}
          /\ IF doing[t].users = {} THEN Ends(t) /\ UNCHANGED registered
             ELSE registered' = LocalBack(registered, kept', host') /\ EndsWithout(t, {Pool})
          /\ crossed' = crossed \cup Came(t, <<kept', host'>> # <<kept, host>>)
  /\ UNCHANGED <<engine, aside, activation, jobs>>

ExecutorsNext(t) ==
  \/ BuildEngine(t) \/ BuildPool(t) \/ Activate(t) \/ Started(t) \/ StartFails(t) \/ Deactivate(t) \/ Change(t)
  \/ \E n \in Names : ActivateCalled(t, n) \/ DeactivateCalled(t, n)
  \/ \E n \in Hosts : ChangeCalled(t, "hosts", n)
  \/ \E n \in Names : ChangeCalled(t, "executors", n)

-----------------------------------------------------------------------------

\* A machine works for one executor at a time, whichever threads start, stop and change them: two that
\* are active share none but with a queue, and the pool of this machine is aside only for one that has
\* it (`blocked` and `activate`, job_api.py:56-58, 195-197).  Only what a change came across while it
\* started, or came to use what was being changed, may share.
MachinesApart ==
  /\ \A n, m \in Names \ crossed : n # m /\ registered[n] # Off /\ registered[m] # Off =>
       LET one == registered[n].of  other == registered[m].of
       IN "queue" \in {one.kind, other.kind} \/ (one.hosts \cap other.hosts = {} /\ "loky" \in {one.kind, other.kind})
  /\ aside # Nobody => registered[aside] # Off /\ Pool \in registered[aside].of.hosts

\* What is active is what is kept: no host and no executor changed under one that is made of it, unless
\* it started meanwhile (`_change`, job_api.py:244, 261).
MadeOfWhatIsKept ==
  \A n \in Names \ crossed : registered[n] # Off => kept[n] # Off /\ registered[n] = Made(n, kept, host)
=============================================================================
