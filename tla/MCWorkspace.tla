---------------------------- MODULE MCWorkspace ----------------------------
EXTENDS Workspace, TLC

CONSTANTS t1, t2

MCThreads == {t1, t2}
MCSymmetry == Permutations({t1, t2})

\* A Ray that takes this machine or not, one that does not, and a queue on a host of both.
MCConfigs ==
  [n \in {"lab", "farm", "line"} |->
     CASE n = "lab" -> {[kind |-> "ray", hosts |-> {"local", "pc"}]}
       [] n = "farm" -> {[kind |-> "ray", hosts |-> {"pc"}]}
       [] n = "line" -> {[kind |-> "queue", hosts |-> {"pc"}]}]

MCPackaged == [k \in {"k", "l"} |-> "a"]

\* Executors that are changed, their hosts, projects and their settings, and jobs with each.
MCPlans == {{"start", "executors"}, {"start", "hosts", "lab", "farm", "line"},
            {"create", "projects", "submit"}, {"create", "projects", "settings"},
            {"catalog", "projects", "settings"}, {"catalog", "create", "projects"},
            {"create", "start", "submit", "lab", "farm", "line"},
            {"create", "hosts", "submit", "lab"}, {"create", "executors", "submit"}}
=============================================================================
