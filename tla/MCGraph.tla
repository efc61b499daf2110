------------------------------ MODULE MCGraph ------------------------------
(***************************************************************************)
(* Sites (1) of molecules (2) of proteins (3), as the tests have them:     *)
(* proteins are upserted, a molecule points back to its active site, and   *)
(* notes (4) are a table of their own nobody names.  One group is a graph, *)
(* one is rows, written by the writer or through the bridge, here or       *)
(* elsewhere, with and without a commit key.                               *)
(***************************************************************************)
EXTENDS Graph

CONSTANTS a, b

Sites == [from |-> 1, to |-> 2, deferred |-> FALSE]
Active == [from |-> 2, to |-> 1, deferred |-> TRUE]
Protein == [from |-> 2, to |-> 3, deferred |-> FALSE]
About == [from |-> 4, to |-> 1, deferred |-> FALSE]
\* The same, not deferred: a cycle; and one to a table the sink does not have.
Cyclic == [from |-> 2, to |-> 1, deferred |-> FALSE]
Astray == [from |-> 4, to |-> 5, deferred |-> FALSE]
Kinships == {Sites, Protein, About}
MCRelations == Kinships \cup {Active, Cyclic, Astray}
MCTables == 1 .. 4
MCUpserted == {3}

GraphSink(by, to, key, relations) ==
  [by |-> by, to |-> to, kind |-> "graph", key |-> key, table |-> 1, relations |-> relations]
RowsSink(by, to, key, table) ==
  [by |-> by, to |-> to, kind |-> "rows", key |-> key, table |-> table, relations |-> {}]

MCSinks == {[graph |-> p[1], rows |-> p[2]] : p \in {
  <<GraphSink("writer", "project", FALSE, Kinships \cup {Active}), RowsSink("writer", "project", FALSE, 4)>>,
  <<GraphSink("bridge", "project", TRUE, Kinships \cup {Active}), RowsSink("bridge", "other", TRUE, 3)>>,
  <<GraphSink("bridge", "other", TRUE, Kinships), RowsSink("bridge", "project", TRUE, 4)>>,
  <<GraphSink("bridge", "other", TRUE, Kinships \cup {Active}), RowsSink("bridge", "other", TRUE, 4)>>,
  <<GraphSink("bridge", "project", TRUE, Kinships \cup {Cyclic}), RowsSink("bridge", "project", FALSE, 3)>>,
  <<GraphSink("bridge", "project", TRUE, Kinships \cup {Astray}), RowsSink("writer", "project", FALSE, 3)>>}}

Row(ref, names) == [ref |-> ref, names |-> names, key |-> 0]
Site(ref, molecule) == Row(ref, [r \in {Sites} |-> molecule])
Molecule(ref, active, protein) == Row(ref, (Active :> active @@ Protein :> protein))
Note(site) == Row(NoRef, [r \in {About} |-> site])
Kept(ref, key) == [ref |-> ref, names |-> <<>>, key |-> key]

MCGraphs == {
  \* a molecule with two sites, the second the active one
  <<<<Site(a, a), Site(b, a)>>, <<Molecule(a, b, NoRef)>>, <<>>, <<>>>>,
  \* the same refs for other rows, and a protein
  <<<<Site(b, b)>>, <<Molecule(a, b, NoRef), Molecule(b, NoRef, a)>>, <<Kept(a, 1)>>, <<Note(b)>>>>,
  \* another protein under the same ref, and one again
  <<<<>>, <<Molecule(NoRef, NoRef, a)>>, <<Kept(a, 2), Kept(b, 1)>>, <<>>>>,
  \* a note about a site somebody else may have
  <<<<>>, <<>>, <<>>, <<Note(a)>>>>,
  \* an active site somebody else may have
  <<<<>>, <<Molecule(b, a, NoRef)>>, <<>>, <<>>>>,
  \* a ref twice
  <<<<Site(a, NoRef), Site(a, NoRef)>>, <<>>, <<>>, <<>>>>,
  \* a protein twice by itself, notes about nothing, and nothing
  <<<<>>, <<>>, <<Kept(NoRef, 1), Kept(NoRef, 1)>>, <<>>>>,
  <<<<>>, <<>>, <<>>, <<Note(NoRef), Note(NoRef)>>>>,
  <<<<>>, <<>>, <<>>, <<>>>>}
=============================================================================
