------------------------------- MODULE MCJobs -------------------------------
(***************************************************************************)
(* Three jobs, and the ways the last two come after the ones before them.  *)
(***************************************************************************)
EXTENDS Jobs

MCJobs  == 1 .. 3
Asks(second, third) ==
  [j \in MCJobs |-> IF j = 1 THEN [after |-> {}, reads |-> {}] ELSE IF j = 2 THEN second ELSE third]
After(ids) == [after |-> ids, reads |-> {}]
Reads(table) == [after |-> {}, reads |-> {table}]

\* A chain, a chain with a shortcut, a join; and jobs that read what those before them write.
Chain    == Asks(After({1}), After({2}))
Shortcut == Asks(After({1}), After({1, 2}))
Join     == Asks(After({}), After({1, 2}))
Flow     == Asks(Reads("some"), Reads("other"))

MCRequests == {Chain, Shortcut, Join, Flow}
MCWrites == [j \in MCJobs |-> IF j = 1 THEN {"some"} ELSE IF j = 2 THEN {"some", "other"} ELSE {}]
=============================================================================
