------------------------------ MODULE MCRemote ------------------------------
EXTENDS Remote, TLC

CONSTANTS a, b, t1, t2

MCElements == {a, b}
MCTasks == {t1, t2}
MCSymmetry == Permutations({t1, t2})
=============================================================================
