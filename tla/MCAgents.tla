------------------------------- MODULE MCAgents -------------------------------
EXTENDS Agents, TLC
CONSTANTS p1, p2, r1, r2, s1, f1, f2
Parkers == {<<FALSE, TRUE>>, <<TRUE, FALSE>>, <<FALSE, FALSE>>}
===============================================================================
