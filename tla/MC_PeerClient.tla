---------------------------- MODULE MC_PeerClient ----------------------------
(* Instantiates PeerClient for TLC with sessions, CALLs and a connection   *)
(* bound given by each configuration.                                      *)
EXTENDS PeerClient

CONSTANTS s1, s2, c1, c2, u

OneSession == {s1}
TwoSessions == {s1, s2}
OneCall == {c1}
TwoCalls == {c1, c2}

\* sessions are interchangeable handles, and so are CALLs
\* RedialTimes = -1: redial without limit
Forever == -1

Symmetry == Permutations(TwoSessions) \cup Permutations(TwoCalls)
=============================================================================
