---------------------------- MODULE MC_PeerServer ----------------------------
(* Instantiation of PeerServer for TLC: connections are model values.     *)
EXTENDS PeerServer, TLC

CONSTANTS a1, a2, w1, w2

TwoAccepted == {a1, a2}
OneAccepted == {a1}
TwoWs == {w1, w2}
OneWs == {w1}
NoConns == {}

\* connections of one kind are interchangeable (safety runs only)
ConnSymmetry == Permutations(TwoAccepted) \cup Permutations(TwoWs)
=============================================================================
