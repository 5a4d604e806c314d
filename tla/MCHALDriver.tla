----------------------------- MODULE MCHALDriver -----------------------------
(* HALDriver with two IO clients, two host threads and two strings.        *)
EXTENDS HALDriver, TLC

CONSTANTS c1, c2, t1, t2, s1, s2

MCClients == {c1, c2}
MCThreads == {t1, t2}
MCStrings == {s1, s2}
MCSymmetry == Permutations(MCClients) \cup Permutations(MCThreads) \cup Permutations(MCStrings)

=============================================================================
