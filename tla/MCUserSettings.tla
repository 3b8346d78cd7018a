---------------------------- MODULE MCUserSettings ----------------------------
EXTENDS UserSettings
CONSTANTS a, b, p, q, k, l
MCUsers == {a, b}
MCPasswords == {p, q}
MCKeys == {k, l}
Perms == Permutations(MCUsers) \cup Permutations(MCPasswords) \cup Permutations(MCKeys)
=============================================================================
