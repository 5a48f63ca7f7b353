----------------------------- MODULE MCConsole ------------------------------
\* Small instances of Console.
EXTENDS Console, TLC

CONSTANTS b1, b2

MCBank == {b1, b2}
MCSymmetry == Permutations(MCBank)

=============================================================================
