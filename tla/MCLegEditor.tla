---------------------------- MODULE MCLegEditor -----------------------------
\* Small instances of LegEditor: 8 stands for 2^53 and 16 for 2^63, so that 8 and 1
\* add up to 8, and 16 is no int64.
EXTENDS LegEditor

MCCents == {1, 8, 10, 16}
MCTyped ==
    { EmptyText, [spells |-> 1, tidy |-> TRUE], [spells |-> 8, tidy |-> TRUE],
      [spells |-> 16, tidy |-> TRUE], [spells |-> Infinity, tidy |-> TRUE] }

\* Amounts that are exact in every way.
MCSmallCents == {1, 2}
MCSmallTyped == {[spells |-> 1, tidy |-> FALSE], [spells |-> 2, tidy |-> TRUE]}

=============================================================================
