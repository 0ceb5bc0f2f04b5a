----------------------------- MODULE MCI2cReads -----------------------------
(* Instances of I2cReads: an OctoQuad and a Pinpoint.                      *)
EXTENDS I2cReads, TLC

CONSTANTS octoquad, pinpoint

BothAsked == << pinpoint, octoquad >>
OneAsked == << pinpoint >>

AllOnOne == [d \in Device |-> "hub0"]

\* Numbers are only compared.
Symmetry == Permutations(Num)

=============================================================================
