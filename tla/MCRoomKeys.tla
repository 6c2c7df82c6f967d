----------------------------- MODULE MCRoomKeys -----------------------------
EXTENDS RoomKeys, TLC
\* Pages differ by name only, and so do voice channels.
Symmetry == Permutations(Pages) \cup Permutations(Voice)
=============================================================================
