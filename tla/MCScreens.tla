----------------------------- MODULE MCScreens -----------------------------
EXTENDS Screens, TLC
\* Browsers differ by name only.
Symmetry == Permutations(Browser)
\* Browsers among themselves, or one with the video bot.
Few == {Browser} \cup {{b} \cup Bots : b \in Browser}
=============================================================================
