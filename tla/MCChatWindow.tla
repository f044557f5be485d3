----------------------------- MODULE MCChatWindow ------------------------------
\* ChatWindow with interchangeable screens to view.
EXTENDS ChatWindow, TLC

Symmetry == Permutations(Views)
=============================================================================
