----------------------------- MODULE MCChatPage -----------------------------
EXTENDS ChatPage
Symmetry == Permutations(Turn)
=============================================================================
