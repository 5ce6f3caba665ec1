---------------------------- MODULE MCChatSession ----------------------------
(* Small instances of ChatSession.                                          *)
EXTENDS ChatSession, TLC

\* The connections are interchangeable.
Symmetry == Permutations(Conns)
=============================================================================
