---------------------------- MODULE MCUiSessions ----------------------------
(* UiSessions with interchangeable handlers, tokens and items.             *)
EXTENDS UiSessions, TLC

Symmetric ==
  Permutations(Handler) \cup Permutations(Token) \cup Permutations(Item)
==============================================================================
