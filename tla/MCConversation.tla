--------------------------- MODULE MCConversation ---------------------------
(* Model-checking instances of Conversation. *)
EXTENDS Conversation, TLC

\* Inputs are interchangeable and so are chats; used by runs without temporal properties only.
Symmetry == Permutations(Msgs) \cup Permutations(Chats)
=============================================================================
