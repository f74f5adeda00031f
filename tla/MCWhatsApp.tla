----------------------------- MODULE MCWhatsApp -----------------------------
(* A small instance for TLC: adapters, sessions and sockets are interchangeable. *)
EXTENDS WhatsApp, TLC

Symmetry == Permutations(Adapters) \cup Permutations(Sessions) \cup Permutations(Sockets)
=============================================================================
