--------------------------- MODULE MCOutboxRelay ---------------------------
(* Instances of OutboxRelay for TLC. *)
EXTENDS OutboxRelay, TLC

\* Relays are interchangeable, and so are lease tokens.
RelaySymmetry == Permutations(Relays) \cup Permutations(Tokens)
=============================================================================
