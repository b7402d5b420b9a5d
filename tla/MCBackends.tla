----------------------------- MODULE MCBackends -----------------------------
EXTENDS Backends, TLC

\* Sprites with and without a configured name prefix.
MCKinds == [name : {"podman", "fly", "kubernetes", "sprites"}, prefix : {FALSE}]
             \cup {[name |-> "sprites", prefix |-> TRUE]}

\* Callers are interchangeable in the specification and in all properties.
CallerSymmetry == Permutations(Callers)
=============================================================================
