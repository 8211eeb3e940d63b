-------------------------- MODULE MCGenericBackend --------------------------
(* Instances of GenericBackend: two connections, of two peers or of one peer *)
(* that connects again under its identity; and one connection on its own.    *)
EXTENDS GenericBackend, TLC

CONSTANTS ka, kb, c1, c2

BothKeys == {ka, kb}
BothConns == {c1, c2}
AnyHandshakes == [BothConns -> BothKeys]

\* Identities and connections are interchangeable: AnyHandshakes is closed under
\* their permutations, and no definition tells one from another.
Symmetry == Permutations(BothKeys) \cup Permutations(BothConns)

OneKey == {ka}
OneConn == {c1}
OneHandshake == {[c \in OneConn |-> ka]}
=============================================================================
