--------------------------------- MODULE MCAcl ---------------------------------
EXTENDS Acl, TLC

CONSTANTS permit, drop

\* A rule moves, changes, goes or stays; no configuration asks for the seed.
MCWanted == {Empty, 1 :> permit, (1 :> permit) @@ (2 :> drop), (1 :> drop) @@ (2 :> permit)}
=============================================================================
