-------------------------------- MODULE MCRover --------------------------------
\* One page and two REST threads: an older handler can be overtaken by a newer
\* one, by a stop and by the bridge. A command is stale two ticks after it arrives.
EXTENDS Rover

CONSTANTS p1, r1, r2

MCPages == {p1}
MCRequests == {r1, r2}
MCSeqs == {1, 2}
================================================================================
