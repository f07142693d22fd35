------------------------- MODULE MCChunkedRebuild -------------------------
EXTENDS ChunkedRebuild

Tool(o, l, n, m) == [kind |-> "tool", op |-> o, low |-> l, size |-> n, content |-> m]

\* Chunks of two blocks of two voxels: boxes that fill a chunk, straddle two,
\* sit inside one block, and grow by one voxel on one side or on both.
Tools == {Tool("union", 4, 4, "stone"), Tool("union", 3, 6, "stone"),
          Tool("union", 4, 5, "wood"), Tool("union", 0, 12, "stone"),
          Tool("subtract", 7, 2, "none"), Tool("subtract", 4, 3, "none"),
          Tool("intersect", 2, 6, "none")}

\* Fewer, for the run that changes the density: a rescale makes others of them,
\* and rounds.
FewTools == {Tool("union", 3, 6, "stone"), Tool("union", 0, 12, "wood"),
             Tool("subtract", 4, 3, "none"), Tool("intersect", 2, 6, "none")}

Scope(m) == [kind |-> "composed", op |-> "union", low |-> 3, size |-> 4, content |-> m]
Scopes == {Scope("sphere"), Scope("cylinder"), Tool("union", 0, 2, "stone"),
           Tool("subtract", 4, 3, "none")}

Cloud == [kind |-> "cloud", op |-> "union", low |-> 0, size |-> 1, content |-> "seed"]
Clouds == {Cloud, Tool("union", 0, 8, "stone"), Tool("union", 8, 2, "wood")}
=============================================================================
