------------------------------ MODULE MCMedia -------------------------------
EXTENDS Media, TLC
CONSTANTS a, b, c, pa, pb, pc, shared, p1, p2
MCPieces == a :> 1 @@ b :> 2 @@ c :> 0
MCOut == a :> {pa, shared} @@ b :> {pb, pc, shared} @@ c :> {pc}
MCEarlier == {<<>>, <<<<a, pa>>>>, <<<<a, pa>>, <<c, pc>>>>}
=============================================================================
