--------------------------- MODULE MCMediaObject ---------------------------
(* An instance of MediaObject: two areas that overlap, and a third that     *)
(* begins where the first ends and ends with the second.                    *)
EXTENDS MediaObject

CONSTANTS a, b, c, whole

McAreas == {a, b, c}
McBegin == a :> 1 @@ b :> 1 @@ c :> 2
McEnd   == a :> 2 @@ b :> 3 @@ c :> 3
=============================================================================
