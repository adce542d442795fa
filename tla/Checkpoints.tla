---------------------------- MODULE Checkpoints ----------------------------
(***************************************************************************)
(* The notarised checkpoints of komodo_state: NPOINTS, the vector of the   *)
(* notarisations in the order in which their blocks were connected,        *)
(* NPOINTS_last_index, the place where the last search stopped, and `last'.*)
(* A checkpoint records nHeight, the height of the block that carried the  *)
(* notarisation, and notarized_height and notarized_hash, the block it     *)
(* notarises.  Nothing removes a checkpoint when its block is disconnected *)
(* so the nHeight of consecutive checkpoints need not increase.            *)
(* Indices are the code's: NPOINTS[i] is NPOINTS[i + 1] here.              *)
(***************************************************************************)
EXTENDS BlockTree, Sequences

\* What the searches give when there is no checkpoint to give: the outputs
\* are cleared and the height is 0.
NoPoint == [nHeight |-> 0, notarized_height |-> 0, notarized_hash |-> NoBlock]

\* A slip in NotarizedData: a checkpoint carried at height h is passed.
SearchStopPast(NPOINTS, from, h) ==
    CHOOSE i \in from .. Len(NPOINTS) :
        /\ i = Len(NPOINTS) \/ NPOINTS[i + 1].nHeight > h
        /\ \A j \in from .. i - 1 : NPOINTS[j + 1].nHeight <= h

\* Where a search that starts at index `from' stops: the first checkpoint
\* carried at height h or above, or the end.
SearchStop(NPOINTS, from, h) ==
    CHOOSE i \in from .. Len(NPOINTS) :
        /\ i = Len(NPOINTS) \/ NPOINTS[i + 1].nHeight >= h
        /\ \A j \in from .. i - 1 : NPOINTS[j + 1].nHeight < h

\* The search continues from the cached index when that index is inside the
\* vector and the checkpoint before it lies below h.
CacheUsable(NPOINTS, last_index, h) ==
    /\ 0 < last_index
    /\ last_index < Len(NPOINTS)
    /\ NPOINTS[last_index].nHeight < h

\* komodo_state::NotarizedData: the checkpoint before the one at which the
\* search stops, with the index that is cached for the next search.
NotarizedData(NPOINTS, last_index, h) ==
    LET cached == CacheUsable(NPOINTS, last_index, h)
        near   == SearchStop(NPOINTS, last_index, h)
        far    == SearchStop(NPOINTS, 0, h)
        found  == cached /\ near < Len(NPOINTS)
        stop   == IF found THEN near ELSE far
        moved  == IF cached /\ near > last_index THEN near - 1 ELSE last_index
    IN  [np         |-> IF stop = 0 THEN NoPoint ELSE NPOINTS[stop],
         last_index |-> IF found \/ far = 0 THEN moved ELSE far - 1]
----------------------------------------------------------------------------
\* The carriers are in the order of their heights.
CarriersInOrder(NPOINTS) ==
    \A i, j \in DOMAIN NPOINTS : i < j => NPOINTS[i].nHeight <= NPOINTS[j].nHeight

\* "the notarization data below a particular height": the newest checkpoint
\* that is carried below h.
NewestBelow(NPOINTS, h) ==
    LET below == {i \in DOMAIN NPOINTS : NPOINTS[i].nHeight < h}
    IN  IF below = {} THEN NoPoint
        ELSE NPOINTS[CHOOSE i \in below : \A j \in below : j <= i]
=============================================================================
