---------------------------- MODULE MCRecordStore ----------------------------
EXTENDS RecordStore, TLC

CONSTANTS o1, o2, o3, o4, p1, p2

\* Two calls share a process and its lock; the others are elsewhere.
Where == (o1 :> p1 @@ o2 :> p1 @@ o3 :> p2 @@ o4 :> p2)
=============================================================================
