\* Both pool orders, every snapshot of 4 objects over keys 1..3, every
\* pruned subset, one Marshal and one Unmarshal error of the Slicer and one
\* Marshal error of its nextPartition.
CONSTANTS
    NumObjects = 4
    MaxKey = 3
    Dirs = {FALSE, TRUE}
    NIL = NIL
    MaxMarshalFailures = 1
    MaxUnmarshalFailures = 1
    MaxPartitionFailures = 1
SPECIFICATION Spec
INVARIANT TypeOK
INVARIANT PartitionsOrdered
INVARIANT ObjectsOnce
INVARIANT AllObjectsListed
