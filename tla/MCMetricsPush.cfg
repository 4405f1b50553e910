SPECIFICATION Spec
CONSTANTS
    Order <- MCOne
    MaxCandles = 1
    MaxFailures = 0
    MaxDrops = 0
PROPERTIES SnapshotIsPushed
