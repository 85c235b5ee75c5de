SPECIFICATION Spec
CONSTANTS
  Processes = {node, tool}
  Versions = {v1, v2}
  Inodes <- MCInodes
  MaxEvents = 2
  MaxSaves = 2
SYMMETRY MCSymmetry
INVARIANT HitIsForFirmware
INVARIANT CacheIsWhole
