\* Two runs that overlap, crashes and full disks.
CONSTANTS
  Runs = {r1, r2}
  Datasets <- TwoDatasets
  Count <- CountOf
  Npb = 2
SPECIFICATION Spec
CONSTRAINT OneRace
SYMMETRY Symmetry
INVARIANTS
  TypeOK
  LoadedIsWhole
  IndexInUse
PROPERTIES
  WholeIsAccepted
