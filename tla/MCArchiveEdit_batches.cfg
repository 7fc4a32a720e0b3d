SPECIFICATION Spec
CONSTANTS
  Worker = {w1, w2}
  Folder = Folder
  NoArchive = NoArchive
  old = old
  other = other
  Data <- MCData
  Path <- MCPath
  Initial <- MCInitial
  Others <- MCOthers
  MaxVersions = 2
  MaxOps = 2
SYMMETRY Symmetric
INVARIANT ChangesMakeListing
PROPERTIES NoLostUpdate ReplacesOnlyWhatWasSeen WholeBatches
CHECK_DEADLOCK FALSE
