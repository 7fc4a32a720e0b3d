SPECIFICATION PartSpec
CONSTANTS
  Caller = {c1, c2}
  Grant = {g1, g2}
  NoCaller = NoCaller
  MaxCalls = 2
  main = main
  dev = dev
  v0 = v0
  v1 = v1
  v2 = v2
  Branch = {main, dev}
  Commit = {v0, v1, v2}
  Absent = Absent
  Mixed = Mixed
  Detached = Detached
  Client = {r1, r2}
  MaxGit = 1
  Origin <- MCOrigin
  Refs <- MCRefs
  photo = photo
  album = album
  file = file
  folder = folder
  alice = alice
  bob = bob
  Path = {photo, album}
  Inode = {file, folder}
  Folder = {folder}
  Owner = {alice, bob}
  Same = Same
  MaxMeddling = 1
  Changes <- MCChanges
  Found <- MCFound
  Viewer = {t1, t2, t3}
  Slots = 2
  Preview = {p1, p2}
  Headroom = 3
  Step = 2
  Chunk = 2
  Sizes <- MCSizes
  Space = {8}
  MaxTaken = 3
  nas = nas
  disk = disk
  Volume = {volumeA, volumeB}
  Point <- MCPoint
  Name = {nas, disk}
  TrashDir = TrashDir
  Container = {boxA, boxB}
  MaxMounts = 3
  MaxDeeds = 2
  sub = sub
  leaf = leaf
  spare = spare
  one = one
  two = two
  three = three
  Label = {sub, leaf, spare}
  Dir = Dir
  Nothing = Nothing
  Fresh = {visitor}
  MaxVisits = 1
  Starts <- MCStarts
INVARIANTS TreeSurvives MergeIsComplete RightUntilExpired LagBounded BatchIsPrefix ThumbnailCap HeadroomShared OriginIsTrue
PROPERTIES CallsReturn SwitchesWhatWasSeen ReportIsReal WaitersAnswered
CHECK_DEADLOCK FALSE
