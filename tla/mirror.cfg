\* Two syncs at a time, from the page or the command line, over a library of
\* one folder and one file that is edited once.  It comes to rest when
\* nobody asks for another sync.
SPECIFICATION MirrorSpec
CONSTANTS
  s1 = s1
  s2 = s2
  lib = lib
  dir = dir
  pdf = pdf
  Syncers = {s1, s2}
  Folders = {lib, dir}
  Files = {pdf}
  Root = lib
  Outside = Outside
  Names = {"a", "b"}
  MaxEdits = 1
  MaxSyncs = 3
  NoRow = NoRow
  Null = Null
  NoOne = NoOne
INVARIANTS MirrorOK SyncFaithful VectorNamesFile FlagHonest
SYMMETRY SameSyncers
CHECK_DEADLOCK FALSE
