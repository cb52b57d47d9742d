\* A Drive file, changed behind the mirror and sometimes listed without an md5, that is too slow for its lease: two
\* live workers process it at once while it is purged and added again.
SPECIFICATION Spec
CONSTANTS
  Workers = {w1, w2}
  DriveFiles = {f1}
  Uploads = {}
  Docs = {d1, d2}
  MaxAttempts = 2
  MaxBooks = 2
  Asked = {"any"}
  Limits = {1}
  OcrWorkers = {}
  Scans = {}
  Blank = {d2}
  Slow = {f1}
  Edited = {f1}
  Unhashed = {f1}
  Picked = {}
  CliAdded = {}
  Flaky = {"wrapup"}
  Crashable = {w1, w2}
  NoMd5 = NoMd5
  NoRow = NoRow
  NoDoc = NoDoc
  NoJob = NoJob
  NoAdd = NoAdd
  Checked = Checked
  NoLimit = NoLimit
SYMMETRY WorkerSymmetry
INVARIANTS TypeOK  PurgeIsFinal
