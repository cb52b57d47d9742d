\* A slow book, stolen, and the thief killed.
SPECIFICATION Spec
CONSTANTS
  Workers = {w1, w2}
  DriveFiles = {f1}
  Uploads = {}
  Docs = {d1, d2}
  MaxAttempts = 2
  MaxBooks = 1
  Asked = {"any"}
  Limits = {NoLimit}
  OcrWorkers = {}
  Scans = {}
  Blank = {}
  Slow = {f1}
  Edited = {}
  Unhashed = {}
  Picked = {}
  CliAdded = {}
  Flaky = {}
  Crashable = {w1, w2}
  NoMd5 = NoMd5
  NoRow = NoRow
  NoDoc = NoDoc
  NoJob = NoJob
  NoAdd = NoAdd
  Checked = Checked
  NoLimit = NoLimit
INVARIANTS NeverHalfIndexed
