\* A hand-picked addition resets the md5 of a book that is being processed.
SPECIFICATION Spec
CONSTANTS
  Workers = {w1, w2}
  DriveFiles = {f1}
  Uploads = {}
  Docs = {d1, d2}
  MaxAttempts = 2
  MaxBooks = 1
  Asked = {"any"}
  Limits = {NoLimit}
  OcrWorkers = {}
  Scans = {}
  Blank = {}
  Slow = {}
  Edited = {f1}
  Unhashed = {}
  Picked = {f1}
  CliAdded = {f1}
  Flaky = {}
  Crashable = {}
  NoMd5 = NoMd5
  NoRow = NoRow
  NoDoc = NoDoc
  NoJob = NoJob
  NoAdd = NoAdd
  Checked = Checked
  NoLimit = NoLimit
INVARIANTS DoneMatchesMd5
