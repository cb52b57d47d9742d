\* One worker whose manifest update raises after the commit.
SPECIFICATION Spec
CONSTANTS
  Workers = {w1}
  DriveFiles = {f1}
  Uploads = {}
  Docs = {d1, d2}
  MaxAttempts = 2
  MaxBooks = 1
  Asked = {"any"}
  Limits = {NoLimit}
  OcrWorkers = {}
  Scans = {}
  Blank = {}
  Slow = {}
  Edited = {}
  Unhashed = {}
  Picked = {}
  CliAdded = {}
  Flaky = {"wrapup"}
  Crashable = {}
  NoMd5 = NoMd5
  NoRow = NoRow
  NoDoc = NoDoc
  NoJob = NoJob
  NoAdd = NoAdd
  Checked = Checked
  NoLimit = NoLimit
INVARIANTS FailedNeverAnswers
