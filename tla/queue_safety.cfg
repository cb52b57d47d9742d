\* Two workers, a Drive file that changes behind the mirror and an upload,
\* with crashes, failed downloads, purges and re-adds; every stage fits its lease.
SPECIFICATION Spec
CONSTANTS
  Workers = {w1, w2}
  DriveFiles = {f1}
  Uploads = {u1}
  Docs = {u1, d1}
  MaxAttempts = 2
  MaxBooks = 2
  Asked = {"any", "upload"}
  Limits = {NoLimit}
  OcrWorkers = {}
  Scans = {d1}
  Blank = {}
  Slow = {}
  Edited = {f1}
  Unhashed = {}
  Picked = {}
  CliAdded = {}
  Flaky = {"download"}
  Crashable = {w1, w2}
  NoMd5 = NoMd5
  NoRow = NoRow
  NoDoc = NoDoc
  NoJob = NoJob
  NoAdd = NoAdd
  Checked = Checked
  NoLimit = NoLimit
SYMMETRY WorkerSymmetry
INVARIANTS ExclusiveHolder SearchMatchesShelf ExhaustedStaysFailed
PROPERTIES TerminalIsFinal QueueIsShelf
