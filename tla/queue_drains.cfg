\* A slow hand-picked Drive file whose md5 is reset under way, two workers that
\* steal it from each other, one of them killable and the only one with OCR.
SPECIFICATION FairSpec
CONSTANTS
  Workers = {w1, w2}
  DriveFiles = {f1}
  Uploads = {}
  Docs = {d1, d2}
  MaxAttempts = 2
  MaxBooks = 1
  Asked = {"any"}
  Limits = {NoLimit}
  OcrWorkers = {w1}
  Scans = {d2}
  Blank = {}
  Slow = {f1}
  Edited = {f1}
  Unhashed = {}
  Picked = {f1}
  CliAdded = {}
  Flaky = {}
  Crashable = {w1}
  NoMd5 = NoMd5
  NoRow = NoRow
  NoDoc = NoDoc
  NoJob = NoJob
  NoAdd = NoAdd
  Checked = Checked
  NoLimit = NoLimit
PROPERTIES QueueDrains
