\* A worker on a server that takes uploads, a --rechunk on a laptop; an
\* upload, a Drive file with the same or other bytes that is opened in the
\* viewer; failing bucket calls, purges, raising stages.
SPECIFICATION ArtSpec
CONSTANTS
  w1 = w1
  r1 = r1
  server = server
  laptop = laptop
  Workers = {w1, r1}
  f1 = f1
  f2 = f2
  u1 = u1
  d1 = d1
  Versions <- MCVersions
  HostOf <- MCHostOf
  Hosts = {server, laptop}
  UploadHosts = {server}
  Viewed = {f2}
  Rechunkers = {r1}
  DriveFiles = {f1, f2}
  Uploads = {u1}
  Docs = {u1, d1}
  MaxAttempts = 2
  MaxBooks = 1
  MaxClaims = 3
  Asked = {"any"}
  Limits = {NoLimit}
  OcrWorkers = {}
  Scans = {d1}
  Blank = {}
  Slow = {}
  Edited = {f1}
  Unhashed = {}
  Picked = {}
  CliAdded = {}
  Flaky = {"download"}
  Crashable = {w1, r1}
  NoMd5 = NoMd5
  NoRow = NoRow
  NoDoc = NoDoc
  NoJob = NoJob
  NoAdd = NoAdd
  Checked = Checked
  NoLimit = NoLimit
  NoPurge = NoPurge
  NoHost = NoHost
INVARIANTS FilesOK   TextKept
PROPERTIES StoredTextStays
