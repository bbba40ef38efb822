SPECIFICATION Spec
CONSTANTS
    Name = {a, b}
    Trimmed <- MCPlain
    Nfkd <- MCPlain
    Nfkc <- MCPlain
    Radix = 3
    Ulid = {u1, u2, u3, u4}
    NoUlid = NoUlid
    Client = {c1, c2}
    NoClient = NoClient
    Calls = {"upload_part", "upload", "append", "download", "delete"}
    MaxRequests = 4
    MaxCrashes = 1
SYMMETRY PipelineSymmetry
INVARIANTS PipelineTypeOK WriterHoldsLock UploadsSpareVersions
PROPERTIES VersionBlobOnDisk RequestsAreOneStep
