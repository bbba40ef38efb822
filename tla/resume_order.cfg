SPECIFICATION Spec
CONSTANTS
    Name = {"a"}
    Trimmed <- MCPlain
    Nfkd <- MCPlain
    Nfkc <- MCPlain
    Radix = 3
    Ulid = {u1, u2}
    NoUlid = NoUlid
    Client = {c1}
    NoClient = NoClient
    Calls = {"upload_part", "upload"}
    MaxRequests = 2
    MaxCrashes = 0
INVARIANT ResumedUploadIsWhole
