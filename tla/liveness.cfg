SPECIFICATION FairSpec
CONSTANTS
    Name = {"a"}
    Trimmed <- MCPlain
    Nfkd <- MCPlain
    Nfkc <- MCPlain
    Radix = 3
    Ulid = {u1, u2, u3}
    NoUlid = NoUlid
    Client = {c1, c2}
    NoClient = NoClient
    Calls = {"upload_part", "upload", "delete"}
    MaxRequests = 3
    MaxCrashes = 1
PROPERTIES RequestsEnd AcknowledgedDataLands
