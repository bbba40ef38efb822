SPECIFICATION Spec
CONSTANTS
    Name = {"a"}
    Trimmed <- MCTrimmed
    Nfkd <- MCNfkd
    Nfkc <- MCNfkc
    Radix = 2
    Ulid = {u1, u2}
    NoUlid = NoUlid
    Dir <- MCDir
    MaxDepth = 0
    MaxSeq = 1
    MaxEntries = 1
    Requested = {{}}
    Rpc = {"upload", "delete", "list"}
PROPERTY DeletedIsGone
