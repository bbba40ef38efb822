SPECIFICATION Spec
CONSTANTS
    Name = {"a", "b"}
    Trimmed <- MCTrimmed
    Nfkd <- MCNfkd
    Nfkc <- MCNfkc
    Radix = 2
    Ulid = {u1, u2}
    NoUlid = NoUlid
    Dir <- MCDir
    MaxDepth = 0
    MaxSeq = 2
    MaxEntries = 2
    Requested = {{}}
    Rpc = {"upload", "copy", "list"}
INVARIANT NotCorrupted
