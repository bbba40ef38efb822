SPECIFICATION Spec
CONSTANTS
    Name = {"a", "b"}
    Trimmed <- MCTrimmed
    Nfkd <- MCNfkd
    Nfkc <- MCNfkc
    Radix = 2
    Ulid = {u1}
    NoUlid = NoUlid
    Dir <- MCDir
    MaxDepth = 1
    MaxSeq = 1
    MaxEntries = 3
    Requested = {{}}
    Rpc = {"make_directory", "delete", "list"}
PROPERTY DeleteStaysInPath
