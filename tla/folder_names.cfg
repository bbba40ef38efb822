SPECIFICATION Spec
CONSTANTS
    Name = {"composed", "decomposed"}
    Trimmed <- MCTrimmed
    Nfkd <- MCNfkd
    Nfkc <- MCNfkc
    Radix = 2
    Ulid = {u1}
    NoUlid = NoUlid
    Dir <- MCDir
    MaxDepth = 1
    MaxSeq = 1
    MaxEntries = 2
    Requested = {{}}
    Rpc = {"make_directory", "list"}
PROPERTY MadeFolderOpens
