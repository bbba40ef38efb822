SPECIFICATION Spec
CONSTANTS
    Name = {"a", "padded a", "composed", "decomposed"}
    Trimmed <- MCTrimmed
    Nfkd <- MCNfkd
    Nfkc <- MCNfkc
    Radix = 2
    Ulid = {u1, u2}
    NoUlid = NoUlid
    Dir <- MCDir
    MaxDepth = 1
    MaxSeq = 2
    MaxEntries = 2
    Requested = {{}}
    Rpc = {"make_directory", "upload", "delete", "move", "list"}
SYMMETRY UlidSymmetry
INVARIANTS ListedNamesOpen WalksAgree
PROPERTIES MovedIsFound
