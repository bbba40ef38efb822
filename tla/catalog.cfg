SPECIFICATION Spec
CONSTANTS
    Name = {"a", "b"}
    Trimmed <- MCTrimmed
    Nfkd <- MCNfkd
    Nfkc <- MCNfkc
    Radix = 3
    Ulid = {u1, u2, u3, u4}
    NoUlid = NoUlid
    Dir <- MCOneDir
    MaxDepth = 1
    MaxSeq = 3
    MaxEntries = 2
    Requested = {{}, {2}}
    Rpc = {"make_directory", "upload_part", "upload", "upload_next", "append", "download", "delete", "copy", "move", "list"}
    Byte = {0, 1, 2}
    NUL = 0
    Malformed <- MCMalformed
    Users <- MCUsers
    MaxAssertion = 4
    Field = 4
    Epochs = 4
    Milli = 3
    Second = 9
SYMMETRY UlidSymmetry
INVARIANTS TypeOK FoldersApart FileIdsUnique LatestVersionPresent VersionsOwned BlobsPrivate TokensSealed 
PROPERTIES  VersionBlobStays 
