SPECIFICATION Spec
CONSTANTS
    Process = {p1, p2}
    MAX_TRIES = 3
    MaxRequests = 5
    Ops = {"make_directory", "upload_part", "upload", "upload_next", "append_part", "append", "delete"}
SYMMETRY ProcessSymmetry
INVARIANTS FileTypeOK HeadIsInPlace 
 
