SPECIFICATION Spec
CONSTANTS
    Agents = {a1}
    Root = root
    Nobody = nobody
    Names = {n1}
    FileNames = {f1, f2}
    Unset = unset
    Chunks = 2
    Handlers = {h1, h2}
    MaxUploads = 2
    MaxRequests = 3
SYMMETRY Symmetry
INVARIANT TypeOK DownloadExact AccessRespected UploadKept
PROPERTY GoneForGood
CHECK_DEADLOCK FALSE
