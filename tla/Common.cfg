\* Bytes of every kind of escape, and texts of one or two addresses.
SPECIFICATION Spec
CONSTANTS
    ETH_ALEN = 2
    SSID_MAX_LEN = 3
    CMD_BUF_LEN = 4
    MAX_ARG = 3
    PathBuf = 1
    PathLimit = 4
    line_len = 3
    Bytes = {0, 10, 27, 34, 39, 49, 92, 97, 120, 200, 255}
    MaxData = 4
    Chars = {48, 97, 71, 58, 46, 47, 32, 10, 8}
    MaxText = 5
    SepChars = {58, 46}
INVARIANTS
    EncodedIsReadBack
    LinksAreLists
    DumpsAreWhole
    InputIsUnderstood
\* The data and the texts have a longest length.
CHECK_DEADLOCK FALSE
