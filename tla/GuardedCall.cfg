CONSTANTS
    None = None
    Nothing = Nothing
    Secrets <- MCSecrets
    Opaque = {"opaque"}
    Urls <- MCUrls
    Fragmentless <- MCFragmentless
    Shipped <- MCShipped
    Ambiguous = {"relative.js"}
    AuditPath = "trail"
    Reviewed = {"manifest"}
    MaxItems = 2
    MaxWaitMs = 3
    MaxLength = 60
    MaxTokens = 24
    MaxCommands = 8
    MaxWrappers = 1
    Numbers = {"5"}
    Options = {"-n", "-k", "-a", "-u", "-v"}
    Assignments = {"A=b"}
    DangerousAssignments = {}
    SecretNames = {}
    Protected = {"secret"}
    Untrusted = {}
    Basename <- MCBasename
    Interpreters = {"sh"}
    InlineInterpreters = {"node"}
    ControlWords = {"if"}
    Asking = {"rm"}
    Readers = {"cat"}
    Writers = {"tee"}
    Drafts <- MCDrafts
    Fields <- MCFields
    ShadowDrafts = {"write", "message", "patchConfig", "fetch"}
    PatchLines <- MCPatchLines
    MaxLines = 4
    Pieces <- MCPieces
    MaxPieces = 2
    Wrappings <- MCWrappings
    MaxWraps = 2
    MaxFields = 3
    SessionKey = "s1"
SPECIFICATION Spec
INVARIANT BoundariesHold
PROPERTY WrappingHidesNothing
CHECK_DEADLOCK FALSE
