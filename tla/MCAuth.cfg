SPECIFICATION MCSpec
CONSTANTS
    Boot = boot
    Others = {r1}
    MaxTokens = 2
    RefreshLimit = 2
    DemoMode = TRUE
    Denials = {"401", "403"}
    Pages = {p1, p2}
    Asking = {r1, r2}
    PerSetup = 1
    MaxAsks = 4
CHECK_DEADLOCK FALSE
INVARIANTS NobodyIsForgotten  EnabledSecretsAreHeld CodesWorkOnce RevokedStayRevoked ChangesStay
PROPERTIES SessionsEndForAReason 
