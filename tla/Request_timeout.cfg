CONSTANTS
    r1 = r1
    r2 = r2
    Nobody = Nobody
    Requests = {r1, r2}
    Methods = {"GET", "HEAD", "POST", "OPTIONS"}
    Results = {"json", "text", "envelope", "redirect", "context", "raises", "blocks"}
    Timeouts = {"15s", "0", "malformed"}
    MaxEnvWrites = 1
SPECIFICATION FairSpec
INVARIANT TimeoutIsAnswered
