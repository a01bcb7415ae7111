SPECIFICATION Spec
CONSTANTS
    None = None
    token = token
    Absent = Absent
    Torn = Torn
    Down = Down
    LongGoals = {"speech"}
    Timezones <- MCTimezones
    Environments <- MCEnvironments
    Payloads <- MCPayloads
    Profiles <- MCProfiles
    Found <- MCFound
    Shipped <- Blanks
    RelayToken = token
    RelayNumbers <- MCRelayNumbers
INVARIANTS TypeOK ReplaysWhatMeansTheSame OnlyEnrolledIsOrdered  ReadyMeansConfigured
