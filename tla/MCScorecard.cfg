SPECIFICATION OutputSpec
CONSTANTS
    Objects <- MCObjects
    Checks <- MCChecks
    Implied <- MCImplied
    Annotations <- MCAnnotations
    Enabled <- MCEnabled
    Ignored <- MCIgnored
    Outputs <- MCOutputs
    Uncommented = {"seccomp-profile"}
INVARIANT ResultsExact
INVARIANT NearestStatementWins
INVARIANT ReportTellsVerdict
INVARIANT CleanExitComplete
CHECK_DEADLOCK FALSE
