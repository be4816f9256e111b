CONSTANTS
    LegacyVersions = 2
    MaxVersion = 4
    Databases <- OldDatabases
    Hazards = {}
SPECIFICATION Spec
INVARIANTS VersionsReadable LegacyGone CallsAreRight
