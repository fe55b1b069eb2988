SPECIFICATION WatchSpec
CONSTANTS
 Limit = 2
 MissingGrace = 1
 TempGrace = 2
 ContextGrace = 1
 Attempts = 2
 Modes <- MCModes
 MaxMatches = 2
 MaxLag = 2
 MaxGlitch = 1
 MaxOdd = 1
 MaxFailures = 1
INVARIANTS WatchTypeOK TftNotRecorded OncePerGame SpansOneGame
PROPERTIES   MatchRecorded
