\* Two profiles that take turns, killed at any time, with errors of saving.
CONSTANTS
  home = home
  work = work
  Run <- MCRun
  Profile <- MCProfile
  ProfileOf <- MCProfileOf
  Tolerant <- MCTolerant
  Sectionless <- MCSectionless
  TakeTurns = TRUE
  Errors <- MCErrors
  MaxResults = 3
SPECIFICATION Spec
INVARIANT Truthful
PROPERTY KeepsPromise
