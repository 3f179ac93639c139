SPECIFICATION FairSpec
CONSTANTS
  Job = {j1, j2}
  ours = ours
  theirs = theirs
  bad = bad
  torn = torn
  Blank = Blank
  Nothing = Nothing
  Text = {ours, theirs, bad}
  Cut = {Blank, torn}
  Valid = {ours, theirs, Blank}
  Requests <- TwoForms
  Edits = {theirs}
  Faults = {"command", "connection", "wizard", "token", "edit", "daemon"}
INVARIANTS
  OnboardTypeOK
  CleanRetryRepairs
  EditsAreKept
  InvalidTextIsNoticed
PROPERTIES
  OnboardedNodeRuns
