SPECIFICATION Spec
CONSTANTS
  Origins = {site, player}
  Players = {player}
  Docs = {d1, d2}
  Pages = {p1}
  Cooldown = 1
  Stale = 2
  MaxTime = 3
  MaxQueue = 2
  MaxFails = 1
  MaxStops = 1
  MaxOutside = 1
INVARIANTS
  RegistrationFollows
  OneDoorhanger
PROPERTIES
  ChangesApplied
SYMMETRY DocsAlike
