SPECIFICATION ScSpec
CONSTANTS
  NWaves = 2
  NTurns = 3
  NSpacings = 2
  MaxEvents = 3
INVARIANTS LayoutsAgree DialogsFollow ResolutionFollows
