SPECIFICATION Spec
CONSTANTS
  Units <- MCUnits
  Images <- MCImages
  ImageOf <- MCImageOf
  Versions <- MCVersions
  Includes <- MCIncludes
  Claims <- MCClaims
  Broken <- MCBroken
  Tools <- MCTools
  Compiler <- MCCompiler
  Percent <- MCPercent
  Goals <- MCGoals
  Selections <- MCSelections
  MaxEdits = 1
  MaxCommands = 2
  None = None
  u1 = u1
  u2 = u2
  GAME = GAME
  OPEN = OPEN
INVARIANT BankedScoreIsOfItsInput
