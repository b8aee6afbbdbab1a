SPECIFICATION FairSpec
CONSTANTS
  CommandLines <- MCCommandLines
  EventLines <- MCEventLines
  PluginFiles <- MCPluginFiles
  MaxPieces = 3
  MaxPlugins = 2
  MaxEvents = 2
INVARIANTS
  ParsedAsWritten
  RunsAsWritten
  OneEventIsSafe
PROPERTIES
  QuitsWhenAsked
  StartEnds
