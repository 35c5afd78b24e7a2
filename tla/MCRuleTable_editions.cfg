CONSTANTS
  Candidates <- Plugins
  Rules = {"a", "b"}
  Instances = {"i", "I", "j", "o"}
  FirstEditions <- Written
  Edits <- Later
  MaxReloads = 1
SPECIFICATION Spec
INVARIANTS TypeOK GraphHasRows  LoaderIsExact NothingDroppedSilently
PROPERTIES LatchesSurvive PurgeSparesConfigured
