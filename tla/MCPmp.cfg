SPECIFICATION Spec
CONSTANTS
  PmpCount = 3
  Default = 2
  Top = 4
  Perms = {{}, {"R"}, {"R", "W"}}
INVARIANT RegionsRespected
