CONSTANTS
  h1 = h1
  h2 = h2
  Absent = Absent
  Handlers <- TwoHandlers
  Scenarios <- SomeScenarios
  Kind <- SomeKinds
  Links <- SomeLinks
  Roots <- Blog
  DefaultRoot <- Www
  Scripts = {"form.php"}
  Hidden = {".", "..", ".git", ".well-known", ".htaccess"}
  DotDot = {".."}
  RuleNames = {".htaccess"}
  Sensitive = {"site.conf"}
  Odd = {"%2e"}
  Depth = 2
  RuleFiles <- SomeRuleFiles
  MaxRuleEdits = 2
  MayFail = TRUE
  MaxClock = 2
SPECIFICATION Spec
INVARIANTS
  SpoolRemoved
  AnswerNamesWholeFiles
  LimitsHold
  AuditTrail
  ScriptGetsWholeBody
  OnlyPublicFiles
  RulesDecide
