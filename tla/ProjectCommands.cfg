\* Three commands and one edit by hand are enough for a killed run and the run
\* after it, a forced install over a file, an apply and the handoff that
\* follows a memory build.
CONSTANTS
  Paths <- MCPaths
  Absent = Absent
  Torn = Torn
  NoText = NoText
  Ids = {"p1"}
  Items = {"say"}
  Workflows <- MCWorkflows
  Drafts <- MCDrafts
  Edits <- MCEdits
  MaxCommands = 3
  MaxEdits = 1
  Outside = {"elsewhere"}
  Protected = {"secret"}
  Padded <- MCPadded
  Dollar = "$"
  TemplateFiles <- MCTemplate
  RulesFile <- MCRules
  ConfigPath = "config"
  AdapterOff = "off"
  AdapterOn = "on"
  Plugins <- MCPlugins
  Catalogs <- MCCatalogs
  Policy <- MCPolicy
SPECIFICATION Spec
INVARIANTS AuditCoversChanges AppliedAsValidated KilledRunsLeaveOrder
PROPERTY OverwritingIsDeliberate
CHECK_DEADLOCK FALSE
