SPECIFICATION Spec
CONSTANTS
  Tabs = {t1, t2}
  Docs = {d1, d2}
  MaxRevision = 3
  MaxVersions = 1
  MaxOrphans = 1
  Questions <- MCQuestions
  Always = Always
  Amounts = {0, 1, 2}
  Pages = {1, 2}
  Contents = {"x", "y"}
  MaxSessions = 2
  MaxKeys = 2
  MediaTenants = {"us", "them"}
  AssetNames = {"p", "q"}
  Breakpoints <- MCBreakpoints
  Sides = {3, 7}
SYMMETRY TabsAndDocs
INVARIANTS EditorIsCurrent FormFollowsRules RepeatIsStored MediaIsSound
PROPERTIES NothingOverwritten
CHECK_DEADLOCK FALSE
