SPECIFICATION FairSpec
CONSTANTS
  HookActions <- AnyHookActions
  BeforeTool <- AnyBeforeTool
  Tools <- AnyTools
  NoTool = ""
  Permission <- AnyPermission
  DisabledTools = {"off"}
  SelectOutcomes = {"none", "missing", "found"}
  SkillResults = {"raises", "null", "direct"}
  ToolOutcomes = {"ok", "failed"}
  ErrorTexts = {"empty", "text"}
  PersistOutcomes = {"saved", "lost"}
INVARIANTS
  TypeOK
  PauseInv
  AskedToolNeedsApproval
  ForbiddenToolNeverRuns
  BlockedIsNotCompleted
  AnnouncedResponseStands
  CompletionIsLast
  ApprovedToolIsAttempted
PROPERTIES
  ImplementsContract
  EventuallyReturns
\* a run that is over and has no pending request stays as it is
CHECK_DEADLOCK FALSE
