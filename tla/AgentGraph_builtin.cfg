SPECIFICATION Spec
CONSTANTS
  HookActions <- BuiltinHookActions
  BeforeTool <- BuiltinBeforeTool
  Tools <- BuiltinTools
  NoTool = ""
  Permission <- BuiltinPermission
  DisabledTools = {}
  SelectOutcomes = {"found"}
  SkillResults = {"raises", "null", "direct"}
  ToolOutcomes = {"ok", "failed"}
  ErrorTexts = {"text"}
  PersistOutcomes = {"saved", "lost"}
INVARIANTS
  RequireApprovalHolds
\* a run that is over and has no pending request stays as it is
CHECK_DEADLOCK FALSE
