SPECIFICATION Spec
CONSTANTS
  Items = 3
  Casts <- MCCasts
  Seeds <- MCSeeds
  Asked = {"search", "search_drafts", "context", "brief", "compile", "handoff", "review", "daily",
           "daily_report", "prepare", "quality", "receipt", "relations", "workspace", "project",
           "library", "item", "agent_context", "inbox"}
  Pairs <- MCPairs
  Limit = 1
  Busy = {"brief", "prepare"}
  MaxChanges = 2
  None = None
INVARIANTS DraftsNotPassedOff NothingSlipsThrough PacketOfOneVoice QuietAnswersFaithful
CHECK_DEADLOCK FALSE
