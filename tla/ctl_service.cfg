SPECIFICATION SFairSpec
CONSTANTS
  None = None
  Tags = {"t1", "t2"}
  RelayTags = {"r1", "r2"}
  Ids = {1, 2}
  Emails = {"a", "b"}
  Passwds = {"long", "short"}
  ShortPasswds = {"short"}
  Limits = {"slow", "fast"}
  Configs <- ConfigsAll
  SubLists <- SubListsPlain
  Faults = {"node", "subs", "body"}
  MaxEdits = 4
INVARIANTS
  IdleInSync
  BlockedStaysIn
  PanicsOnlyAfterDrop
PROPERTIES
  KeptUsersStay
  EventuallyServed
