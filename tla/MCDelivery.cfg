SPECIFICATION DeliverySpec
CONSTANTS
  t1 = t1 t2 = t2 r1 = r1 r2 = r2 c1 = c1 c2 = c2 c3 = c3
  Tasks = {t1, t2}
  Repos = {r1, r2}
  RepoOf <- MCRepoOf
  Slots = {c1, c2, c3}
  SlotOf <- MCSlotOf
  Required <- MCRequired
  AnyApp = AnyApp
  Listing <- MCListing
  PageSize = 2
  MaxAttempts = 2
  MaxReruns = 1
  MaxChanges = 1
  Pushed <- MCPushed
  MaxHuman = 1
  Crashes = 1
INVARIANTS ObservedUnderItsOwn
PROPERTIES DeliversAsPromised SuccessIsEarned ObservationEnds
CHECK_DEADLOCK FALSE
