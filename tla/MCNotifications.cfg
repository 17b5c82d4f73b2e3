SPECIFICATION NotificationFairSpec
CONSTANTS
  None = None
  notice = notice
  browser = browser
  Handles = {notice}
  LeadOf <- MCLead
  WarmupOf <- MCLead
  Channels <- MCChannels
  Urgent = {notice}
  TriggerTimes = {1}
  MaxDelay = 1
  MaxPlans = 1
  MaxTime = 1
  Clients = {browser}
  Patterns = {"*", "shared:notification:*"}
  Covers <- MCCovers
  ReplayLimit = 3
  MaxSubscribes = 2
  MaxEvents = 5
INVARIANTS
  DeliveryConsistent
  FeedConsistent
PROPERTIES
  CancelledRemindersAreSilent
  EveryReminderFires
CHECK_DEADLOCK FALSE
