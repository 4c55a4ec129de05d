\* Three threads, pages that have seen version 0 or 1, two notifications.
SPECIFICATION HubFairSpec
CONSTANTS
  Threads = {t1, t2, t3}
  Seen = {0, 1}
  MaxVersion = 2
  Nobody = Nobody
INVARIANTS
  HubTypeOK
  EventIsNews
PROPERTIES
  AsleepIsWoken
  AsleepOrAnswered
