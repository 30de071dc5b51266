CONSTANTS
  Tabs = {t1, t2}
  FormTabs = {t1}
  Usernames = {u1}
  Ids = {a1}
  None = None
  MaxTokens = 2
  MaxProfiles = 2
SPECIFICATION FairSpec
PROPERTIES DeadSessionIsLeft
