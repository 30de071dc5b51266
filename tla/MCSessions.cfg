CONSTANTS
  Tabs = {t1, t2}
  FormTabs = {t1}
  Usernames = {u1, u2}
  Ids = {a1, a2}
  None = None
  MaxTokens = 2
  MaxProfiles = 2
SPECIFICATION Spec
SYMMETRY MCSymmetry
INVARIANTS TypeOK StoredUserOwnsToken TokensNameAccounts
PROPERTIES SessionEndsForAReason
