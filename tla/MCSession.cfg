\* Two people share a phone, one of them an administrator.
SPECIFICATION FairSpec
CONSTANTS
  Accounts = {ann, bob}
  Admins = {bob}
  Nobody = Nobody
  Unheard = Unheard
  MaxDepth = 3
  MaxQueue = 2
  MaxCalls = 1
INVARIANTS
  TypeOK
  TokenOnFile
  StartUnderway
  GateSettled
  DocumentUnderway
  ProfileBelongsToUser
PROPERTIES
  AppComesUp
  
  
