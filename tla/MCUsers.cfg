\* One account, which may be an administrator's, signed in on two phones.
SPECIFICATION Spec
CONSTANTS
  ann = ann
  Accounts = {ann}
  Phones = {p1, p2}
  HolderOf <- OneHolder
  NoDoc = NoDoc
  MaxWrites = 2
  MaxCalls = 2
INVARIANTS
  TypeOK
  
PROPERTIES
  RolesOnlyByAdmins
  GrantStands
  MigrationCompletes
