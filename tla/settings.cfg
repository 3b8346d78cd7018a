SPECIFICATION Spec
CONSTANTS
  a = a  b = b  p = p  q = q  k = k  l = l
  NoPassword = NoPassword
  Users <- MCUsers
  Passwords <- MCPasswords
  Keys <- MCKeys
  MaxJobs = 2
SYMMETRY Perms
INVARIANTS
  SettingsInv
  NoOrphanPasswords
  ServedIsIntended
