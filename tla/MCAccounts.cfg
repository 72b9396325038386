\* Two requests at once, two users, two tokens, and a process that is stopped once.
SPECIFICATION Spec
CONSTANTS
  ann = ann
  bob = bob
  mailA = mailA
  mailB = mailB
  p = p
  q = q
  w1 = w1
  w2 = w2
  Nicks = {ann, bob}
  Emails = {mailA, mailB}
  Passwords = {p, q}
  Workers = {w1, w2}
  UsersMax = 2
  TokensMax = 2
  RestartsMax = 1
SYMMETRY Symmetry
INVARIANTS
  AccountsTypeOK
  AccountsAreWhole
  WelcomedCanLogIn
  TokensIdentify
  ConnectionIsGivenBack
PROPERTIES
  KeepsMembers
