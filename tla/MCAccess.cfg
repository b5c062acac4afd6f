\* Two requests at a time; three pairs of cookies, two IPs, one customer,
\* one administrator, two accounts.
CONSTANTS
  k1 = k1
  k2 = k2
  k3 = k3
  u1 = u1
  u2 = u2
  Tokens = {k1, k2, k3}
  NoToken = NoToken
  Users = {u1, u2}
  Holders = {u1, u2, a1}
  a1 = a1
  Procs = {p1, p2}
  p1 = p1
  p2 = p2
  Customers = {c1}
  c1 = c1
  Emails = {e1}
  e1 = e1
  Phones = {f1}
  f1 = f1
  Null = Null
  Ips = {i1, i2}
  i1 = i1
  i2 = i2
  Admins = {a1}
  MaxAttempts = 2
  MaxCodes = 1
  Foci = {"otp", "auth", "sessions", "accounts"}
SYMMETRY AccessSymmetry
SPECIFICATION MCSpec
INVARIANTS AccessTypeOK StoredTokenIsKnown QuietLogoutIsFinal LateGuesses
CHECK_DEADLOCK FALSE
