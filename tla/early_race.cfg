SPECIFICATION SpecChangesAlone
CONSTANTS
  u1 = u1
  u2 = u2
  adm = adm
  url1 = url1
  url2 = url2
  p1 = p1
  p2 = p2
  p3 = p3
  w1 = w1
  w2 = w2
  c1 = c1
  c2 = c2
  Nobody = Nobody
  Never = Never
  Keep = Keep
  NoRow = NoRow
  NoEntry = NoEntry
  NoScore = NoScore
  NoRequest = NoRequest
  NoCode = NoCode
  Links <- OneLink
  Codes <- OneCode
  CodeOf <- OnlyCode
  Users <- OneUser
  Admins <- NoAccount
  Leavers <- NoAccount
  Urls = {url1}
  Expiries = {1,3}
  PublicTTL = 3
  Second = 1
  MaxTime = 4
  BatchSize = 1
  Procs = {p1, p2}
  Jobs <- ChangerAndReader
  Workers = {w1}
  Faults = FALSE
PROPERTY DeactivatesOnlyExpired
