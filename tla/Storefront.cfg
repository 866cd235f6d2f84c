SPECIFICATION Spec
CONSTANTS
  NULL = NULL
  NoPassword = NoPassword
  Email = {e1, e2}
  Legacy = {e1}
  Password = {p1, p2}
  Token = {t1, t2}
  City = {c1}
  MaxMember = 2
  MaxAddress = 1
  TTL = 2
  Request = {r1, r2}
SYMMETRY Interchangeable
INVARIANTS SessionOfPassword ShipsToOwnAddress EndedSessionsActForNobody CookieOutlivesSession
