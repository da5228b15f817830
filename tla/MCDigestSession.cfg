SPECIFICATION MCSpec
CONSTANTS
  Calls = {c1}
  Challenges = {"usable", "nonceless", "unsupported", "missing"}
  Statuses = {200, 404, 503}
  MaxSends = 5
  Targets = {t1, t2}
  Offers <- MCOffers
  QopFirst = FALSE
INVARIANTS
  DigestTypeOK
  FreshCredentials
  OncePerExecution
  WholeBody
  OneToClose
  AnswersChallenge
PROPERTIES
  NonceKept
CHECK_DEADLOCK FALSE
