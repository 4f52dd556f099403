SPECIFICATION Spec

CONSTANTS
  Codes = {c1}
  Sessions = {s1, s2}
  Tabs = {t1, t2}
  Sources = {pasted, briefing}
  Providers = {fake, codex}
  CodeTtl = 1
  SessionTtl = 1
  MaxTime = 2
  None = None

SYMMETRY Symmetry
CHECK_DEADLOCK FALSE

INVARIANTS
  OneSessionPerCode
  AdmittedWithConsent

PROPERTIES
  SessionsStand
