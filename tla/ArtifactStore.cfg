SPECIFICATION Spec
CONSTANTS
  w1 = w1
  w2 = w2
  t1 = t1
  t2 = t2
  Containers = {w1, w2}
  Targets <- MCTargets
  Texts = {t2}
  Large = {t2}
  Empty = Empty
  Absent = Absent
  MaxVersions = 3
  VersionIds <- MCVersionIds
  RootIds <- MCRootIds
INVARIANTS KeysStayInLineage
PROPERTIES LegalLifecycle ImplementsPublishedLog
CHECK_DEADLOCK FALSE
