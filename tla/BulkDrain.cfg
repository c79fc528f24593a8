SPECIFICATION FairSpec
CONSTANTS
  m1 = m1
  m2 = m2
  m3 = m3
  d1 = d1
  w1 = w1
  w2 = w2
  Msgs = {m1, m2, m3}
  Home <- DlqHome
  DeadForm <- NoneDies
  Affinity <- OneAffinity
  Sources = {"dlq"}
  Workers = {w1, w2}
  BatchSize = 3
  Transfer = FALSE
PROPERTIES
  RunEnds
