SPECIFICATION LimiterFairSpec
\* Four tasks against a limit that moves between one and two: with two slots
\* full and the limit lowered, tasks wait behind an overfull gate.
CONSTANTS
  Task = {t1, t2, t3, t4}
  Limit = {1, 2}
PROPERTIES
  KeepsTheGate
  EveryPromiseSettles
