SPECIFICATION Spec
CONSTANTS
  g1 = g1
  g2 = g2
  g3 = g3
  m1 = m1
  m2 = m2
  m3 = m3
  m4 = m4
  G <- MCG2
  M <- MCM3
  main <- MCmain
  m0 <- MCm0
  NoG = NoG
  NoM = NoM
  Gomaxprocs = {2}
  ProcChoices = {1, 2}
  Wirable <- MCWirable
  Callbacks <- MCWirable
INVARIANTS NoThrow 
