------------------------------ MODULE MCUart ------------------------------
EXTENDS SerialLink

CONSTANTS m1, m2, m3

MCInit ==
  \/ LinkInit(<<m1, m2>>, <<>>, 1)
  \/ LinkInit(<<>>, <<m1, m2>>, 1)
  \/ LinkInit(<<m1>>, <<m2>>, 0)
  \/ LinkInit(<<>>, <<m1, m2, m3>>, 0)

Spec == MCInit /\ [][LinkNext]_linkVars /\ LinkFairness
=============================================================================
