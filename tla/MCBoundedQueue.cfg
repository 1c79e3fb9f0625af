SPECIFICATION FairSpec
CONSTANTS
  c1 = c1
  c2 = c2
  c3 = c3
  x = x
  y = y
  NoItem = NoItem
  Consumer <- MCConsumer
  Item <- MCItem
  Reserve <- MCReserve
  Capa = 2
  Modulus = 6
INVARIANT NoLostWakeup
PROPERTIES ImplementsFifo WaitingThreadIsServed
