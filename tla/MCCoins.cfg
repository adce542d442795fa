SPECIFICATION Spec
CONSTANTS
  Txid = {t1}
  Out = {o1}
  Nullifier = {n1}
  Anchor = {e, a1}
  EmptyRoot = e
  Block = {b1, b2}
  NoEntry = none
  Null = null
INVARIANTS
  UsageExact
  CoinsInv
PROPERTIES
  ImplementsCoinsView
