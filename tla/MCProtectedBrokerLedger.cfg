\* Two handlers, three nonces, two requests: consumption, recovery, duplicates, torn tails.
SPECIFICATION Spec
CONSTANTS
  h1 = h1  h2 = h2  n1 = n1  n2 = n2  n3 = n3  q1 = q1  q2 = q2
  None = None
  Handlers = {h1, h2}
  Nonces = {n1, n2, n3}
  Requests = {q1, q2}
  MaxInflight = 2
INVARIANTS
  LedgerReadable
  ExecutedOnce
PROPERTIES
  ImplementsReceiptChain
SYMMETRY Symmetry
