SPECIFICATION ExecFairSpec
CONSTANTS
  order = order
  read = read
  k1 = k1
  k2 = k2
  Callers = {order, read}
  Mutations = {order}
  Keys = {k1, k2}
  Charges <- MCCharges
  MaxAttempts = 3
INVARIANTS MutationsAreSafe
PROPERTIES AttemptsAreAccounted ImplementsContract EveryCallReturns
