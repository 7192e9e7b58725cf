CONSTANTS
  a1 = a1
  a2 = a2
  zero = zero
  t1 = t1
  t2 = t2
  t3 = t3
  None = None
  Accounts = {a1, a2, zero}
  Zero = zero
  TokenIds = {t1, t2, t3}
  Limits = {5}
  MaxCount = 2
SPECIFICATION Spec
SYMMETRY Symmetry
INVARIANT TypeOK
INVARIANT CountsMatch
INVARIANT TokensConsistent
INVARIANT ApprovalsOfOwner
