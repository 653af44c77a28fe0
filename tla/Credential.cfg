CONSTANTS
  P = 5
  Scalar <- MCScalar
  Zero = 0
  One = 1
  Plus <- MCPlus
  Times <- MCTimes
  Neg <- MCNeg
  Inv <- MCInv
  KeyPairs <- MCKeyPairs
  Domains <- MCDomains
  Draws <- MCDraws
  Nonces <- MCNonces
  Challenges <- MCChallenges
  Users <- MCUsers
SPECIFICATION Spec
INVARIANTS TypeOK RequestsGranted OnlyOwnFactorVerifies AcceptedIffValid AcidVerifies PseudonymStable ShowingsVerify
