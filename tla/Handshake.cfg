SPECIFICATION LiveSpec
CONSTANTS
  Node <- MCNode
  Conn <- MCConn
  Dialler <- MCDialler
  Dialled <- MCDialled
  Broken <- MCBroken
  MaxConn = 3
  SysopAllowed = TRUE
  None = None
INVARIANTS VerifiedIsPeer OneConnectionPerPeer
PROPERTY Settles
CHECK_DEADLOCK FALSE
