SPECIFICATION Spec
CONSTANTS
  ByteBits = 3
  WordBits = 9
  AlphabetSize = 6
  EncodedSizes <- Sizes
  ChecksumSize = 1
  PrefixBits = 7
  PoolPrefix = 2
  AddressLength = 6
  NonceSize = 2
  InstanceId <- Instance
  TargetSize = 4
  TargetHead = 2
  DiffOne = 4095
  MaxData = 5
  MaxString = 6
  MaxHashes = 40
  MaxDiff = 15000
  IdCharBits = 2
  IdChars = 5
  MaxId = 511
  HexBytes = {0, 9, 10, 15, 16, 159, 160, 255}
INVARIANTS
  EncodedDataDecodes
  AcceptedStringsAreCanonical
  AcceptedVarintsAreCanonical
  ValidatesPoolAddresses
  RootIsTheMerkleTree
  TargetIsTheQuotient
  IdsSortInTheirOrder
  HexTextKeepsItsBytes
CHECK_DEADLOCK FALSE
