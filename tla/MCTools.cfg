\* Four requests, every index and one beyond them; two batches of three.
CONSTANTS
  Wrap = 64
  BlockLen = 4
  Aes <- MCAes
  Xor <- MCXor
  Count = 4
  MsgUnit = 9
  Entropy <- MCEntropy
  KeyOf <- MCKeyOf
  Spent <- MCSpent
  Words <- MCWords
  Args = {0, 1, 2, 3, 4}
  NBatches = 2
  NumSigs = 3
  MaxDraws = 2
  NoKey = NoKey
SPECIFICATION ToolsSpec
INVARIANTS
  KatKeyRegenerated
  StartsDistinct
