SPECIFICATION CallSpec
CONSTANTS
  Decoders = {"Q4KDequant", "Q5KDequant", "Q6KDequant", "IQ4XSDequant", "Q5KSm86Cpu", "Q5KPlanes", "IQ4XSSm86Cpu", "IQ4XSTable", "IQ4XSPrmt"}
INVARIANTS
  SameBits
  SameNumber
  HalvesRound
  NearestCode
  DecodesClose
