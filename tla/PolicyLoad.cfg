\* Chains of up to three documents and a fourth that is read and refused.
SPECIFICATION Spec
CONSTANTS
  Width4 = 2
  Width6 = 4
  Mapped <- MCMapped
  LowerOf <- MCLowerOf
  Documents <- MCDocuments
  Components = {"repo", "sub", "base", "link", "etc", "file", "policy"}
  Root <- MCRoot
  File = "policy"
  MaxDepth = 2
  ModeFlags = {unset, "block", "enforce"}
  Names <- MCNames
  Unset = unset
INVARIANTS
  ReadsConfined
  LoadedIsMerge
  NamesOfTheChain
  NoWholeFamily
  FilterMatchesPolicy
