SPECIFICATION Spec
CONSTANTS
  Keys <- MCKeys
  InputsBound = 4
  Path <- MCPath
  EssenceHash = "hash"
INVARIANTS
  ReferencesPointToSignatures
  SignaturesUseInputKey
  OneSignaturePerKey
