SPECIFICATION Spec
CONSTANTS
  e1 = e1
  e2 = e2
  d1 = d1
  a = a
  none = none
  Encryptions = {e1, e2}
  Decryptions = {d1}
  Undoes <- OfFirst
  Texts = {a, none}
  EmptyText = none
  Chosen <- Ways
CHECK_DEADLOCK FALSE
INVARIANTS
  TypeOK
  OutputIsOneEncryptedText
  OutputFileIsAuthentic
  RoundTrip
  LegalEncryptionSucceeds
