SPECIFICATION Spec
CONSTANTS
  Lines <- ShortWords
CHECK_DEADLOCK FALSE
INVARIANTS
  TypeOK
  TokensAgree
