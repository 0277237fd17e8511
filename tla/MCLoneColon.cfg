SPECIFICATION TextsSpec
CONSTANTS
  Slots <- Ipv6Alphabet
  MAX_HOSTNAME_LEN = 253
  MAX_LABEL_LEN = 63
  MAX_LOCAL_PART = 64
  MAX_DOMAIN = 255
INVARIANTS TrailingColonRejected
CHECK_DEADLOCK FALSE
