SPECIFICATION TextsSpec
CONSTANTS
  Slots <- Alphabets
  MAX_HOSTNAME_LEN = 7
  MAX_LABEL_LEN = 4
  MAX_LOCAL_PART = 4
  MAX_DOMAIN = 20
INVARIANTS Utf8Decoded Ipv4Exact Ipv6Exact HostnameExact PointersExact DatesExact TimesExact
  UriExact MailExact TemplateExact FormatsWiden FormatsCompose
CHECK_DEADLOCK FALSE
