SPECIFICATION ToolsSpec
CONSTANTS
  CPUs = {c1, c2}
  Packets <- TlsPackets
  DNS_LABELS = 2
  LABEL_CHARS = 2
  MAX_DNS_NAME = 6
  MAX_EXTS = 2
  SNI_CHARS = 4
  MAX_TLS_SNI = 6
  MAX_HTTP_INFO = 48
  MAX_CAPTURE_BYTES = 256
  MaxPackets = 3
  TRACE_BYTES = 64
  Payloads = {8, 100}
SYMMETRY CPUSymmetry
CHECK_DEADLOCK FALSE
INVARIANT
  SniIsHostname
