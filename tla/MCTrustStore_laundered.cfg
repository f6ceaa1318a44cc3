CONSTANTS
  Peer = {p1}
  MaxAudit = 3
SPECIFICATION Spec
PROPERTIES
  DeniedStaysDenied
