\* A constructor overlaps the last destructor.
CONSTANTS
  Connections = {c1, c2}
  Serialized = FALSE
SPECIFICATION Spec
INVARIANT SdkUpWhileLive
