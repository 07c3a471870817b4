SPECIFICATION Spec
CONSTANTS
  Sender = Sender  Receiver = Receiver
  s1 = s1  s2 = s2  r1 = r1  r2 = r2  o1 = o1  o2 = o2
  Obj = {o1, o2}
  Root = {s1, r1}
  Owner <- MCOwner
  Held <- MCHeld
  MESSAGE_BUFFER_SIZE = 3
  NULL = NULL
  MaxSend = 1
  Failures = FALSE
INVARIANTS NoLeak
CHECK_DEADLOCK FALSE
