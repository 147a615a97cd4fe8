SPECIFICATION Spec
CONSTANTS
  Executions = {e1, e2}
  Names = {n1}
  Calls = {c1, c2, c3}
  Payloads = {p1, p2}
INVARIANTS
  TypeOK
  RegisteredOpen
  BufferedIsUnheard
  DeliveredOnce
  StrandedOnlyIfOverlapped
