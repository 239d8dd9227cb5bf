SPECIFICATION Spec
CONSTANT InForce <- MCInForce
INVARIANTS
  TypeOK
  CompletionEarned
  OutcomesStayOpen
PROPERTIES
  NoRubberStamp
  IndependentApproval
CHECK_DEADLOCK FALSE
