SPECIFICATION Spec
CONSTANTS
  ann = ann
  old = old
  new = new
  weak = weak
  t1 = t1
  Users = {ann}
  Passwords = {old, new, weak}
  StrongPasswords = {old, new}
  Tokens = {t1}
  Requests = {r1, r2, r3, r4}
  Calls <- SmallCalls
  MaxFailed = 2
  LockTime = 2
  VerifyTtl = 2
  ResetTtl = 1
  NotIssued = NotIssued
SYMMETRY SmallSymmetry
INVARIANTS
  TypeOK
  LockNeedsFailures
  TokensDie
  AnswersStand
PROPERTIES
  LockStands
