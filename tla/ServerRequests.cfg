SPECIFICATION Spec
CONSTANTS
  u1 = u1
  u2 = u2
  EntryTables <- MCEntryTables
  Knowledge <- MCKnowledge
  Users = {u1, u2}
  Nobody = Nobody
  MaxAttempts = 2
  MaxSessions = 2
  Messages = {m1, m2, m3}
  Objects = {o1, o2}
  Nil = Nil
  Channels = {c1}
  MaxData = 2
  MaxExecs = 2
SYMMETRY MCSymmetry
INVARIANTS GrantEarned MessagesAnswered RunsWholeInput
CHECK_DEADLOCK FALSE
