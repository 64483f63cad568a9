SPECIFICATION Spec
INVARIANTS
  UnclickedKept
  NothingCollapsesUnasked
SYMMETRY Interchangeable
CONSTANTS
  calendar = calendar
  notes = notes
  Groups = {calendar, notes}
  Consumers = {calendar}
  MaxVersion = 0
  SelfOnly = SelfOnly
  Listed <- OneListed
  Tabs = {t1, t2}
  t1 = t1
  t2 = t2
  Slots = {s1, s2}
  s1 = s1
  s2 = s2
  Earlier <- MCEarlier
  MaxClicks = 3
  None = None
