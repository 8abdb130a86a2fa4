CONSTANTS
  r1 = r1  r2 = r2
  b1 = b1
  Modes = {"request", "with-key", "anchor"}
  Types = {"kv", "certificate"}
  Kinds = {"root", "intermediate"}
  ModeSections <- MCModeSections
  ShowWhen = {"cert-field"}
  KindSections = {"parent"}
  Want <- MCWant
  Inside <- MCInside
  Rendered = {"cert", "key", "chain", "parent"}
  Fields <- MCFields
  Name <- MCName
  Rows = {r1, r2}
  Buttons = {b1}
  MaxCopies = 2
SPECIFICATION FairSpec
INVARIANTS TypeOK HiddenIsNotSubmitted BulkIsTold
PROPERTY LabelComesBack
