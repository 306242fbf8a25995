CONSTANTS
  d1 = d1
  d2 = d2
  d3 = d3
  Doc = {d1, d2, d3}
  MinChars = 2
  TargetChars = 3
  MaxChars = 5
  MinBody = 3
  PrefixChars = 1
  MaxFailurePercent = 50
  NameOf <- MCNameOf
  Pages <- MCPages
  Label <- MCLabel
  Titles <- MCTitles
  RefsOf <- MCRefsOf
  Versions <- MCVersions
  MaxSelected = 2
  MaxExtras = 1
  MaxSections = 3
SPECIFICATION Spec
INVARIANTS PublishedIsWhole UsedIsCited
PROPERTIES SelectedIsFound
