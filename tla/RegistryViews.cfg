SPECIFICATION Spec
CONSTANTS
  n1 = n1
  n2 = n2
  t1 = t1
  t2 = t2
  t3 = t3
  web = web
  search = search
  find = find
  finding = finding
  note = note
  the = the
  Names = {n1, n2}
  Entries = {e1, e2, e3}
  Configs <- MCConfigs
  Given <- MCGiven
  ToolLists <- MCToolLists
  NoTools <- NoToolsYet
  None = None
  StopWords <- MCStopWords
  Stem <- MCStem
  Within <- MCWithin
  NameOf <- MCNameOf
  DescOf <- MCDescOf
  Reader = r
  Label <- MCLabel
  Intents <- MCIntents
  Keys = {k}
  MaxWrites = 1
SYMMETRY Alike
CHECK_DEADLOCK FALSE
INVARIANT TypeOK
INVARIANT RowsWereTrue
INVARIANT ViewsAreComplete
INVARIANT MatchIsBest
INVARIANT MatchIsAccessible
INVARIANT ImportRestores
