CONSTANTS
  Strings <- MCStrings
  Dsns <- MCDsns
  Users <- MCUsers
  Texts = {a, b}
  a = a
  b = b
  d1 = d1
  d2 = d2
  Empty = Empty
  DefaultText = DefaultText
  Unset = Unset
  NaN = NaN
  IntMax = 3
  InfoWchar = 4
  InfoUsers = {"user", "u"}
  InfoDsns = {"dsn", "plant"}
  NoDsn = NoDsn
  AskedInfo = {"DATA_SOURCE_NAME", "USER_NAME", "CATALOG_TERM", "CATALOG_USAGE",
               "CURSOR_SENSITIVITY"}
SPECIFICATION ConnectionSpec
INVARIANTS
  ClientIffConnected
  SettingsAsAsked
  ResultExplained
  LengthThenValue
  
PROPERTY ClientNotReplaced
