\* The first window, with its settings page and its player page.
CONSTANTS
  s1 = s1
  p1 = p1
  SettingsPages = {s1}
  PlayerPages = {p1}
  MaxEdits = 2
  MaxThemes = 1
  MaxRestarts = 1
  MaxQueue = 2
SPECIFICATION Spec
INVARIANTS TypeOK FileCurrent PagesAgree EditsKept
PROPERTY EchoesEnd
