SPECIFICATION PartSpec
CONSTANTS
  x = x
  y = y
  inv = inv
  Screens <- SomeScreens
  Mark = inv
  Columns = {0, 1, 2}
  MaxChanges = 4
  Specials = {"enter", "up"}
  Enter = "enter"
  Letters = {"a", "B"}
  Late = {"B"}
  KeyTime = 1
  TextTime = 3
  Habits = {}
  MaxTyped = 6
  Widths = {2, 3, 5}
  Gain = 2
  Least = 2
  Longest = 6
  Local = 6
  Calm = TRUE
  MaxEvents = 5
INVARIANTS ScreenInv KeysArrive
PROPERTIES SizeReachedHere
CHECK_DEADLOCK FALSE
