SPECIFICATION MCSpec
CONSTANTS
  Values = {0, 1, 2, 3, 4, 5, 6, 7, 8, 9, 10, 11, 12, 13, 14, 15, 16}
  Nothing = Nothing
  Caps = {4, 8, 16}
PROPERTY
  IsFifo
