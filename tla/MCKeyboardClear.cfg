SPECIFICATION Spec
CONSTANTS
  KEYBOARD_BUFFER_SIZE = 4
  KeyNames = {"letter"}
  MaxTyped = 5
PROPERTIES
  LostOnlyWhenFull
