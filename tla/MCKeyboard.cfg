SPECIFICATION Spec
CONSTANTS
  KEYBOARD_BUFFER_SIZE = 3
  KeyNames = {"left_shift", "letter"}
  MaxTyped = 3
INVARIANTS
  TypeOK
  InOrder
  ModifiersTrue
PROPERTIES
  BytesAreRead
  ImplementsKeyQueue
