SPECIFICATION Spec
CONSTANTS
  KEYBOARD_BUFFER_SIZE = 3
  KeyNames = {"left_shift", "right_shift", "capslock", "letter"}
  MaxTyped = 2
INVARIANTS
  DrainedAreGone
