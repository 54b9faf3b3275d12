------------------------------ MODULE Keyboard ------------------------------
(***************************************************************************)
(* The path of a key: from the keyboard and its controller (external),     *)
(* over the interrupt that kernel_main's boot sequence sets up (apic.c),   *)
(* through the driver's handler into a ring buffer, and out of it by       *)
(* try_get_key (keyboard.c).                                               *)
(*                                                                         *)
(* The handler runs behind an interrupt gate, so it is one step; what the  *)
(* kernel's main flow does is cut into one step per access to what the     *)
(* handler shares with it.  Ctrl, Alt, NumLock and ScrollLock are kept     *)
(* like Shift and CapsLock are, and left out.                              *)
(***************************************************************************)
EXTENDS Integers, Sequences, FiniteSets

CONSTANTS KEYBOARD_BUFFER_SIZE,   \* 64
          KeyNames,               \* the keys that are typed
          MaxTyped                \* bound: presses and releases of keys

KEY_LSHIFT == "left_shift"
KEY_RSHIFT == "right_shift"
KEY_CAPSLOCK == "capslock"
Letter == "letter"

ASSUME KeyboardAssumption ==
    /\ KEYBOARD_BUFFER_SIZE \in Nat \ {0, 1}
    /\ KeyNames \subseteq {KEY_LSHIFT, KEY_RSHIFT, KEY_CAPSLOCK, Letter}
    /\ MaxTyped \in Nat

Slots == 0 .. KEYBOARD_BUFFER_SIZE - 1

\* A byte from the keyboard: which key went down or up.  Each has an identity of
\* its own, ascending in time.  To the handler the controller's configuration
\* byte is a press, and an acknowledgement a release, of a key without a meaning.
Byte(id, key, pressed) == [id |-> id, key |-> key, pressed |-> pressed]
Config(id) == Byte(id, "config", TRUE)
Ack(id) == Byte(id, "ack", FALSE)

NoKey == [id |-> 0, key |-> "none", ascii |-> "none", shift_held |-> FALSE,
          capslock_on |-> FALSE]

VARIABLES
    \* the keyboard and its controller
    down,            \* the identity of each key's last press; 0 when it is up
    sent,            \* how many bytes there were, typed or answered
    line,            \* bytes on their way
    port,            \* the output buffer, port 0x60, and whether it is full
    irq_enabled,     \* the controller raises IRQ1 for a byte
    \* the I/O APIC's entry for IRQ1 and the local APIC's bits for its vector
    masked, irr, in_service,
    \* the kernel
    pc,              \* where the main flow is
    keyboard_state, key_buffer, buffer_head, buffer_tail, current_key,
    \* for the properties: bytes the boot sequence read; those of them its loops
    \* threw away; keys buffer_push dropped
    taken, drained, lost

deviceVars == <<down, sent, line, port, irq_enabled>>
apicVars == <<masked, irr, in_service>>
bufferVars == <<key_buffer, buffer_head, buffer_tail>>
driverVars == <<keyboard_state, bufferVars, current_key, taken, drained, lost>>
vars == <<deviceVars, apicVars, pc, driverVars>>

NoModifiers == [key \in {KEY_LSHIFT, KEY_RSHIFT, KEY_CAPSLOCK} |-> FALSE]

Init ==
    /\ down = [k \in KeyNames |-> 0] /\ sent = 0 /\ line = <<>>
    /\ port = [full |-> FALSE, byte |-> Ack(0)]
    /\ irq_enabled \in BOOLEAN
    /\ masked = TRUE /\ irr = FALSE /\ in_service = FALSE
    /\ pc = "ioapic_init"
    /\ keyboard_state = NoModifiers
    /\ key_buffer = [s \in Slots |-> NoKey]
    /\ buffer_head = 0 /\ buffer_tail = 0
    /\ current_key = NoKey
    /\ taken = {} /\ drained = {} /\ lost = 0

InterruptsOn == pc \in {"idle", "pop_copy", "pop_advance", "clear_tail"}

-----------------------------------------------------------------------------
(* The keyboard and its controller *)

\* How many of the bytes sent are answers to the boot sequence's commands.
Answers ==
    CASE pc \in {"ioapic_init", "keyboard_init"} -> 0
      [] pc \in {"read_config", "enable"}        -> 1
      [] OTHER                                   -> 2

\* A key goes down, again if it is held, or up.
Type(key, pressed) ==
    /\ sent - Answers < MaxTyped
    /\ pressed \/ down[key] # 0
    /\ sent' = sent + 1
    /\ down' = [down EXCEPT ![key] = IF pressed THEN sent + 1 ELSE 0]
    /\ line' = Append(line, Byte(sent + 1, key, pressed))
    /\ UNCHANGED <<port, irq_enabled, apicVars, pc, driverVars>>

\* The interrupt is edge-triggered: an edge that comes while it is masked is lost.
RaiseIrq == irr' = (irr \/ ~masked) /\ UNCHANGED <<masked, in_service>>

\* The next byte reaches the output buffer.  Reading the buffer empties it but
\* leaves the byte there to be read again.
Load ==
    /\ ~port.full /\ line # <<>>
    /\ port' = [full |-> TRUE, byte |-> Head(line)]
    /\ line' = Tail(line)
    /\ IF irq_enabled THEN RaiseIrq ELSE UNCHANGED apicVars
    /\ UNCHANGED <<down, sent, irq_enabled, pc, driverVars>>

-----------------------------------------------------------------------------
(* Boot, with interrupts off *)

UnmaskIrq1 ==
    /\ pc = "ioapic_init"
    /\ masked' = FALSE
    /\ pc' = "keyboard_init"
    /\ UNCHANGED <<deviceVars, irr, in_service, driverVars>>

bootRest == <<down, keyboard_state, bufferVars, current_key, lost>>

\* inb(0x60): a byte is read during boot, and not by the handler.
TakeByte ==
    /\ port.full
    /\ port' = [port EXCEPT !.full = FALSE]
    /\ taken' = taken \cup {port.byte.id}

\* An iteration of while (inb(0x64) & 0x01) inb(0x60): the byte is thrown away.
Drain == TakeByte /\ drained' = drained \cup {port.byte.id}

\* A command that is answered with a byte.
Ask(answer) == sent' = sent + 1 /\ line' = Append(line, answer)

\* The controller's buffer is drained; then the controller is asked for its
\* configuration.
KeyboardInitDrain ==
    /\ pc = "keyboard_init"
    /\ \/ Drain /\ UNCHANGED <<sent, line, pc>>
       \/ /\ ~port.full /\ Ask(Config(sent + 1)) /\ pc' = "read_config"
          /\ UNCHANGED <<port, taken, drained>>
    /\ UNCHANGED <<irq_enabled, apicVars, bootRest>>

\* The first byte to come is taken for the configuration.
ReadConfig ==
    /\ pc = "read_config"
    /\ TakeByte
    /\ pc' = "enable"
    /\ UNCHANGED <<sent, line, irq_enabled, apicVars, drained, bootRest>>

\* It is written back with the interrupt enabled: the controller raises IRQ1 from
\* now on, at once if its buffer is full.  Then the keyboard is told to scan.
EnableScanning ==
    /\ pc = "enable"
    /\ irq_enabled' = TRUE
    /\ IF port.full /\ ~irq_enabled THEN RaiseIrq ELSE UNCHANGED apicVars
    /\ Ask(Ack(sent + 1))
    /\ pc' = "wait_ack"
    /\ UNCHANGED <<port, taken, drained, bootRest>>

\* One byte is read and taken for the acknowledgement, or none has come when the
\* wait times out.
WaitAck ==
    /\ pc = "wait_ack"
    /\ \/ TakeByte
       \/ ~port.full /\ UNCHANGED <<port, taken>>
    /\ pc' = "driver_init"
    /\ UNCHANGED <<sent, line, irq_enabled, apicVars, drained, bootRest>>

DriverInit ==
    /\ pc = "driver_init"
    /\ buffer_head' = 0 /\ buffer_tail' = 0
    /\ keyboard_state' = NoModifiers
    /\ pc' = "driver_drain"
    /\ UNCHANGED <<deviceVars, apicVars, key_buffer, current_key, taken, drained, lost>>

\* The same loop again.
DriverInitDrain ==
    /\ pc = "driver_drain"
    /\ \/ Drain /\ UNCHANGED pc
       \/ ~port.full /\ pc' = "boot" /\ UNCHANGED <<port, taken, drained>>
    /\ UNCHANGED <<sent, line, irq_enabled, apicVars, bootRest>>

\* The handler is registered, the timer starts, and then: sti.
InterruptsEnable ==
    /\ pc = "boot"
    /\ pc' = "idle"
    /\ UNCHANGED <<deviceVars, apicVars, driverVars>>

-----------------------------------------------------------------------------
(* The interrupt handler *)

\* A bug: a released Shift stays held.
UpdateOnPress(key, pressed) ==
    CASE ~pressed                      -> keyboard_state
      [] key \in {KEY_LSHIFT, KEY_RSHIFT, KEY_CAPSLOCK} ->
             [keyboard_state EXCEPT ![key] = (key = KEY_CAPSLOCK => ~@)]
      [] OTHER                         -> keyboard_state

UpdateModifiers(key, pressed) ==
    CASE key \in {KEY_LSHIFT, KEY_RSHIFT} -> [keyboard_state EXCEPT ![key] = pressed]
      [] key = KEY_CAPSLOCK /\ pressed    -> [keyboard_state EXCEPT ![key] = ~@]
      [] OTHER                            -> keyboard_state

IsShiftPressed(state) == state[KEY_LSHIFT] \/ state[KEY_RSHIFT]

\* CapsLock turns Shift around for letters; the other keys here have no character.
GetAscii(key, state) ==
    IF key # Letter THEN "none"
    ELSE IF IsShiftPressed(state) # state[KEY_CAPSLOCK] THEN "upper" ELSE "lower"

NewKey(byte, state) ==
    [id |-> byte.id, key |-> byte.key, ascii |-> GetAscii(byte.key, state),
     shift_held |-> IsShiftPressed(state), capslock_on |-> state[KEY_CAPSLOCK]]

\* Two bugs: the index is not reduced; the buffer may be full.
PushBeyondEnd(key) ==
    IF buffer_head + 1 # buffer_tail
      THEN /\ key_buffer' = [key_buffer EXCEPT ![buffer_head] = key]
           /\ buffer_head' = buffer_head + 1
           /\ UNCHANGED lost
      ELSE lost' = lost + 1 /\ UNCHANGED <<key_buffer, buffer_head>>
PushAnyway(key) ==
    /\ key_buffer' = [key_buffer EXCEPT ![buffer_head] = key]
    /\ buffer_head' = (buffer_head + 1) % KEYBOARD_BUFFER_SIZE
    /\ UNCHANGED lost

\* A key that finds the buffer full is lost.
BufferPush(key) ==
    LET next_head == (buffer_head + 1) % KEYBOARD_BUFFER_SIZE
    IN  IF next_head # buffer_tail
          THEN /\ key_buffer' = [key_buffer EXCEPT ![buffer_head] = key]
               /\ buffer_head' = next_head
               /\ UNCHANGED lost
          ELSE lost' = lost + 1 /\ UNCHANGED <<key_buffer, buffer_head>>

\* Read the scan code, update the modifiers, keep the key if it went down.
Handle(byte) ==
    /\ port' = [port EXCEPT !.full = FALSE]
    /\ keyboard_state' = UpdateModifiers(byte.key, byte.pressed)
    /\ IF byte.pressed
         THEN BufferPush(NewKey(byte, keyboard_state'))
         ELSE UNCHANGED <<key_buffer, buffer_head, lost>>

\* A bug: no end of interrupt.
HandlerWithoutEoi ==
    /\ InterruptsOn /\ irr /\ ~in_service
    /\ irr' = FALSE
    /\ Handle(port.byte)
    /\ in_service' = TRUE
    /\ UNCHANGED <<down, sent, line, irq_enabled, masked, pc, buffer_tail,
                   current_key, taken, drained>>

\* The processor takes the interrupt; the handler's last call is lapic_send_eoi.
KeyboardDriverHandler ==
    /\ InterruptsOn /\ irr /\ ~in_service
    /\ irr' = FALSE
    /\ Handle(port.byte)
    /\ in_service' = FALSE
    /\ UNCHANGED <<down, sent, line, irq_enabled, masked, pc, buffer_tail,
                   current_key, taken, drained>>

-----------------------------------------------------------------------------
(* Reading keys *)

\* try_get_key finds a key; when it finds none it returns and changes nothing.
PopBegin ==
    /\ pc = "idle"
    /\ buffer_head # buffer_tail
    /\ pc' = "pop_copy"
    /\ UNCHANGED <<deviceVars, apicVars, driverVars>>

\* A bug: the slot after the tail is read.
PopCopyNext ==
    /\ pc = "pop_copy"
    /\ current_key' = key_buffer[(buffer_tail + 1) % KEYBOARD_BUFFER_SIZE]
    /\ pc' = "pop_advance"
    /\ UNCHANGED <<deviceVars, apicVars, keyboard_state, bufferVars, taken, drained, lost>>

PopCopy ==
    /\ pc = "pop_copy"
    /\ current_key' = key_buffer[buffer_tail]
    /\ pc' = "pop_advance"
    /\ UNCHANGED <<deviceVars, apicVars, keyboard_state, bufferVars, taken, drained, lost>>

PopAdvance ==
    /\ pc = "pop_advance"
    /\ buffer_tail' = (buffer_tail + 1) % KEYBOARD_BUFFER_SIZE
    /\ pc' = "idle"
    /\ UNCHANGED <<deviceVars, apicVars, keyboard_state, key_buffer, buffer_head,
                   current_key, taken, drained, lost>>

\* keyboard_clear_buffer resets one index, then the other.
ClearHead ==
    /\ pc = "idle"
    /\ buffer_head' = 0
    /\ pc' = "clear_tail"
    /\ UNCHANGED <<deviceVars, apicVars, keyboard_state, key_buffer, buffer_tail,
                   current_key, taken, drained, lost>>

ClearTail ==
    /\ pc = "clear_tail"
    /\ buffer_tail' = 0
    /\ pc' = "idle"
    /\ UNCHANGED <<deviceVars, apicVars, keyboard_state, key_buffer, buffer_head,
                   current_key, taken, drained, lost>>

-----------------------------------------------------------------------------

Boot ==
    \/ UnmaskIrq1 \/ KeyboardInitDrain \/ ReadConfig \/ EnableScanning \/ WaitAck
    \/ DriverInit \/ DriverInitDrain \/ InterruptsEnable

Reader == PopBegin \/ PopCopy \/ PopAdvance \/ ClearHead \/ ClearTail

Next ==
    \/ \E key \in KeyNames, pressed \in BOOLEAN : Type(key, pressed)
    \/ Load \/ Boot \/ KeyboardDriverHandler \/ Reader

\* Boot goes on by itself, the hardware delivers bytes and interrupts; nobody has
\* to type or to read.
Spec ==
    /\ Init /\ [][Next]_vars
    /\ WF_vars(Boot) /\ WF_vars(Load) /\ WF_vars(KeyboardDriverHandler)

-----------------------------------------------------------------------------
(* Properties *)

KeyRecords ==
    [id : 0 .. MaxTyped + 2, key : KeyNames \cup {"config", "none"}, ascii : {"none", "lower", "upper"},
     shift_held : BOOLEAN, capslock_on : BOOLEAN]

TypeOK ==
    /\ down \in [KeyNames -> 0 .. MaxTyped + 2] /\ sent \in 0 .. MaxTyped + 2
    /\ port.full \in BOOLEAN /\ irq_enabled \in BOOLEAN
    /\ masked \in BOOLEAN /\ irr \in BOOLEAN /\ in_service \in BOOLEAN
    /\ keyboard_state \in [{KEY_LSHIFT, KEY_RSHIFT, KEY_CAPSLOCK} -> BOOLEAN]
    /\ key_buffer \in [Slots -> KeyRecords]
    /\ buffer_head \in Slots /\ buffer_tail \in Slots
    /\ current_key \in KeyRecords
    /\ taken \subseteq 1 .. MaxTyped + 2 /\ drained \subseteq taken /\ lost \in Nat

\* The keys from slot tail up to the head, round the ring.
From(tail) ==
    [n \in 1 .. (buffer_head - tail + KEYBOARD_BUFFER_SIZE) % KEYBOARD_BUFFER_SIZE |->
        key_buffer[(tail + n - 1) % KEYBOARD_BUFFER_SIZE]]

\* What the buffer holds; half way through keyboard_clear_buffer, what it is
\* going to hold.
Contents == From(IF pc = "clear_tail" THEN 0 ELSE buffer_tail)

\* Keys are read in the order in which they were typed, and none twice: what is
\* in the buffer is younger than what was read from it, in ascending order.
InOrder ==
    /\ \A m, n \in 1 .. Len(Contents) : m < n => Contents[m].id < Contents[n].id
    /\ pc # "pop_advance" =>
           \A n \in 1 .. Len(Contents) : current_key.id < Contents[n].id

\* When all that was typed has been handled, the driver knows which Shift keys
\* are held, even if their presses found the buffer full; it may not know of a
\* key that was pressed during boot and is held since.
ModifiersTrue ==
    InterruptsOn /\ line = <<>> /\ ~port.full /\ ~irr =>
        \A key \in KeyNames \cap {KEY_LSHIFT, KEY_RSHIFT} :
            down[key] \notin taken \ {0} => (keyboard_state[key] <=> down[key] # 0)

\* Every byte from the keyboard is read in the end, whenever it was typed: no
\* lost edge leaves the output buffer full for good.
BytesAreRead == (port.full \/ line # <<>>) ~> (~port.full /\ line = <<>>)

\* The driver implements KeyQueue: a key is lost only if SIZE - 1 others wait, or
\* while the buffer is being cleared.
Queue == INSTANCE KeyQueue
    WITH Keys <- KeyRecords, Capacity <- KEYBOARD_BUFFER_SIZE - 1,
         queue <- Contents, got <- current_key, clearing <- (pc = "clear_tail")

ImplementsKeyQueue == Queue!Spec

\* "If the buffer is full the key is lost", and else it is not.
LostOnlyWhenFull ==
    [][lost' # lost => Len(Contents) = KEYBOARD_BUFFER_SIZE - 1]_vars

\* "Clearing the keyboard controller's buffer": a key that the loops of
\* keyboard_init and keyboard_driver_init throw away is not read after all.
DrainedAreGone ==
    \A n \in 1 .. Len(Contents) :
        Contents[n].key \in KeyNames => Contents[n].id \notin drained

=============================================================================
