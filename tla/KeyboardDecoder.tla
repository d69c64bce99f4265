--------------------------- MODULE KeyboardDecoder ---------------------------
(***************************************************************************)
(* The keyboard scancode decoder of student-distrib/keyboard.c.           *)
(*                                                                         *)
(* handle_keyboard_irq reads one byte from the keyboard port and hands it *)
(* to process_packet, which updates the modifier bitset and returns a     *)
(* kbd_input_t for terminal_handle_input.  The decoder runs inside the    *)
(* keyboard IRQ callback, behind an interrupt gate, so each packet is one *)
(* atomic step.                                                            *)
(*                                                                         *)
(* A character of keycode_map is abstracted to the physical key it sits   *)
(* on and whether it is the key's shifted glyph ('A' rather than 'a', '!' *)
(* rather than '1'); '\n', '\b' and '\0' stay themselves, because the     *)
(* line discipline treats them apart.                                      *)
(*                                                                         *)
(* The packets come from a PS/2 keyboard in scan code set 1, modelled as *)
(* the keys held and the bytes sent but not yet read; Right Ctrl and      *)
(* Right Alt send two bytes each (E0 1D, E0 38).                          *)
(***************************************************************************)
EXTENDS Integers, Sequences

CONSTANTS
    NL, BS, NUL,            \* '\n', '\b', '\0'
    NUM_KEYS,               \* second dimension of keycode_map (keyboard.h)
    KC_LCTRL, KC_RCTRL, KC_LSHIFT, KC_RSHIFT, KC_LALT, KC_RALT,
    KC_CAPS_LOCK, KC_L,     \* keycodes of keyboard.h
    Keys,                   \* physical keys of the modelled keyboard
    RepeatKeys,             \* the keys whose typematic repeat is modelled
    MaxScan                 \* bytes the keyboard may have queued

ModKeycodes == {KC_LCTRL, KC_RCTRL, KC_LSHIFT, KC_RSHIFT, KC_LALT, KC_RALT,
                KC_CAPS_LOCK}

ASSUME DecoderAssumption ==
    /\ NUM_KEYS \in 58 .. 128
    /\ ModKeycodes \cup {KC_L} \subseteq 0 .. 127
    /\ KC_L \notin ModKeycodes
    /\ MaxScan \in Nat \ {0}

(* The bits of kbd_modifiers_t. *)
ModBits == {"LCTRL", "RCTRL", "LSHIFT", "RSHIFT", "LALT", "RALT", "CAPS"}
KMOD_CTRL  == {"LCTRL", "RCTRL"}
KMOD_SHIFT == {"LSHIFT", "RSHIFT"}
KMOD_ALT   == {"LALT", "RALT"}
KMOD_CAPS  == {"CAPS"}

-----------------------------------------------------------------------------
(* keycode_map.  Letters are the keys whose Caps row differs from the     *)
(* neutral row; Shifty the keys whose Shift row does; NulKeys the '\0'    *)
(* entries, the zero-filled tail past the 58 initialisers included.       *)
Letters == (16 .. 25) \cup (30 .. 38) \cup (44 .. 50)
Shifty  == (2 .. 13) \cup (16 .. 27) \cup (30 .. 41) \cup (43 .. 53)
NulKeys == {0, 1, 29, 42, 54, 56} \cup (58 .. NUM_KEYS - 1)

(* Whether row t of keycode_map holds the shifted glyph of key k:         *)
(* 0 neutral, 1 Shift, 2 Caps, 3 Shift and Caps.                           *)
ShiftedIn(t, k) ==
    CASE t = 0 -> FALSE
      [] t = 1 -> k \in Shifty
      [] t = 2 -> k \in Letters
      [] t = 3 -> k \in Shifty \ Letters

Glyph(k, shifted) == [key |-> k, shifted |-> shifted]
Glyphs == {Glyph(k, s) : k \in 0 .. NUM_KEYS - 1, s \in BOOLEAN}

(* A shifted-glyph mutant of row 3: Shift and Caps give capitals. *)
KeycodeMapCapsShiftUpper(t, k) ==
    CASE k = 14 -> BS
      [] k = 28 -> NL
      [] k \in NulKeys -> NUL
      [] OTHER -> Glyph(k, IF t = 3 THEN k \in Shifty ELSE ShiftedIn(t, k))

KeycodeMap(t, k) ==
    CASE k = 14 -> BS
      [] k = 28 -> NL
      [] k \in NulKeys -> NUL
      [] OTHER -> Glyph(k, ShiftedIn(t, k))

(* kbd_input_t. *)
NoInput == [type |-> "KTYP_NONE"]
CharInput(c) == [type |-> "KTYP_CHAR", character |-> c]
CtrlInput(k) == [type |-> "KTYP_CTRL", control |-> k]
Inputs == {NoInput}
          \cup {CharInput(c) : c \in Glyphs \cup {NL, BS, NUL}}
          \cup {CtrlInput(k) : k \in {"KCTL_NONE", "KCTL_CLEAR"}}

KeycodeToModifier(k) ==
    CASE k = KC_LCTRL     -> {"LCTRL"}
      [] k = KC_RCTRL     -> {"RCTRL"}
      [] k = KC_LSHIFT    -> {"LSHIFT"}
      [] k = KC_RSHIFT    -> {"RSHIFT"}
      [] k = KC_LALT      -> {"LALT"}
      [] k = KC_RALT      -> {"RALT"}
      [] k = KC_CAPS_LOCK -> KMOD_CAPS
      [] OTHER            -> {}

KeycodeToCtrl(k) == IF k = KC_L THEN "KCTL_CLEAR" ELSE "KCTL_NONE"

(* get_modifiers: either side of a pair sets both bits. *)
Consolidate(mods, pair) == IF mods \cap pair # {} THEN pair ELSE {}

GetModifiers(mods) ==
    mods \cup Consolidate(mods, KMOD_CTRL) \cup Consolidate(mods, KMOD_SHIFT)
         \cup Consolidate(mods, KMOD_ALT)

(* A mutant without the range check: F1 and beyond index past the rows. *)
KeycodeToInputNoRangeCheck(mods, k) ==
    LET m == GetModifiers(mods)
    IN  CASE m = {}                         -> CharInput(KeycodeMap(0, k))
          [] m = KMOD_SHIFT                 -> CharInput(KeycodeMap(1, k))
          [] OTHER                          -> NoInput

(* keycode_to_input: the switch on the consolidated combination. *)
KeycodeToInput(mods, k) ==
    LET m == GetModifiers(mods)
    IN  IF k >= NUM_KEYS THEN NoInput
        ELSE CASE m = {}                        -> CharInput(KeycodeMap(0, k))
               [] m = KMOD_SHIFT                -> CharInput(KeycodeMap(1, k))
               [] m = KMOD_CAPS                 -> CharInput(KeycodeMap(2, k))
               [] m = KMOD_CAPS \cup KMOD_SHIFT -> CharInput(KeycodeMap(3, k))
               [] m \in {KMOD_CTRL, KMOD_CAPS \cup KMOD_CTRL}
                                                -> CtrlInput(KeycodeToCtrl(k))
               [] OTHER                         -> NoInput

SetModifierBit(mods, bit, mask) ==
    IF bit THEN mods \cup mask ELSE mods \ mask

ToggleModifierBit(mods, mask) == (mods \ mask) \cup (mask \ mods)

(* A mutant that toggles Caps Lock on release as well as on press. *)
NextModifiersCapsBothEdges(mods, p) ==
    LET mod == KeycodeToModifier(p % 128)
    IN  IF mod = {} THEN mods
        ELSE IF mod = KMOD_CAPS THEN ToggleModifierBit(mods, mod)
        ELSE SetModifierBit(mods, p < 128, mod)

(* The modifier update of process_packet: Caps Lock toggles on a press,  *)
(* the other modifiers follow the status bit.                             *)
NextModifiers(mods, p) ==
    LET mod == KeycodeToModifier(p % 128)
    IN  IF mod = {} THEN mods
        ELSE IF mod = KMOD_CAPS
             THEN IF p < 128 THEN ToggleModifierBit(mods, mod) ELSE mods
        ELSE SetModifierBit(mods, p < 128, mod)

(* The kbd_input_t process_packet returns. *)
PacketInput(mods, p) ==
    IF KeycodeToModifier(p % 128) = {} /\ p < 128
    THEN KeycodeToInput(mods, p % 128)
    ELSE NoInput

-----------------------------------------------------------------------------
(* The keyboard.  A key is its set-1 make code, the bytes it sends when *)
(* pressed; its break code has bit 7 of the last byte set.  Right Ctrl    *)
(* and Right Alt are sent behind the E0 prefix.                            *)
LCtrlKey  == <<\h1D>>
RCtrlKey  == <<\hE0, \h1D>>
LShiftKey == <<\h2A>>
RShiftKey == <<\h36>>
LAltKey   == <<\h38>>
RAltKey   == <<\hE0, \h38>>
CapsKey   == <<\h3A>>
ModKeys == {LCtrlKey, RCtrlKey, LShiftKey, RShiftKey, LAltKey, RAltKey, CapsKey}

BreakCode(key) == [key EXCEPT ![Len(key)] = key[Len(key)] + 128]

ASSUME KeysAssumption ==
    /\ Keys \subseteq ModKeys \cup {<<k>> : k \in 1 .. \h58 \ {\h1D, \h2A,
                                               \h36, \h38, \h3A}}
    /\ RepeatKeys \subseteq Keys

(* What a press of key means (section 4.3), from the modifier keys held   *)
(* and the Caps Lock state when it was pressed.                            *)
RefGlyph(shift, caps, k) ==
    CASE k = 14 -> BS
      [] k = 28 -> NL
      [] k \in NulKeys -> NUL
      [] k \in Letters -> Glyph(k, shift # caps)
      [] OTHER -> Glyph(k, shift /\ k \in Shifty)

RefInput(key, down, caps) ==
    LET ctrl  == down \cap {LCtrlKey, RCtrlKey} # {}
        shift == down \cap {LShiftKey, RShiftKey} # {}
        alt   == down \cap {LAltKey, RAltKey} # {}
        k     == key[1]
    IN  IF key \in ModKeys \/ k >= NUM_KEYS \/ alt \/ (ctrl /\ shift)
        THEN NoInput
        ELSE IF ctrl
        THEN CtrlInput(IF k = KC_L THEN "KCTL_CLEAR" ELSE "KCTL_NONE")
        ELSE CharInput(RefGlyph(shift, caps, k))

-----------------------------------------------------------------------------
VARIABLES
    modifiers,  \* the static kbd_modifiers_t of keyboard.c
    packet,     \* the byte handle_keyboard_irq last read
    input,      \* the kbd_input_t it passed to the terminal
    down,       \* physical keys held
    capsOn,     \* the Caps Lock state of the keyboard's user
    scan        \* bytes sent, not yet read: [byte, meaning]

vars == <<modifiers, packet, input, down, capsOn, scan>>

(* A queued byte carries the meaning of the transition that sent it: the *)
(* input a press means, or no input for a release or a modifier key.     *)
Send(bytes, meaning) ==
    scan' = scan \o [j \in 1 .. Len(bytes) |->
                        [byte |-> bytes[j],
                         meaning |-> IF j = Len(bytes) THEN meaning
                                     ELSE NoInput]]

Init ==
    /\ modifiers = {}
    /\ packet = 0
    /\ input = NoInput
    /\ down = {}
    /\ capsOn = FALSE
    /\ scan = <<>>

Press(key) ==
    /\ key \notin down
    /\ Len(scan) + Len(key) <= MaxScan
    /\ down' = down \cup {key}
    /\ capsOn' = (capsOn # (key = CapsKey))
    /\ Send(key, RefInput(key, down, capsOn))
    /\ UNCHANGED <<modifiers, packet, input>>

Release(key) ==
    /\ key \in down
    /\ Len(scan) + Len(BreakCode(key)) <= MaxScan
    /\ down' = down \ {key}
    /\ Send(BreakCode(key), NoInput)
    /\ UNCHANGED <<modifiers, packet, input, capsOn>>

(* Typematic repeat: a held key sends its make code again.  It types the *)
(* key again, and changes no modifier state: Caps Lock is still held.    *)
Repeat(key) ==
    /\ key \in down \cap RepeatKeys
    /\ Len(scan) + Len(key) <= MaxScan
    /\ Send(key, RefInput(key, down, capsOn))
    /\ UNCHANGED <<modifiers, packet, input, down, capsOn>>

(* handle_keyboard_irq: inb, then process_packet. *)
KeyboardIrq ==
    /\ scan # <<>>
    /\ packet' = Head(scan).byte
    /\ modifiers' = NextModifiers(modifiers, packet')
    /\ input' = PacketInput(modifiers, packet')
    /\ scan' = Tail(scan)
    /\ UNCHANGED <<down, capsOn>>

Next ==
    \/ \E key \in Keys : Press(key) \/ Release(key) \/ Repeat(key)
    \/ KeyboardIrq

Spec == Init /\ [][Next]_vars

-----------------------------------------------------------------------------
(* Every variable holds a value of its type. *)
TypeOK ==
    /\ modifiers \subseteq ModBits
    /\ packet \in 0 .. 255
    /\ input \in Inputs
    /\ down \subseteq Keys
    /\ capsOn \in BOOLEAN
    /\ scan \in Seq([byte : 0 .. 255, meaning : Inputs])

(* Every byte the keyboard IRQ handler decodes yields the input that the  *)
(* key transition which sent it means: the character of the table row     *)
(* for the Shift and Caps Lock state the user had, Ctrl+L and the other   *)
(* Ctrl keys as control sequences, nothing for releases, modifier keys,   *)
(* Alt and Ctrl+Shift combinations.  process_packet decides from the      *)
(* modifier bitset it has built up from all earlier packets.              *)
KeyMeaning == [][KeyboardIrq => input' = Head(scan).meaning]_vars

=============================================================================
