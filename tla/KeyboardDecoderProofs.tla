----------------------- MODULE KeyboardDecoderProofs ------------------------
(***************************************************************************)
(* Type correctness of KeyboardDecoder for every keyboard.h: every byte   *)
(* decodes to a kbd_input_t, and the modifier bitset stays a bitset.      *)
(***************************************************************************)
EXTENDS KeyboardDecoder, SequenceTheorems, TLAPS

(* A byte the keyboard has queued, with the input its transition means. *)
ScanRec == [byte : 0 .. 255, meaning : Inputs]

(* keycode_to_modifier yields one bit of kbd_modifiers_t, or none. *)
LEMMA ModifierType ==
    ASSUME NEW k
    PROVE  KeycodeToModifier(k) \subseteq ModBits
    BY DEF KeycodeToModifier, ModBits, KMOD_CAPS

(* The modifier update of process_packet keeps a set of modifier bits. *)
LEMMA NextModifiersType ==
    ASSUME NEW mods \in SUBSET ModBits, NEW p
    PROVE  NextModifiers(mods, p) \subseteq ModBits
<1>1. KeycodeToModifier(p % 128) \subseteq ModBits
    BY ModifierType
<1>2. QED
    BY <1>1 DEF NextModifiers, ToggleModifierBit, SetModifierBit

(* Every entry of the four rows of keycode_map is a character. *)
LEMMA KeycodeMapType ==
    ASSUME NEW t \in 0 .. 3, NEW k \in 0 .. NUM_KEYS - 1
    PROVE  KeycodeMap(t, k) \in Glyphs \cup {NL, BS, NUL}
<1>1. t \in {0, 1, 2, 3}
    OBVIOUS
<1>2. ShiftedIn(t, k) \in BOOLEAN
    <2>1. CASE t = 0  BY <2>1 DEF ShiftedIn
    <2>2. CASE t = 1  BY <2>2 DEF ShiftedIn
    <2>3. CASE t = 2  BY <2>3 DEF ShiftedIn
    <2>4. CASE t = 3  BY <2>4 DEF ShiftedIn
    <2>5. QED  BY <1>1, <2>1, <2>2, <2>3, <2>4
<1>3. Glyph(k, ShiftedIn(t, k)) \in Glyphs
    BY <1>2 DEF Glyphs
<1>4. CASE k = 14  BY <1>4 DEF KeycodeMap
<1>5. CASE k = 28  BY <1>5 DEF KeycodeMap
<1>6. CASE k \in NulKeys /\ k # 14 /\ k # 28  BY <1>6, Zenon DEF KeycodeMap
<1>7. CASE k \notin NulKeys /\ k # 14 /\ k # 28  BY <1>3, <1>7, Zenon DEF KeycodeMap
<1>8. QED  BY <1>4, <1>5, <1>6, <1>7

(* The kbd_input_t that carries an entry of keycode_map. *)
LEMMA CharInputType ==
    ASSUME NEW c \in Glyphs \cup {NL, BS, NUL}
    PROVE  CharInput(c) \in Inputs
    BY DEF Inputs

(* The other two kinds of kbd_input_t. *)
LEMMA OtherInputType ==
    /\ NoInput \in Inputs
    /\ \A k : CtrlInput(KeycodeToCtrl(k)) \in Inputs
    BY DEF Inputs, KeycodeToCtrl

(* keycode_to_input returns a kbd_input_t for every keycode and every     *)
(* combination of modifiers, the ones past the table included.            *)
LEMMA KeycodeToInputType ==
    ASSUME NEW mods, NEW k \in 0 .. 127
    PROVE  KeycodeToInput(mods, k) \in Inputs
<1>1. CASE k >= NUM_KEYS
    BY <1>1, OtherInputType DEF KeycodeToInput
<1>2. CASE k < NUM_KEYS
    <2>1. k \in 0 .. NUM_KEYS - 1
        BY <1>2, DecoderAssumption
    <2>2. /\ CharInput(KeycodeMap(0, k)) \in Inputs
          /\ CharInput(KeycodeMap(1, k)) \in Inputs
          /\ CharInput(KeycodeMap(2, k)) \in Inputs
          /\ CharInput(KeycodeMap(3, k)) \in Inputs
        BY <2>1, KeycodeMapType, CharInputType
    <2>3. ~(k >= NUM_KEYS)
        BY <1>2, DecoderAssumption
    <2>4. CASE GetModifiers(mods) = {}
        BY <2>2, <2>3, <2>4 DEF KeycodeToInput, KMOD_SHIFT, KMOD_CAPS, KMOD_CTRL
    <2>5. CASE GetModifiers(mods) # {} /\ GetModifiers(mods) = KMOD_SHIFT
        BY <2>2, <2>3, <2>5 DEF KeycodeToInput, KMOD_SHIFT, KMOD_CAPS, KMOD_CTRL
    <2>6. CASE GetModifiers(mods) # {} /\ GetModifiers(mods) # KMOD_SHIFT /\ GetModifiers(mods) = KMOD_CAPS
        BY <2>2, <2>3, <2>6 DEF KeycodeToInput, KMOD_SHIFT, KMOD_CAPS, KMOD_CTRL
    <2>7. CASE GetModifiers(mods) # {} /\ GetModifiers(mods) # KMOD_SHIFT /\ GetModifiers(mods) # KMOD_CAPS
               /\ GetModifiers(mods) = KMOD_CAPS \cup KMOD_SHIFT
        BY <2>2, <2>3, <2>7 DEF KeycodeToInput, KMOD_SHIFT, KMOD_CAPS, KMOD_CTRL
    <2>8. CASE GetModifiers(mods) # {} /\ GetModifiers(mods) # KMOD_SHIFT /\ GetModifiers(mods) # KMOD_CAPS
               /\ GetModifiers(mods) # KMOD_CAPS \cup KMOD_SHIFT
        BY <2>3, <2>8, OtherInputType DEF KeycodeToInput, KMOD_SHIFT, KMOD_CAPS, KMOD_CTRL
    <2>9. QED
        BY <2>4, <2>5, <2>6, <2>7, <2>8
<1>3. QED
    BY <1>1, <1>2, DecoderAssumption

(* process_packet returns a kbd_input_t for every byte. *)
LEMMA PacketInputType ==
    ASSUME NEW mods, NEW p \in 0 .. 255
    PROVE  PacketInput(mods, p) \in Inputs
<1>1. p % 128 \in 0 .. 127
    OBVIOUS
<1>2. KeycodeToInput(mods, p % 128) \in Inputs
    BY <1>1, KeycodeToInputType
<1>3. QED
    BY <1>2, OtherInputType DEF PacketInput

(* A make code: one or two bytes, the last one without bit 7. *)
MakeCode(k) == k \in Seq(0 .. 255) /\ Len(k) \in {1, 2} /\ k[Len(k)] \in 0 .. 127

(* The make codes of the modifier keys. *)
LEMMA ModKeysMakeCodes == \A k \in ModKeys : MakeCode(k)
<1>1. /\ MakeCode(LCtrlKey) /\ MakeCode(RCtrlKey) /\ MakeCode(LShiftKey)
      /\ MakeCode(RShiftKey) /\ MakeCode(LAltKey) /\ MakeCode(RAltKey)
      /\ MakeCode(CapsKey)
    BY DEF MakeCode, LCtrlKey, RCtrlKey, LShiftKey, RShiftKey, LAltKey,
           RAltKey, CapsKey
<1>2. QED
    BY <1>1, Zenon DEF ModKeys

(* Every key of the keyboard is a modifier key or a one-byte key below 0x59. *)
LEMMA KeyShape ==
    ASSUME NEW key \in Keys, key \notin ModKeys
    PROVE  \E c \in 1 .. \h58 : key = <<c>>
    BY KeysAssumption

(* The reference meaning of a press is a kbd_input_t for every key of the *)
(* keyboard, whatever is held and whatever the Caps Lock state.            *)
LEMMA RefInputType ==
    ASSUME NEW key \in Keys, NEW dn, NEW caps \in BOOLEAN
    PROVE  RefInput(key, dn, caps) \in Inputs
<1>1. CASE key \in ModKeys
    BY <1>1, OtherInputType DEF RefInput
<1>2. CASE key \notin ModKeys
    <2>1. PICK c \in 1 .. \h58 : key = <<c>>
        BY <1>2, KeyShape
    <2>2. key[1] = c /\ key \notin ModKeys
        BY <1>2, <2>1
    <2>3. CASE c >= NUM_KEYS
        BY <2>2, <2>3, OtherInputType DEF RefInput
    <2>4. CASE c < NUM_KEYS
        <3>1. c \in 0 .. NUM_KEYS - 1
            BY <2>4, DecoderAssumption
        <3>2. \A b \in BOOLEAN : Glyph(c, b) \in Glyphs
            BY <3>1 DEF Glyphs
        <3>3. \A shift \in BOOLEAN :
                 CharInput(RefGlyph(shift, caps, c)) \in Inputs
            <4> TAKE shift \in BOOLEAN
            <4>1. (shift # caps) \in BOOLEAN /\ (shift /\ c \in Shifty) \in BOOLEAN
                OBVIOUS
            <4>2. RefGlyph(shift, caps, c) \in Glyphs \cup {NL, BS, NUL}
                BY <3>2, <4>1 DEF RefGlyph
            <4>3. QED
                BY <4>2, CharInputType
        <3>4. /\ (dn \cap {LShiftKey, RShiftKey} # {}) \in BOOLEAN
              /\ \A v : CtrlInput(IF v THEN "KCTL_CLEAR" ELSE "KCTL_NONE") \in Inputs
            BY DEF Inputs
        <3>5. QED
            BY <2>2, <3>3, <3>4, OtherInputType, Zenon DEF RefInput
    <2>5. QED
        BY <2>3, <2>4, DecoderAssumption
<1>3. QED
    BY <1>1, <1>2

(* Setting bit 7 of a byte below 0x80 gives a byte. *)
LEMMA BreakByte ==
    ASSUME NEW b \in 0 .. 127
    PROVE  b + 128 \in 0 .. 255
    OBVIOUS

(* The make code of every key, and its break code, are bytes. *)
LEMMA KeyBytes ==
    ASSUME NEW key \in Keys
    PROVE  /\ key \in Seq(0 .. 255)
           /\ BreakCode(key) \in Seq(0 .. 255)
<1>1. MakeCode(key)
    <2>1. CASE key \in ModKeys
        BY <2>1, ModKeysMakeCodes
    <2>2. CASE key \notin ModKeys
        <3>1. PICK c \in 1 .. \h58 : key = <<c>>
            BY <2>2, KeyShape
        <3>2. QED
            BY <3>1 DEF MakeCode
    <2>3. QED
        BY <2>1, <2>2
<1>2. key \in Seq(0 .. 255) /\ Len(key) \in {1, 2} /\ key[Len(key)] \in 0 .. 127
    BY <1>1, Zenon DEF MakeCode
<1>3. Len(key) \in 1 .. Len(key) /\ key[Len(key)] + 128 \in 0 .. 255
    <2>0. Len(key) \in {1, 2}
        BY <1>2, Zenon
    <2>1. Len(key) \in 1 .. Len(key)
        BY <2>0
    <2>2. PICK b \in 0 .. 127 : b = key[Len(key)]
        BY <1>2, Zenon
    <2>3. b + 128 \in 0 .. 255
        BY BreakByte
    <2>4. QED
        BY <2>1, <2>2, <2>3, Zenon
<1>4. QED
    BY <1>2, <1>3, ExceptSeq DEF BreakCode

(* A function on 1 .. n is a sequence. *)
LEMMA FunctionIsSeq ==
    ASSUME NEW S, NEW n \in Nat, NEW f \in [1 .. n -> S]
    PROVE  f \in Seq(S)
    OBVIOUS

(* What the keyboard queues is a sequence of bytes with their meanings. *)
LEMMA SendType ==
    ASSUME scan \in Seq(ScanRec), NEW bytes \in Seq(0 .. 255),
           NEW meaning \in Inputs, Send(bytes, meaning)
    PROVE  scan' \in Seq(ScanRec)
<1> DEFINE q == [j \in 1 .. Len(bytes) |->
                   [byte |-> bytes[j],
                    meaning |-> IF j = Len(bytes) THEN meaning ELSE NoInput]]
<1>1. Len(bytes) \in Nat /\ \A j \in 1 .. Len(bytes) : bytes[j] \in 0 .. 255
    BY LenProperties
<1>2. q \in [1 .. Len(bytes) -> ScanRec]
    BY <1>1, OtherInputType DEF ScanRec, q
<1>5. q \in Seq(ScanRec)
    BY <1>1, <1>2, FunctionIsSeq
<1>3. scan' = scan \o q
    BY DEF Send, q
<1>4. QED
    BY <1>5, <1>3, ConcatProperties

-----------------------------------------------------------------------------
(* The initial state of keyboard.c and of the keyboard is well typed. *)
LEMMA InitType == Init => TypeOK
<1> SUFFICES ASSUME Init PROVE TypeOK
    OBVIOUS
<1>1. scan \in Seq([byte : 0 .. 255, meaning : Inputs])
    BY EmptySeq DEF Init
<1>2. input \in Inputs
    BY OtherInputType DEF Init
<1>3. packet \in 0 .. 255
    BY DEF Init
<1>4. QED
    BY <1>1, <1>2, <1>3 DEF Init, TypeOK

(* Each of the four steps keeps every variable in its type. *)
LEMMA NextType == TypeOK /\ [Next]_vars => TypeOK'
<1> SUFFICES ASSUME TypeOK, [Next]_vars PROVE TypeOK'
    OBVIOUS
<1>0. scan \in Seq(ScanRec)
    BY DEF TypeOK, ScanRec
<1>1. ASSUME NEW key \in Keys, Press(key) PROVE TypeOK'
    <2>1. RefInput(key, down, capsOn) \in Inputs
        BY RefInputType DEF TypeOK
    <2>2. scan' \in Seq(ScanRec)
        BY <1>0, <1>1, <2>1, KeyBytes, SendType DEF Press
    <2>3. QED
        BY <1>1, <2>2 DEF Press, TypeOK, ScanRec
<1>2. ASSUME NEW key \in Keys, Release(key) PROVE TypeOK'
    <2>1. scan' \in Seq(ScanRec)
        BY <1>0, <1>2, KeyBytes, OtherInputType, SendType DEF Release
    <2>2. QED
        BY <1>2, <2>1 DEF Release, TypeOK, ScanRec
<1>3. ASSUME NEW key \in Keys, Repeat(key) PROVE TypeOK'
    <2>1. RefInput(key, down, capsOn) \in Inputs
        BY RefInputType DEF TypeOK
    <2>2. scan' \in Seq(ScanRec)
        BY <1>0, <1>3, <2>1, KeyBytes, SendType DEF Repeat
    <2>3. QED
        BY <1>3, <2>2 DEF Repeat, TypeOK, ScanRec
<1>4. ASSUME KeyboardIrq PROVE TypeOK'
    <2>1. Head(scan) \in ScanRec /\ Tail(scan) \in Seq(ScanRec)
        BY <1>0, <1>4, HeadTailProperties DEF KeyboardIrq
    <2>2. packet' \in 0 .. 255
        BY <1>4, <2>1 DEF KeyboardIrq, ScanRec
    <2>3. modifiers' \subseteq ModBits
        BY <1>4, <2>2, NextModifiersType DEF KeyboardIrq, TypeOK
    <2>4. input' \in Inputs
        BY <1>4, <2>2, PacketInputType DEF KeyboardIrq
    <2>5. QED
        BY <1>4, <2>1, <2>2, <2>3, <2>4 DEF KeyboardIrq, TypeOK, ScanRec
<1>5. CASE UNCHANGED vars
    BY <1>5 DEF vars, TypeOK
<1>6. QED
    BY <1>1, <1>2, <1>3, <1>4, <1>5 DEF Next

(* Type correctness of the decoder: modifiers is always a set of the bits *)
(* of kbd_modifiers_t, every packet handle_keyboard_irq reads is a byte,   *)
(* and every kbd_input_t process_packet hands to the terminal is a NONE,   *)
(* a CHAR of keycode_map or a CTRL, for every keyboard.h and every         *)
(* sequence of presses, releases and repeats.                              *)
THEOREM TypeCorrect == Spec => []TypeOK
    BY InitType, NextType, PTL DEF Spec

=============================================================================
