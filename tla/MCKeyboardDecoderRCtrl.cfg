CONSTANTS
    NL = NL
    BS = BS
    NUL = NUL
    NUM_KEYS = 58
    KC_LCTRL = 29
    KC_RCTRL = 97
    KC_LSHIFT = 42
    KC_RSHIFT = 54
    KC_LALT = 56
    KC_RALT = 100
    KC_CAPS_LOCK = 58
    KC_L = 38
    Keys <- MCBothCtrlKeys
    RepeatKeys <- MCNoRepeat
    MaxScan = 2
SPECIFICATION Spec

PROPERTY KeyMeaning
