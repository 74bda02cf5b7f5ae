\* Keys, lines and texts: the services between a keyboard and the screen.
SPECIFICATION MCSpec
CONSTANTS
    Printers = {"p1", "p2"}
    Foreground = {"p1", "p2"}
    TextOf <- PrintedText
    Senders = {"keyDown", "keyRepeat"}
    Chars = {"a"}
    MaxRequests = 3
    KeyCodes = {4, 52, 57, 225}
    MAX_PRESSED = 2
    MaxDowns = 3
    WIDTH = 3
    HEIGHT = 2
    Glyphs = {1, 2}
    Mapped = 9
    WordMod = 14
    MaxWrites = 7
INVARIANTS
    KeyboardSettles
    ConsoleSafe
    HidFollows
    ShowsLastLines
    TextFits
    MsgPackSound
PROPERTY
    ConsoleEnds
CHECK_DEADLOCK FALSE
