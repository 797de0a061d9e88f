CONSTANTS
    GLYPH_WIDTH = 1
    GLYPH_HEIGHT = 2
    Glyph <- MCGlyph
    LIMIT = 128
    Framebuffers <- MCFramebuffers
    Memory = 68
    Uarts <- MCUarts
    MaxBytes = 6
    MaxEarly = 2
SPECIFICATION FairPrint
INVARIANTS
    WritesStayInside
    ScreenShowsText
    TerminalShowsText
PROPERTIES
    PrintEnds
