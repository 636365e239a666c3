\* Two cards, one with 1.8 V modes and a cache; a ring of six rows under a screen
\* of three; three frame buffers and three consoles; two writers of one overlay;
\* a key of each kind.
CONSTANTS
  Parts = {"sd", "scroll", "map", "overlay", "keys"}
  Cids = {c1, c2}
  Uhs = {c1}
  Cached = {c1}
  Retries = 2
  ConsoleRows = 3
  Lines = 6
  Logo = 1
  Texts = 9
  MaxEdits = 1
  Fbs = {0, 1, 2}
  Consoles = {1, 2, 3}
  Writers = {w1, w2}
  MaxId = 4
  Keys = {"UP", "LEFT", "RBRACKET", "ENTER", "I"}
  MaxHeld = 2
  MaxMixed = 1
SPECIFICATION KernelSpec
INVARIANTS SameBus OnlyOwnCard FlushIsReal  WindowIsTrue FbsInUse NothingLeaks UpLeavesNothing
PROPERTY InitEnds
