------------------------------- MODULE Kernel -------------------------------
(***************************************************************************)
(* Five parts of the kernel tree, of which a run takes those in Parts: the *)
(* SD card driver (SdCard), the scrollback of the framebuffer console      *)
(* (Scrollback), its map of consoles (FbMap), device-tree overlays in      *)
(* configfs (OverlayItem) and the keyboard driver for firmware 1.2         *)
(* (OldKbd).  They share nothing; a behaviour is one of one part, and the  *)
(* variables of the others stay as they start.                             *)
(***************************************************************************)
EXTENDS SdCard

CONSTANTS Parts,                                    \* of "sd", "scroll", "map", "overlay", "keys"
          ConsoleRows, Lines, Logo, Texts, MaxEdits,  \* of Scrollback
          Fbs, Consoles,                            \* of FbMap
          Writers, MaxId,                           \* of OverlayItem
          Keys, MaxHeld, MaxMixed                   \* of OldKbd

ASSUME ConsolesAssumption ==
  Fbs \subseteq Nat /\ Consoles \subseteq Nat /\ Consoles # {}

\* A logo higher than the screen is not shown (fbcon.c:658).
ASSUME RowsAssumption ==
  /\ Lines \in Nat \ {0} /\ ConsoleRows \in Nat \ {0}
  /\ Logo \in 0..ConsoleRows
  /\ Texts \in Nat /\ Texts >= ConsoleRows

VARIABLES
  part,
  on, in, top, curr, softback_lines, ring, screen, shown, logo, deccm, last,
  left, gone, since, edits, astray,
  registered, info_idx, con2fb_map, con2fb_map_boot, opens, driver, bound,
  fbcon_has_console_bind, leaving, unbind_raced, rebound,
  item, path, fw, dtbo, ov_id, pc, loaded, applied, next, raced, half, refused,
  held, phy_SHR, phy_SHL, alt, mouse_mode, mouse_move_dir, virtual_INS,
  keycode2_pressed, down, seen, mixed

Scroll == INSTANCE Scrollback WITH Rows <- ConsoleRows
Map == INSTANCE FbMap WITH raced <- unbind_raced
Overlay == INSTANCE OverlayItem
Kbd == INSTANCE OldKbd

storing == vars
scrolling == <<on, in, top, curr, softback_lines, ring, screen, shown, logo,
               deccm, last, left, gone, since, edits, astray>>
mapping == <<registered, info_idx, con2fb_map, con2fb_map_boot, opens, driver,
             bound, fbcon_has_console_bind, leaving, unbind_raced, rebound>>
overlaying == <<item, path, fw, dtbo, ov_id, pc, loaded, applied, next, raced,
                half, refused>>
typing == <<held, phy_SHR, phy_SHL, alt, mouse_mode, mouse_move_dir, virtual_INS,
            keycode2_pressed, down, seen, mixed>>
everything == <<part, storing, scrolling, mapping, overlaying, typing>>

KernelInit ==
  /\ part \in Parts
  /\ Init /\ (part # "sd" => slot = None /\ ~host.spi /\ ~host.uhs)
  /\ Scroll!Init /\ (part # "scroll" => ~logo)
  /\ Map!Init /\ Overlay!Init /\ Kbd!Init

SdStep(A) ==
  part = "sd" /\ A /\ UNCHANGED <<part, scrolling, mapping, overlaying, typing>>
ScrollStep(A) ==
  part = "scroll" /\ A /\ UNCHANGED <<part, storing, mapping, overlaying, typing>>
MapStep(A) ==
  part = "map" /\ A /\ UNCHANGED <<part, storing, scrolling, overlaying, typing>>
OverlayStep(A) ==
  part = "overlay" /\ A /\ UNCHANGED <<part, storing, scrolling, mapping, typing>>
KeyStep(A) ==
  part = "keys" /\ A /\ UNCHANGED <<part, storing, scrolling, mapping, overlaying>>

\* A machine that was shut down stops, and what follows one of the exceptions of
\* FbMap is not explored.
AtRest ==
  /\ \/ part = "sd" /\ op.name = "down"
     \/ part = "map" /\ (unbind_raced \/ rebound)
  /\ UNCHANGED everything

KernelNext ==
  \/ SdStep(Next) \/ ScrollStep(Scroll!Next) \/ MapStep(Map!Next)
  \/ OverlayStep(Overlay!Next) \/ KeyStep(Kbd!Next)
  \/ AtRest

\* The fairness of the SD card's driver; the others need none.
KernelSpec ==
  /\ KernelInit /\ [][KernelNext]_everything
  /\ WF_everything(SdStep(Command))

-----------------------------------------------------------------------------
(* The properties of the parts, beside those of SdCard. *)

\* The ring holds the rows that were scrolled up and out, and with the screen the
\* lines printed since the last other change, in order and with none missing
\* (fbcon.c:1836-1859, 1926-2118, 2894-2923).
HistoryInOrder == Scroll!HistoryInOrder

\* A removed item leaves nothing behind but an overlay that was half applied or
\* refused to go, unless two processes wrote it at once (configfs.c:56-97, 140-191).
NothingLeaks == Overlay!NothingLeaks

\* The frame buffer shows the window softback_lines above the screen, unless a
\* program prints with the cursor off into a scrolled back window, and selections
\* and redraws walk over its rows (fbcon.c:1365-1396, 1604-1695, 2806-2862).
WindowIsTrue == Scroll!WindowIsTrue

\* A frame buffer is open, once, exactly while a console of the bound driver is
\* mapped to it, and a bound console is drawn on one that exists, with two
\* exceptions (fbcon.c:712-762, 848-902, 1204-1226, 3159-3250).
FbsInUse == Map!FbsInUse

\* In the old keyboard driver a key that is up has left nothing down, unless the
\* mode or the shifts it was pressed under changed, for the keys whose branch
\* looks at them again (its picocalc_kbd.c:274-311, 331-434, 441-483).
UpLeavesNothing == Kbd!UpLeavesNothing
=============================================================================
