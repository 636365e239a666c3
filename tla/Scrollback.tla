----------------------------- MODULE Scrollback -----------------------------
(***************************************************************************)
(* The software scrollback of the framebuffer console (fbcon.c, put back   *)
(* into the 6.1 kernel by this repository): the rows scrolled up go into a *)
(* ring, and the user scrolls a window over the ring and the screen.       *)
(* Lengths and addresses are in rows: softback_buf is 0 and softback_end is*)
(* Lines.  A line of text is a number, successive lines having successive  *)
(* numbers modulo Texts.                                                   *)
(*                                                                         *)
(* The virtual terminal (vt.c, outside this code) hides the cursor, then   *)
(* scrolls a region of the screen by less than its height, or writes.      *)
(* Hiding the cursor is what brings the window back to the screen; a       *)
(* program that turned the cursor off ("deccm") escapes it: once it has    *)
(* printed into a scrolled back window (astray), softback_lines no longer  *)
(* says where the window is, and what follows is not explored up to the    *)
(* next switch.                                                            *)
(***************************************************************************)
EXTENDS Integers

CONSTANTS
  Rows,       \* vc_rows
  Lines,      \* rows of the ring
  Logo,       \* logo_lines
  Texts,      \* lines of text before their numbers repeat
  MaxEdits    \* bound on what a behaviour does other than print lines

VARIABLES
  on,                       \* softback_top # 0
  in, top, curr,            \* softback_in, softback_top, softback_curr
  softback_lines,
  ring, screen,             \* the text of the ring and of the console
  shown,                    \* what the frame buffer shows
  logo,                     \* logo_shown >= 0: the top of the screen is taken
  deccm,                    \* the cursor is visible
  last,                     \* the newest line
  left, gone,               \* ghosts: how many rows should be in the ring, and
                            \* which, from the newest
  since,                    \* ghost: lines printed since the last edit and kept
  edits,                    \* edits so far
  astray                    \* ghost: printed into a scrolled back window

pointers == <<in, top, curr, softback_lines>>
history == <<left, gone, since>>
vars == <<on, pointers, ring, screen, shown, logo, deccm, last, history, edits, astray>>

Blank == 0
Row == 1..Rows
Back(p, k) == (p + Lines - k) % Lines
Next1(p) == (p + 1) % Lines
AtMost(n, most) == IF n <= most THEN n ELSE most
Held == (in + Lines - top) % Lines
Above == IF logo THEN Logo ELSE 0

TypeOK ==
  /\ on \in BOOLEAN /\ logo \in BOOLEAN /\ deccm \in BOOLEAN /\ astray \in BOOLEAN
  /\ in \in 0..(Lines - 1) /\ top \in 0..(Lines - 1) /\ curr \in 0..(Lines - 1)
  /\ softback_lines \in 0..(Lines - 1)
  /\ ring \in [0..(Lines - 1) -> 0..Texts]
  /\ screen \in [Row -> 0..Texts] /\ shown \in [Row -> 0..Texts]
  /\ last \in 1..Texts /\ left \in 0..(Lines - 1)
  /\ gone \in [1..(Lines - 1) -> 0..Texts] /\ since \in 0..(Rows + Lines - 1)
  /\ edits \in 0..MaxEdits

\* fbcon_startup and the first switch: an empty ring; the logo may be shown
\* above the text.
Init ==
  /\ on = TRUE
  /\ in = 0 /\ top = 0 /\ curr = 0 /\ softback_lines = 0
  /\ ring = [i \in 0..(Lines - 1) |-> Blank]
  /\ logo \in BOOLEAN
  /\ screen = [r \in Row |-> IF logo /\ r <= Logo THEN Blank ELSE r]
  /\ shown = screen
  /\ deccm = TRUE
  /\ last = Rows
  /\ left = 0 /\ gone = [k \in 1..(Lines - 1) |-> Blank] /\ since = Rows - Above
  /\ edits = 0
  /\ astray = FALSE

\* Row r of the window that starts at row c of the ring: the walk of both
\* pointers of fbcon_redraw_softback, from the ring into the screen.
View(c, i, buf, scr, r) ==
  LET d == (i + Lines - c) % Lines
  IN IF r <= d THEN buf[(c + r - 1) % Lines] ELSE scr[r - d]

-----------------------------------------------------------------------------
(* fbcon_redraw_softback, on a window w: the pointers and what they show *)

Window == [in |-> in, top |-> top, curr |-> curr, lines |-> softback_lines,
           screen |-> screen, shown |-> shown, left |-> left]

\* The step leaves the window w.
Becomes(w) ==
  /\ in' = w.in /\ top' = w.top /\ curr' = w.curr /\ softback_lines' = w.lines
  /\ screen' = w.screen /\ shown' = w.shown /\ left' = w.left

\* Seeded fault: a window stopped at the oldest line counts the rows it was
\* asked to move.
Stopped_Uncounted(w, asked, n) == [w EXCEPT !.curr = w.top, !.lines = asked]

\* Stopped at the oldest line: the rows that are not there are not counted.
Stopped(w, asked, n) ==
  [w EXCEPT !.curr = w.top, !.lines = asked - (w.top - n)]

\* softback_curr and softback_lines after a move by delta.
Moved(w, delta) ==
  LET n == w.curr + delta
      lines == w.lines - delta
      To(c) == [w EXCEPT !.curr = c, !.lines = lines]
      bottom == [w EXCEPT !.curr = w.in, !.lines = 0]
  IN CASE delta < 0 /\ w.curr < w.top /\ n < 0 ->
            IF n + Lines < w.top THEN Stopped(w, lines, n + Lines)
            ELSE To(n + Lines)
       [] delta < 0 /\ w.curr >= w.top /\ n < w.top -> Stopped(w, lines, n)
       [] delta >= 0 /\ w.curr > w.in /\ n >= Lines ->
            IF n - Lines > w.in THEN bottom ELSE To(n - Lines)
       [] delta >= 0 /\ w.curr <= w.in /\ n > w.in -> bottom
       [] OTHER -> To(n)

\* Only the rows whose text changes are drawn.
Move(w, delta) ==
  LET m == Moved(w, delta)
      Old(r) == View(w.curr, w.in, ring, w.screen, r)
      New(r) == View(m.curr, m.in, ring, m.screen, r)
  IN [m EXCEPT !.shown =
        [r \in Row |-> IF New(r) = Old(r) THEN w.shown[r] ELSE New(r)]]

\* fbcon_set_origin: the window is back on the screen.
Home(w) == IF w.lines # 0 THEN Move(w, w.lines) ELSE w

-----------------------------------------------------------------------------
(* fbcon_scrolldelta *)

\* The logo goes at the first move: its rows take back the newest lines of
\* the ring.
Taken == IF logo THEN AtMost(Held, Logo) ELSE 0

NoLogo(w) ==
  LET taken == AtMost((w.in + Lines - w.top) % Lines, Logo)
      scr == [r \in Row |->
                IF r <= Logo /\ r > Logo - taken
                THEN ring[Back(w.in, Logo - r + 1)] ELSE w.screen[r]]
  IN [w EXCEPT !.in = Back(w.in, taken), !.curr = Back(w.in, taken),
               !.screen = scr,
               !.shown = [r \in Row |-> IF r <= Logo THEN scr[r] ELSE w.shown[r]],
               !.left = w.left - taken]

Scrolldelta(delta) ==
  /\ on /\ delta # 0 /\ ~astray
  /\ Becomes(Move(IF logo THEN NoLogo(Window) ELSE Window, delta))
  /\ gone' = [k \in 1..(Lines - 1) |->
                IF k + Taken < Lines THEN gone[k + Taken] ELSE Blank]
  /\ logo' = FALSE
  /\ UNCHANGED <<on, ring, deccm, last, since, edits, astray>>

-----------------------------------------------------------------------------
(* fbcon_softback_note, one row at a time *)

\* Seeded fault: the oldest line is not given up when the ring is full.
Pushed_KeepsTop(s, text) ==
  [s EXCEPT !.ring[s.in] = text, !.in = Next1(s.in)]

Pushed(s, text) ==
  LET i == Next1(s.in)
  IN [ring |-> [s.ring EXCEPT ![s.in] = text],
      in |-> i,
      top |-> IF i = s.top THEN Next1(s.top) ELSE s.top]

\* The rows after t go in, "count" of them, from the top.
Noted(t, count) ==
  LET note[k \in 0..count] ==
        IF k = 0 THEN [ring |-> ring, in |-> in, top |-> top]
        ELSE Pushed(note[k - 1], screen[t + k])
  IN note[count]

-----------------------------------------------------------------------------
(* fbcon_scroll and what the terminal writes *)

\* fbcon_cursor(CM_ERASE): the window goes home if the cursor is visible.
Hidden == IF deccm THEN Home(Window) ELSE Window

\* The rows in fresh are cleared or written; of those moved, fbcon_redraw draws
\* what changes.
Drawn(w, scr, fresh) ==
  [w EXCEPT !.screen = scr,
     !.shown = [r \in Row |-> IF r \notin fresh /\ scr[r] = screen[r] THEN w.shown[r]
                             ELSE scr[r]]]

Outputs ==
  /\ ~astray
  /\ astray' = (~deccm /\ softback_lines # 0)
  /\ UNCHANGED <<on, logo, deccm>>

\* SM_UP: the rows from t to b move up by count.  The first of them are noted; the
\* rows left over hold what is in text.
Up(t, b, count, text) ==
  LET noted == Noted(t, count)
      scr == [r \in Row |->
                CASE r <= t \/ r > b -> screen[r]
                  [] r > t /\ r <= b - count -> screen[r + count]
                  [] OTHER -> text[r]]
      drawn == Drawn(Hidden, scr, (b - count + 1)..b)
  IN /\ t + count < b /\ Outputs
     /\ IF on
          THEN /\ ring' = noted.ring
               /\ gone' = [k \in 1..(Lines - 1) |->
                             IF k <= count THEN screen[t + count - k + 1]
                             ELSE gone[k - count]]
               /\ Becomes([drawn EXCEPT
                    !.in = noted.in, !.top = noted.top, !.curr = noted.in,
                    !.left = AtMost(left + count, Lines - 1)])
          ELSE UNCHANGED <<ring, gone>> /\ Becomes(drawn)

\* Lines are printed at the bottom: the screen below the logo moves up, and the
\* terminal writes the new lines.
Output(count) ==
  /\ Up(Above, Rows, count,
        [r \in Row |-> ((last + r - (Rows - count) - 1) % Texts) + 1])
  /\ last' = ((last + count - 1) % Texts) + 1
  /\ since' = AtMost(since + count, Rows - Above + left')
  /\ UNCHANGED edits

\* Anything else a program does to the screen.
Edit == edits < MaxEdits /\ edits' = edits + 1 /\ since' = 0

\* SM_UP of any region, which may take in the rows of the logo
ScrollUp(t, b, count) ==
  /\ Edit
  /\ Up(t, b, count, [r \in Row |-> Blank])
  /\ UNCHANGED last

\* SM_DOWN: the rows pushed out are lost.
ScrollDown(t, b, count) ==
  LET scr == [r \in Row |->
                CASE r <= t \/ r > b -> screen[r]
                  [] r > t + count /\ r <= b -> screen[r - count]
                  [] OTHER -> Blank]
  IN /\ Edit
     /\ t + count < b /\ Outputs
     /\ Becomes(Drawn(Hidden, scr, (t + 1)..(t + count)))
     /\ UNCHANGED <<ring, last, gone>>

\* fbcon_putcs or fbcon_clear: a row is written or cleared.
Write(r, text) ==
  /\ Edit
  /\ Outputs
  /\ Becomes(Drawn(Hidden, [screen EXCEPT ![r] = text], {r}))
  /\ last' = IF text = Blank THEN last ELSE text
  /\ UNCHANGED <<ring, gone>>

\* The escape codes that show and hide the cursor are output as well.
ShowCursor(visible) ==
  /\ deccm # visible /\ ~astray
  /\ deccm' = visible
  /\ Becomes(Hidden)
  /\ UNCHANGED <<on, ring, logo, last, gone, since, edits, astray>>

\* fbcon_switch, to a console or a font: the ring starts anew; a font that
\* leaves five rows or less turns it off (fbcon_update_softback), and no
\* later switch turns it on again.  The terminal redraws the whole screen.
\* The rows still in the memory of the ring are out of reach: blank here.
Switch(l) ==
  /\ on' = (on /\ l > 5)
  /\ in' = 0 /\ top' = 0 /\ curr' = 0 /\ softback_lines' = 0
  /\ logo' = FALSE
  /\ shown' = screen
  /\ ring' = [i \in 0..(Lines - 1) |-> Blank]
  /\ left' = 0 /\ gone' = [k \in 1..(Lines - 1) |-> Blank]
  /\ since' = AtMost(since, Rows - Above)
  /\ astray' = FALSE
  /\ UNCHANGED <<screen, deccm, last, edits>>

Next ==
  \/ \E delta \in -Lines..Lines : Scrolldelta(delta)
  \/ \E count \in Row : Output(count)
  \/ \E t \in 0..Rows, b, count \in Row : ScrollUp(t, b, count) \/ ScrollDown(t, b, count)
  \/ \E r \in Row : \E text \in {Blank, (last % Texts) + 1} : Write(r, text)
  \/ \E visible \in BOOLEAN : ShowCursor(visible)
  \/ \E l \in {5, Lines} : Switch(l)

Spec == Init /\ [][Next]_vars

-----------------------------------------------------------------------------
(* Pointing into the window: fbcon_screen_pos, fbcon_getxy.  A position is  *)
(* a row of the ring or of the screen (from 0).                             *)

ScreenPos(line) ==
  IF softback_lines = 0 THEN <<"screen", line>>
  ELSE IF line >= softback_lines THEN <<"screen", line - softback_lines>>
  ELSE <<"ring", (curr + line) % Lines>>

GetY(pos) ==
  IF pos[1] = "screen" THEN pos[2] + softback_lines
  ELSE IF softback_lines # 0
    THEN IF pos[2] < curr THEN pos[2] - curr + Lines ELSE pos[2] - curr
  ELSE 0

RowAfter(pos) ==
  IF pos[1] = "screen" THEN <<"screen", pos[2] + 1>>
  ELSE IF Next1(pos[2]) = in THEN <<"screen", 0>>
  ELSE <<"ring", Next1(pos[2])>>

-----------------------------------------------------------------------------
(* Properties *)

\* The line printed d lines before the last one, and the line d lines above the
\* newest, on the screen below the logo or else in the ring.
TextAt(d) == ((last - 1 - d) % Texts) + 1
LineAt(d) == IF d < Rows - Above THEN screen[Rows - d]
             ELSE ring[Back(in, d - (Rows - Above) + 1)]

\* The ring holds the rows that were scrolled up and out of any region of the
\* screen, the newest first and as many as there is room for, less those the logo
\* took back: and the ring and the screen together hold the lines printed since
\* the screen was last changed in any other way, in order and with none missing,
\* whatever scrolling, wrapping and the removal of the logo did to the pointers
\* (fbcon.c:1836-1859, 1926-2118, 2894-2923).
HistoryInOrder ==
  on =>
    /\ Held = left
    /\ \A k \in 1..left : ring[Back(in, k)] = gone[k]
    /\ \A d \in 0..(since - 1) : LineAt(d) = TextAt(d)

\* The frame buffer shows the window softback_lines above the screen, though
\* a move draws only what it takes to have changed; a program that prints
\* with the cursor off into a scrolled back window is the exception
\* (fbcon.c:1604-1695, 1365-1396).
WhatYouSee ==
  ~astray =>
    /\ softback_lines = (in + Lines - curr) % Lines
    /\ shown = [r \in Row |-> View(curr, in, ring, screen, r)]

\* The rows that a selection or a redraw of a region walks over are those of
\* the window, in order, across the end of the ring and into the screen, and
\* each is drawn where it stands (fbcon.c:2806-2862).
RegionsFollowWindow ==
  ~astray =>
    \A line \in 0..(Rows - 1) :
      /\ GetY(ScreenPos(line)) = line
      /\ line < Rows - 1 => RowAfter(ScreenPos(line)) = ScreenPos(line + 1)

\* Both: what the user sees, and what the user points at, is the window.
WindowIsTrue == WhatYouSee /\ RegionsFollowWindow
=============================================================================
