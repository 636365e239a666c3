------------------------------- MODULE FbMap --------------------------------
(***************************************************************************)
(* The consoles and their frame buffers (fbcon.c): con2fb_map gives each   *)
(* console the frame buffer it is drawn on, and a frame buffer is opened   *)
(* (fbcon_open) while a console is mapped to it.  Frame buffers come and   *)
(* go, a user remaps consoles with an ioctl and binds or unbinds the whole *)
(* driver through sysfs.  Every action holds the console lock; a frame     *)
(* buffer leaves in two such sections, fbcon_fb_unbind and                 *)
(* fbcon_fb_unregistered.                                                  *)
(*                                                                         *)
(* The virtual terminal (vt.c) is outside this code: it calls              *)
(* fbcon_startup when the driver is registered or bound again, fbcon_init  *)
(* for every console it binds, fbcon_deinit for every one it unbinds.  All *)
(* consoles are allocated.                                                 *)
(***************************************************************************)
EXTENDS Integers

CONSTANTS Fbs,      \* 0..n, the numbers of the frame buffers
          Consoles

None == -1

VARIABLES
  registered,              \* fbcon_registered_fb
  info_idx,
  con2fb_map, con2fb_map_boot,
  opens,                   \* times each frame buffer is open
  driver, bound,           \* fb_con is registered, is bound
  fbcon_has_console_bind,
  leaving,                 \* between fbcon_fb_unbind and _unregistered, or None
  raced, rebound           \* ghosts, see below

maps == <<con2fb_map, con2fb_map_boot>>
console == <<driver, bound, fbcon_has_console_bind>>
vars == <<registered, info_idx, maps, opens, console, leaving, raced, rebound>>

TypeOK ==
  /\ registered \subseteq Fbs
  /\ info_idx \in Fbs \cup {None}
  /\ con2fb_map \in [Consoles -> Fbs \cup {None}]
  /\ con2fb_map_boot \in [Consoles -> Fbs]
  /\ opens \in [Fbs -> Int]
  /\ driver \in BOOLEAN /\ bound \in BOOLEAN
  /\ fbcon_has_console_bind \in BOOLEAN
  /\ leaving \in Fbs \cup {None}
  /\ raced \in BOOLEAN /\ rebound \in BOOLEAN

Init ==
  /\ registered = {}
  /\ info_idx = None
  /\ con2fb_map = [c \in Consoles |-> None]
  /\ con2fb_map_boot = [c \in Consoles |-> 0]
  /\ opens = [f \in Fbs |-> 0]
  /\ driver = FALSE /\ bound = FALSE /\ fbcon_has_console_bind = FALSE
  /\ leaving = None
  /\ raced = FALSE /\ rebound = FALSE

search_fb_in_map(map, f) == \E c \in Consoles : map[c] = f
search_for_mapped_con == \E c \in Consoles : con2fb_map[c] # None
AllMapped(f) == [c \in Consoles |-> f]
Opened(o, f) == [o EXCEPT ![f] = @ + 1]
Released(o, f) == [o EXCEPT ![f] = @ - 1]

-----------------------------------------------------------------------------
(* What several operations share. *)

\* do_fbcon_takeover(f): all consoles, or none if fbcon_open fails in
\* fbcon_startup; a failure when the driver is only bound again (fbcon_init
\* would use the frame buffer all the same) is not modelled
Takeover(f) ==
  \/ /\ info_idx' = f
     /\ con2fb_map' = AllMapped(f)
     /\ opens' = Opened(opens, f)
     /\ driver' = TRUE /\ bound' = TRUE /\ fbcon_has_console_bind' = TRUE
  \/ /\ ~driver
     /\ info_idx' = None
     /\ con2fb_map' = AllMapped(None)
     /\ UNCHANGED <<opens, console>>

\* Seeded fault: the frame buffer that no console needs any more stays open.
ReleaseOld_Never(map, old, o) == o

\* con2fb_release_oldinfo, if the console was the last one on it
ReleaseOld(map, old, o) ==
  IF old \in registered /\ ~search_fb_in_map(map, old) THEN Released(o, old) ELSE o

\* set_con2fb_map
SetMap(c, f) ==
  LET old == con2fb_map[c]
      map == [con2fb_map EXCEPT ![c] = f]
      o == IF search_fb_in_map(con2fb_map, f) THEN opens ELSE Opened(opens, f)
  IN \/ /\ \/ old = f \/ f \notin registered
        /\ UNCHANGED <<info_idx, maps, opens, console>>
     \/ /\ old # f /\ f \in registered
        /\ ~search_for_mapped_con \/ ~bound
        /\ Takeover(f)
        /\ UNCHANGED con2fb_map_boot
     \/ /\ old # f /\ f \in registered /\ bound /\ search_for_mapped_con
        /\ \/ /\ con2fb_map' = map
              /\ opens' = ReleaseOld(map, old, o)
              /\ con2fb_map_boot' = [con2fb_map_boot EXCEPT ![c] = f]
              /\ info_idx' = IF search_fb_in_map(map, info_idx) THEN info_idx ELSE f
           \/ /\ ~search_fb_in_map(con2fb_map, f)     \* fbcon_open failed
              /\ UNCHANGED <<info_idx, maps, opens>>
        /\ UNCHANGED console

\* All of the consoles in "which", one set_con2fb_map after the other, when
\* the driver is bound and the frame buffer is open or opens.
SetMaps(which, f) ==
  LET map == [c \in Consoles |-> IF c \in which THEN f ELSE con2fb_map[c]]
      gone == {g \in registered \ {f} :
                 search_fb_in_map(con2fb_map, g) /\ ~search_fb_in_map(map, g)}
  IN /\ con2fb_map' = map
     /\ con2fb_map_boot' = [c \in Consoles |->
          IF c \in which /\ con2fb_map[c] # f THEN f ELSE con2fb_map_boot[c]]
     /\ opens' = [g \in Fbs |->
          IF g \in gone THEN opens[g] - 1
          ELSE IF g = f /\ ~search_fb_in_map(con2fb_map, f) /\ which # {}
            THEN opens[g] + 1 ELSE opens[g]]
     /\ info_idx' = IF which = {} \/ search_fb_in_map(map, info_idx)
                    THEN info_idx ELSE f

\* do_unbind_con_driver: fbcon_deinit of the last console finds the driver
\* unbound and runs fbcon_release_all
Unbound(map, o) ==
  /\ bound' = FALSE
  /\ con2fb_map' = [c \in Consoles |->
       IF map[c] \in registered THEN None ELSE map[c]]
  /\ opens' = [f \in Fbs |->
       IF f \in registered /\ search_fb_in_map(map, f) THEN o[f] - 1 ELSE o[f]]

-----------------------------------------------------------------------------
(* The operations. *)

\* do_fb_registered
Register(f) ==
  LET mine == {c \in Consoles : con2fb_map_boot[c] = f}
  IN /\ f \notin registered /\ leaving # f
     /\ registered' = registered \cup {f}
     /\ \/ /\ info_idx = None /\ mine # {}
           /\ Takeover(f)
           /\ UNCHANGED con2fb_map_boot
        \/ /\ info_idx # None /\ mine # {} /\ ~bound
           /\ Takeover(f)
           /\ UNCHANGED con2fb_map_boot
        \/ /\ info_idx # None /\ mine # {} /\ bound
           /\ \E first \in mine :      \* fbcon_open failed for those before
                SetMaps({c \in mine : c >= first}, f)
           /\ UNCHANGED console
        \/ /\ mine = {} \/ (info_idx # None /\ bound)      \* it failed for all
           /\ UNCHANGED <<info_idx, maps, opens, console>>
     /\ UNCHANGED <<leaving, raced, rebound>>

\* fbcon_set_con2fb_map_ioctl
Ioctl(c, f) ==
  /\ SetMap(c, f)
  /\ raced' = (raced \/ f = leaving)
  /\ UNCHANGED <<registered, leaving, rebound>>

Others(f) == {c \in Consoles : con2fb_map[c] \notin {f, None}}

\* fbcon_fb_unbind, called when the driver of f is removed
FbUnbind(f) ==
  /\ f \in registered /\ leaving = None
  /\ leaving' = f
  /\ \/ /\ ~fbcon_has_console_bind
        /\ UNCHANGED <<info_idx, maps, opens, console>>
     \/ /\ fbcon_has_console_bind
        /\ \E first \in Others(f) :
             /\ \A c \in Others(f) : first <= c
             /\ SetMaps({c \in Consoles : con2fb_map[c] = f}, con2fb_map[first])
        /\ UNCHANGED console
     \/ /\ fbcon_has_console_bind /\ Others(f) = {}
        /\ Unbound(AllMapped(None),
                   IF search_fb_in_map(con2fb_map, f) THEN Released(opens, f) ELSE opens)
        /\ fbcon_has_console_bind' = FALSE
        /\ UNCHANGED <<info_idx, con2fb_map_boot, driver>>
  /\ UNCHANGED <<registered, raced, rebound>>

\* fbcon_fb_unregistered
FbUnregistered ==
  LET rest == registered \ {leaving}
  IN /\ leaving # None
     /\ registered' = rest
     /\ \/ info_idx # leaving /\ info_idx' = info_idx
        \/ info_idx = leaving /\ rest = {} /\ info_idx' = None
        \/ info_idx = leaving /\ info_idx' \in rest
             /\ \A g \in rest : info_idx' <= g
     /\ con2fb_map' = [c \in Consoles |->
          IF con2fb_map[c] \in {leaving, None} THEN info_idx' ELSE con2fb_map[c]]
     /\ driver' = (driver /\ (rest # {} \/ bound))
     /\ leaving' = None
     /\ UNCHANGED <<con2fb_map_boot, opens, bound, fbcon_has_console_bind,
                    raced, rebound>>

\* vtcon/bind in sysfs: 0 ...
SysUnbind ==
  /\ bound
  /\ Unbound(con2fb_map, opens)
  /\ raced' = (raced \/ leaving # None)
  /\ UNCHANGED <<registered, info_idx, con2fb_map_boot, driver,
                 fbcon_has_console_bind, leaving, rebound>>

\* ... and 1: fbcon_startup opens info_idx, fbcon_init maps to it every
\* console that is mapped to none
SysBind ==
  /\ driver /\ ~bound /\ info_idx # None
  /\ bound' = TRUE
  /\ con2fb_map' = [c \in Consoles |->
       IF con2fb_map[c] = None THEN info_idx ELSE con2fb_map[c]]
  /\ opens' = [f \in Fbs |->
       IF f = info_idx \/ search_fb_in_map(con2fb_map, f)
       THEN opens[f] + 1 ELSE opens[f]]
  /\ rebound' = (rebound \/ ~fbcon_has_console_bind)
  /\ raced' = (raced \/ leaving # None)
  /\ UNCHANGED <<registered, info_idx, con2fb_map_boot, driver,
                 fbcon_has_console_bind, leaving>>

\* What follows one of the two exceptions below is not explored.
Next ==
  /\ ~raced /\ ~rebound
  /\ \/ \E f \in Fbs : Register(f) \/ FbUnbind(f)
     \/ \E c \in Consoles, f \in Fbs : Ioctl(c, f)
     \/ FbUnregistered \/ SysUnbind \/ SysBind

Spec == Init /\ [][Next]_vars

-----------------------------------------------------------------------------
(* Properties.  Two things void them, and are kept apart by the ghosts: the  *)
(* user mapping, binding or unbinding between the two sections of a removal *)
(* (raced), and a driver that is bound through sysfs after fbcon_fb_unbind  *)
(* unbound it, which fbcon_has_console_bind never learns (rebound).         *)

\* A bound console is drawn on a frame buffer that exists, whatever came,
\* went and was remapped (fbcon.c:848-902, 3159-3250).
ConsoleHasFb ==
  bound /\ ~raced /\ ~rebound => \A c \in Consoles : con2fb_map[c] \in registered

\* "If old fb is not mapped to any of the consoles, fbcon should release it":
\* a frame buffer is open, once, exactly while a console of the bound driver
\* is mapped to it (fbcon.c:712-762, 848-902, 1204-1226, 3159-3206).
OpenWhileMapped ==
  ~raced /\ ~rebound =>
    \A f \in Fbs :
      opens[f] = IF bound /\ search_fb_in_map(con2fb_map, f) THEN 1 ELSE 0

\* Both: what a console is drawn on is there and open, and nothing else is open.
FbsInUse == ConsoleHasFb /\ OpenWhileMapped
=============================================================================
