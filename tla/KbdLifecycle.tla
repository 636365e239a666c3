---------------------------- MODULE KbdLifecycle ----------------------------
(***************************************************************************)
(* The two Linux keyboard drivers from probe to remove (picocalc_kbd.c of  *)
(* picocalc_keyboard_stm_mod and of picocalc_keyboard_old): the timer, the *)
(* input work the timer queues, the two delayed works the input work arms, *)
(* and the sysfs files.  probe and remove run under the device lock, one   *)
(* at a time; timer, works and sysfs handlers run beside them.  What the   *)
(* works do to keys and backlights is in KbdDispatch, KbdBacklight and     *)
(* ScreenBacklight.                                                        *)
(*                                                                         *)
(* The old driver sets g_ctx first, has no delayed works, and removes      *)
(* itself with del_timer, which waits for nothing, and no cancelling.      *)
(*                                                                         *)
(* fault records the first use of g_ctx while it is NULL, or of the        *)
(* context after it was freed, by a context that has no business to run.   *)
(***************************************************************************)
EXTENDS Naturals

DelayedWorks == {"bl_flash_work", "mouse_dw"}

VARIABLES
  old,           \* the driver for firmware 1.2
  pc,            \* the thread that probes and removes
  g_ctx,         \* g_ctx is not NULL
  live,          \* the context is allocated
  timer,         \* "idle", "armed", or "rearm": its function has queued the work
  work,          \* "idle" or "running"
  work_pending,
  dw,            \* per delayed work: "idle", "armed" or "running"
  files,         \* the sysfs files exist
  handler,       \* a sysfs handler has found g_ctx set
  fault,
  early, failed, rearmed, unsynced   \* ghosts; see LifecycleSafe

bus == <<old, pc, g_ctx, live, files>>
ghosts == <<early, failed, rearmed, unsynced>>
vars == <<bus, timer, work, work_pending, dw, handler, fault, ghosts>>

TypeOK ==
  /\ old \in BOOLEAN
  /\ pc \in {"out", "timer", "register", "publish", "sysfs", "bound", "rm_timer",
             "rm_flash", "rm_mouse", "rm_work", "rm_ctx", "failed"}
  /\ g_ctx \in BOOLEAN /\ live \in BOOLEAN /\ files \in BOOLEAN
  /\ timer \in {"idle", "armed", "rearm"}
  /\ work \in {"idle", "running"} /\ work_pending \in BOOLEAN
  /\ dw \in [DelayedWorks -> {"idle", "armed", "running"}]
  /\ handler \in BOOLEAN /\ fault \in BOOLEAN
  /\ early \in BOOLEAN /\ failed \in BOOLEAN /\ rearmed \in BOOLEAN /\ unsynced \in BOOLEAN

Init ==
  /\ old \in BOOLEAN
  /\ pc = "out" /\ g_ctx = FALSE /\ live = FALSE /\ files = FALSE
  /\ timer = "idle"
  /\ work = "idle" /\ work_pending = FALSE
  /\ dw = [w \in DelayedWorks |-> "idle"]
  /\ handler = FALSE /\ fault = FALSE
  /\ early = FALSE /\ failed = FALSE /\ rearmed = FALSE /\ unsynced = FALSE

-----------------------------------------------------------------------------
(* picocalc_kbd_probe *)

\* Allocation may fail, and nothing is left.
Probe ==
  /\ pc = "out"
  /\ pc' = "timer" /\ live' = TRUE
  /\ g_ctx' = old
  /\ UNCHANGED <<files, timer, work, work_pending, dw, handler, fault, ghosts>>

AddTimer ==
  /\ pc = "timer"
  /\ timer' = "armed"
  /\ pc' = "register"
  /\ UNCHANGED <<g_ctx, live, files, work, work_pending, dw, handler, fault, ghosts>>

\* What devres frees when probe returns an error; the timer goes on.
ProbeFails ==
  /\ pc' = "failed" /\ live' = FALSE /\ failed' = TRUE
  /\ UNCHANGED <<g_ctx, files, timer, work, work_pending, dw, handler, fault, early, rearmed,
                 unsynced>>

Register ==
  /\ pc = "register"
  /\ \/ ProbeFails
     \/ /\ pc' = IF old THEN "sysfs" ELSE "publish"
        /\ UNCHANGED <<g_ctx, live, files, timer, work, work_pending, dw, handler,
                       fault, ghosts>>

Publish ==
  /\ pc = "publish"
  /\ g_ctx' = TRUE
  /\ pc' = "sysfs"
  /\ UNCHANGED <<live, files, timer, work, work_pending, dw, handler, fault, ghosts>>

SysfsProbe ==
  /\ pc = "sysfs"
  /\ \/ ProbeFails
     \/ /\ pc' = "bound" /\ files' = TRUE
        /\ UNCHANGED <<g_ctx, live, timer, work, work_pending, dw, handler, fault,
                       ghosts>>

-----------------------------------------------------------------------------
(* picocalc_kbd_remove: sysfs_shutdown, input_shutdown, then devres *)

\* Seeded fault: the input side is taken down under the sysfs files.
Remove_InputFirst ==
  /\ pc = "bound"
  /\ pc' = "rm_timer"
  /\ UNCHANGED <<g_ctx, live, files, timer, work, work_pending, dw, handler, fault, ghosts>>

\* kobject_put removes the files and waits for the handlers that run.
Remove ==
  /\ pc = "bound"
  /\ ~handler
  /\ files' = FALSE
  /\ pc' = "rm_timer"
  /\ UNCHANGED <<g_ctx, live, timer, work, work_pending, dw, handler, fault, ghosts>>

\* del_timer_sync waits for the function, and takes back its re-arming
DelTimer ==
  /\ pc = "rm_timer" /\ ~old
  /\ timer \in {"idle", "armed"}
  /\ timer' = "idle"
  /\ pc' = "rm_flash"
  /\ UNCHANGED <<g_ctx, live, files, work, work_pending, dw, handler, fault, ghosts>>

\* del_timer of the old driver does neither.
DelTimerOld ==
  /\ pc = "rm_timer" /\ old
  /\ timer' = IF timer = "armed" THEN "idle" ELSE timer
  /\ pc' = "rm_ctx"
  /\ UNCHANGED <<g_ctx, live, files, work, work_pending, dw, handler, fault, ghosts>>

\* cancel_delayed_work_sync waits in the same way; a work cancelled so does not
\* arm itself again.
CancelDelayed(at, w, next) ==
  /\ pc = at
  /\ dw[w] \in {"idle", "armed"}
  /\ dw' = [dw EXCEPT ![w] = "idle"]
  /\ pc' = next
  /\ UNCHANGED <<g_ctx, live, files, timer, work, work_pending, handler, fault, ghosts>>

CancelFlash == CancelDelayed("rm_flash", "bl_flash_work", "rm_mouse")
CancelMouse == CancelDelayed("rm_mouse", "mouse_dw", "rm_work")

CancelWork ==
  /\ pc = "rm_work"
  /\ work = "idle"
  /\ work_pending' = FALSE
  /\ pc' = "rm_ctx"
  /\ UNCHANGED <<g_ctx, live, files, timer, work, dw, handler, fault, ghosts>>

ClearCtx ==
  /\ pc = "rm_ctx"
  /\ g_ctx' = FALSE /\ live' = FALSE
  /\ pc' = "out"
  /\ unsynced' = (unsynced \/ timer # "idle" \/ work_pending \/ work = "running")
  /\ UNCHANGED <<files, timer, work, work_pending, dw, handler, fault, early, failed,
                 rearmed>>

Bus ==
  /\ \/ Probe \/ AddTimer \/ Register \/ Publish \/ SysfsProbe
     \/ Remove \/ DelTimer \/ DelTimerOld \/ CancelFlash \/ CancelMouse \/ CancelWork \/ ClearCtx
  /\ UNCHANGED old

-----------------------------------------------------------------------------
(* Timer, works and sysfs *)

Stray == ~g_ctx \/ ~live

\* kbd_timer_function: queues the work of *g_ctx,
TimerQueue ==
  /\ timer = "armed"
  /\ timer' = "rearm"
  /\ fault' = (fault \/ Stray)
  /\ early' = (early \/ pc \in {"register", "publish"})
  /\ work_pending' = (work_pending \/ ~Stray)
  /\ UNCHANGED <<bus, work, dw, handler, failed, rearmed, unsynced>>

\* and arms the timer again.
TimerRearm ==
  /\ timer = "rearm"
  /\ timer' = "armed"
  /\ UNCHANGED <<bus, work, work_pending, dw, handler, fault, ghosts>>

\* input_workqueue_handler runs, once at a time.
WorkBegin ==
  /\ work_pending /\ work = "idle"
  /\ work' = "running" /\ work_pending' = FALSE
  /\ fault' = (fault \/ ~live)
  /\ UNCHANGED <<bus, timer, dw, handler, ghosts>>

\* It arms a delayed work; remove may have cancelled that work already.
WorkArms(w) ==
  /\ work = "running"
  /\ ~old /\ dw[w] = "idle"
  /\ dw' = [dw EXCEPT ![w] = "armed"]
  /\ fault' = (fault \/ ~live)
  /\ rearmed' = (rearmed \/ pc \in {"rm_mouse", "rm_work"})
  /\ UNCHANGED <<bus, timer, work, work_pending, handler, early, failed, unsynced>>

\* The old driver notes the time of a key press in *g_ctx.
WorkEnd ==
  /\ work = "running"
  /\ work' = "idle"
  /\ fault' = (fault \/ ~live \/ (old /\ ~g_ctx))
  /\ UNCHANGED <<bus, timer, work_pending, dw, handler, ghosts>>

DelayedBegin(w) ==
  /\ dw[w] = "armed"
  /\ dw' = [dw EXCEPT ![w] = "running"]
  /\ fault' = (fault \/ ~live)
  /\ UNCHANGED <<bus, timer, work, work_pending, handler, ghosts>>

Cancelling(w) ==
  \/ w = "bl_flash_work" /\ pc = "rm_flash"
  \/ w = "mouse_dw" /\ pc = "rm_mouse"

\* mouse_emit_rel arms itself again, bl_flash_restore does not
DelayedEnd(w) ==
  /\ dw[w] = "running"
  /\ \/ dw' = [dw EXCEPT ![w] = "idle"]
     \/ /\ w = "mouse_dw" /\ ~Cancelling(w)
        /\ dw' = [dw EXCEPT ![w] = "armed"]
  /\ fault' = (fault \/ ~live)
  /\ UNCHANGED <<bus, timer, work, work_pending, handler, ghosts>>

\* A handler tests g_ctx, and uses it for a transfer.
HandlerBegin ==
  /\ files /\ ~handler /\ g_ctx
  /\ handler' = TRUE
  /\ UNCHANGED <<bus, timer, work, work_pending, dw, fault, ghosts>>

HandlerUse ==
  /\ handler
  /\ handler' = FALSE
  /\ fault' = (fault \/ Stray)
  /\ UNCHANGED <<bus, timer, work, work_pending, dw, ghosts>>

Timer == TimerQueue \/ TimerRearm
Work == WorkBegin \/ WorkEnd
Delayed(w) == DelayedBegin(w) \/ DelayedEnd(w)

Next ==
  \/ Bus \/ Timer \/ Work \/ HandlerBegin \/ HandlerUse
  \/ \E w \in DelayedWorks : WorkArms(w) \/ Delayed(w)

Spec == Init /\ [][Next]_vars

-----------------------------------------------------------------------------

\* Nothing uses a context that is not there, through any number of probes and
\* removes, unless the timer armed before input_register_device ran before
\* g_ctx was set, a probe failed and left it armed, the input work armed a
\* delayed work that remove had cancelled before it, or the old driver freed the
\* context under its timer function or its work (picocalc_kbd.c:876-880,
\* 1243-1264; of the old driver: 585-590, 699-711, 715-731).
LifecycleSafe == fault => early \/ failed \/ rearmed \/ (old /\ unsynced)

=============================================================================
