----------------------------- MODULE OverlayItem -----------------------------
(***************************************************************************)
(* A device-tree overlay in configfs (drivers/of/configfs.c): a directory  *)
(* made for it, an overlay applied by writing the name of a file to path or*)
(* its bytes to dtbo, once, and taken back when the directory is removed.  *)
(* configfs serialises the writes of one open file only, so that two       *)
(* processes may write one item at the same time; a step is what one does  *)
(* up to where it may sleep, and the test of what is set is a step of its  *)
(* own.  Applying may fail, and then may leave the overlay half applied    *)
(* with its number returned; removing may fail too, as for an overlay that *)
(* another was stacked upon.                                               *)
(***************************************************************************)
EXTENDS Naturals

CONSTANTS
  Writers,   \* processes
  MaxId      \* bound on the files, copies and overlays of a behaviour

VARIABLES
  item,               \* "none", "made" or "removed"
  path,               \* is it set?
  fw, dtbo, ov_id,    \* the firmware, copy and overlay the item knows, 0 for none
  pc,                 \* per writer, where it stands
  loaded, applied,    \* the firmwares and copies, and the overlays, that exist
  next,               \* number of the next one
  raced,              \* ghost: two writers met
  half, refused       \* ghosts: the overlays half applied; those removed in vain

overlay == <<path, fw, dtbo, ov_id>>
world == <<loaded, applied, next>>
ghosts == <<raced, half, refused>>
vars == <<item, overlay, pc, world, ghosts>>

TypeOK ==
  /\ item \in {"none", "made", "removed"}
  /\ path \in BOOLEAN
  /\ {fw, dtbo, ov_id} \subseteq 0..MaxId
  /\ pc \in [Writers -> {"idle", "set_path", "load", "apply_path", "copy",
                         "apply_dtbo", "drop"}]
  /\ loaded \cup applied \cup half \cup refused \subseteq 1..MaxId
  /\ next \in 1..(MaxId + 1)
  /\ raced \in BOOLEAN

Init ==
  /\ item = "none"
  /\ path = FALSE /\ fw = 0 /\ dtbo = 0 /\ ov_id = 0
  /\ pc = [w \in Writers |-> "idle"]
  /\ loaded = {} /\ applied = {} /\ next = 1
  /\ raced = FALSE /\ half = {} /\ refused = {}

\* cfs_overlay_group_make_item
MakeItem ==
  /\ item \in {"none", "removed"}
  /\ item' = "made"
  /\ path' = FALSE /\ fw' = 0 /\ dtbo' = 0 /\ ov_id' = 0
  /\ UNCHANGED <<pc, world, ghosts>>

Goes(w, at) == pc' = [pc EXCEPT ![w] = at]

\* "if it's set do not allow changes"
Unset == ~path /\ dtbo = 0

Check(w, at) ==
  /\ item = "made" /\ pc[w] = "idle" /\ Unset
  /\ Goes(w, at)
  /\ raced' = (raced \/ \E v \in Writers : pc[v] # "idle")
  /\ UNCHANGED <<item, overlay, world, half, refused>>

-----------------------------------------------------------------------------
(* cfs_overlay_item_path_store *)

PathStore(w) == Check(w, "set_path")

SetPath(w) ==
  /\ pc[w] = "set_path"
  /\ path' = TRUE
  /\ Goes(w, "load")
  /\ UNCHANGED <<item, fw, dtbo, ov_id, world, ghosts>>

\* request_firmware; one that fails stores NULL.
Load(w) ==
  /\ pc[w] = "load" /\ next <= MaxId
  /\ fw' = next /\ loaded' = loaded \cup {next} /\ next' = next + 1
  /\ Goes(w, "apply_path")
  /\ UNCHANGED <<item, path, dtbo, ov_id, applied, ghosts>>

LoadFails(w) ==
  /\ pc[w] = "load"
  /\ fw' = 0 /\ path' = FALSE
  /\ Goes(w, "idle")
  /\ UNCHANGED <<item, dtbo, ov_id, world, ghosts>>

\* of_overlay_fdt_apply fails and returns 0, or the number of an overlay that it
\* has applied half.
Fails ==
  \/ ov_id' = 0 /\ UNCHANGED <<applied, next, half>>
  \/ /\ next <= MaxId
     /\ ov_id' = next /\ applied' = applied \cup {next} /\ next' = next + 1
     /\ half' = half \cup {next}

\* Seeded fault: the firmware is kept when the path is taken back.
PathFails_Keeps(w) ==
  /\ pc[w] = "apply_path"
  /\ Fails
  /\ fw' = 0 /\ path' = FALSE
  /\ Goes(w, "idle")
  /\ UNCHANGED <<item, dtbo, loaded, raced, refused>>

\* out_err: ov_id keeps what was returned.
PathFails(w) ==
  /\ pc[w] = "apply_path"
  /\ Fails
  /\ loaded' = loaded \ {fw} /\ fw' = 0 /\ path' = FALSE
  /\ Goes(w, "idle")
  /\ UNCHANGED <<item, dtbo, raced, refused>>

-----------------------------------------------------------------------------
(* cfs_overlay_item_dtbo_write *)

DtboWrite(w) == Check(w, "copy")

\* kmemdup and the size it sets, or -ENOMEM
Copy(w) ==
  /\ pc[w] = "copy"
  /\ \/ /\ next <= MaxId
        /\ dtbo' = next /\ loaded' = loaded \cup {next} /\ next' = next + 1
        /\ Goes(w, "apply_dtbo")
     \/ dtbo' = 0 /\ Goes(w, "idle") /\ UNCHANGED <<loaded, next>>
  /\ UNCHANGED <<item, path, fw, ov_id, applied, ghosts>>

\* out_err: others may write again before the number is dropped.
DtboFails(w) ==
  /\ pc[w] = "apply_dtbo"
  /\ Fails
  /\ loaded' = loaded \ {dtbo} /\ dtbo' = 0
  /\ Goes(w, "drop")
  /\ UNCHANGED <<item, path, fw, raced, refused>>

Drop(w) ==
  /\ pc[w] = "drop"
  /\ ov_id' = 0
  /\ Goes(w, "idle")
  /\ UNCHANGED <<item, path, fw, dtbo, world, ghosts>>

-----------------------------------------------------------------------------

\* of_overlay_fdt_apply
Apply(w) ==
  /\ pc[w] \in {"apply_path", "apply_dtbo"} /\ next <= MaxId
  /\ ov_id' = next /\ applied' = applied \cup {next} /\ next' = next + 1
  /\ Goes(w, "idle")
  /\ UNCHANGED <<item, path, fw, dtbo, loaded, ghosts>>

\* cfs_overlay_release, when nobody writes any more.  An error of
\* of_overlay_remove is not looked at.
Release ==
  /\ item = "made" /\ \A w \in Writers : pc[w] = "idle"
  /\ item' = "removed"
  /\ \/ applied' = applied \ {ov_id} /\ UNCHANGED refused
     \/ ov_id # 0 /\ refused' = refused \cup {ov_id} /\ UNCHANGED applied
  /\ loaded' = loaded \ {fw, dtbo}
  /\ UNCHANGED <<overlay, pc, next, raced, half>>

Next ==
  \/ MakeItem \/ Release
  \/ \E w \in Writers :
       \/ PathStore(w) \/ SetPath(w) \/ Load(w) \/ LoadFails(w) \/ PathFails(w)
       \/ DtboWrite(w) \/ Copy(w) \/ DtboFails(w) \/ Drop(w)
       \/ Apply(w)

Spec == Init /\ [][Next]_vars

-----------------------------------------------------------------------------

\* A removed item leaves no firmware and no copy behind, and no overlay but one
\* that was half applied or that of_overlay_remove refused to remove, however
\* often its writes failed before one succeeded, unless two processes wrote it at
\* once: each found nothing set before the other had set it, or the number was not
\* dropped yet (configfs.c:56-97, 140-191).
NothingLeaks ==
  item = "removed" /\ ~raced => applied \subseteq refused \cup half /\ loaded = {}
=============================================================================
