------------------------------- MODULE Sound -------------------------------
(***************************************************************************)
(* The two views of the sound drivers, checked in one run: SoftPwm, which  *)
(* follows the samples of one open stream down to the sound pin, and       *)
(* SndStream, which follows a stream and its driver from probe to remove.  *)
(* They share no variable; a behaviour is one of one of them, and the      *)
(* variables of the other stay as they start.                              *)
(***************************************************************************)
EXTENDS SoftPwm

CONSTANT Sizes   \* of SndStream

ASSUME BuffersAssumption == Sizes \subseteq Nat \ {0}

VARIABLES
  part,
  hw, life, stream_at, size, on, ptr, inited, tree, callback, limit, next_ptr,
  fault, met, early, unstopped

Stream == INSTANCE SndStream WITH
  pc <- life, stream <- stream_at, is_on <- on, data_ptr <- ptr, cb <- callback,
  reg <- next_ptr, crossed <- met

sounding == vars
streaming == <<hw, life, stream_at, size, on, ptr, inited, tree, callback, limit,
               next_ptr, fault, met, early, unstopped>>
everything == <<part, sounding, streaming>>

SoundInit ==
  /\ part \in {"pin", "stream"}
  /\ Init
  /\ Stream!Init /\ (part = "pin" => ~hw)

PinStep(A) == part = "pin" /\ A /\ UNCHANGED <<part, streaming>>
StreamStep(A) == part = "stream" /\ A /\ UNCHANGED <<part, sounding>>

SoundNext == PinStep(Next) \/ StreamStep(Stream!Next)

\* The fairness of SoftPwm; SndStream needs none.
SoundSpec ==
  /\ SoundInit /\ [][SoundNext]_everything
  /\ WF_everything(PinStep(Trigger)) /\ WF_everything(PinStep(Callback))
  /\ WF_everything(PinStep(Main)) /\ WF_everything(PinStep(Isr))

-----------------------------------------------------------------------------
(* The properties of SndStream, beside those of SoftPwm. *)

\* The callback reads within a buffer and a context that are there, but for the
\* START, STOP or removal that meets one or comes too early, and a stream that a
\* system suspend found playing (picocalc-softpwm.c:58-92, 199-200, 321-340;
\* picocalc_snd_pwm.c:80-138, 225-226).
CallbackSafe == Stream!CallbackSafe

=============================================================================
