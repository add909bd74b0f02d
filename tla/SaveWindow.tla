----------------------------- MODULE SaveWindow -----------------------------
(***************************************************************************)
(* The flag that decides whether frames with many false positives are      *)
(* queued for upload, and the one-shot timers that clear it again          *)
(* (deepstream_fpfilter_app.c).                                            *)
(*                                                                         *)
(* Three threads use the flag.  The prompt server sets and clears it, the  *)
(* GLib main loop clears it when a timer expires, and the streaming thread *)
(* reads it for every frame.  A mutex makes each access atomic, nothing    *)
(* makes two accesses atomic: setting the flag and arming its timer are    *)
(* two steps of the server, and the main loop may run between them.        *)
(*                                                                         *)
(* The module has no next-state relation of its own: FpFilterControl uses  *)
(* its operations.                                                         *)
(*                                                                         *)
(* Timers carry no time here.  A pending timer may expire at any moment,   *)
(* in any order, which covers every choice of durations.                   *)
(***************************************************************************)
EXTENDS Naturals

CONSTANT MaxTimers   \* bound: how many timers a behaviour may arm

ASSUME MaxTimersAssumption == MaxTimers \in Nat

VARIABLES
  save_fpfilter_images,  \* the flag, guarded by fpfilter_images_save_mutex
  timers,                \* numbers of the GLib timeouts still pending
  armed,                 \* how many timeouts were ever requested
  window,                \* history: the number of the timeout the last request
                         \* to save asked for, 0 if it gave no duration
  arming                 \* the server is inside a request with a duration

saveVars == <<save_fpfilter_images, timers, armed, window, arming>>

SaveTypeOK ==
  /\ save_fpfilter_images \in BOOLEAN
  /\ timers \in SUBSET (1..MaxTimers)
  /\ armed \in 0..MaxTimers
  /\ window \in 0..MaxTimers
  /\ arming \in BOOLEAN

SaveInit ==
  /\ save_fpfilter_images = FALSE
  /\ timers = {}
  /\ armed = 0
  /\ window = 0
  /\ arming = FALSE

-----------------------------------------------------------------------------
(* Variants of the definitions below as a plausible mistake would have      *)
(* written them; the checks of the project substitute them.                 *)

\* The timeout is armed before the flag is set.
ArmsBeforeEnabling ==
  \/ /\ ~arming
     /\ armed < MaxTimers
     /\ armed' = armed + 1
     /\ timers' = timers \cup {armed + 1}
     /\ window' = armed + 1
     /\ arming' = TRUE
     /\ UNCHANGED save_fpfilter_images
  \/ /\ arming
     /\ save_fpfilter_images' = TRUE
     /\ arming' = FALSE
     /\ UNCHANGED <<timers, armed, window>>

-----------------------------------------------------------------------------
(* The requests, run by the prompt server thread.                           *)

\* "save-fp-enable" without a duration: enable_fpfilter_images_save.
SaveFpEnable ==
  /\ ~arming
  /\ save_fpfilter_images' = TRUE
  /\ window' = 0
  /\ UNCHANGED <<timers, armed, arming>>

\* "save-fp-enable" with a duration: enable_fpfilter_images_save_duration
\* sets the flag, then calls g_timeout_add.  An earlier timeout stays.
SaveFpEnableFor ==
  \/ /\ ~arming
     /\ armed < MaxTimers
     /\ save_fpfilter_images' = TRUE
     /\ armed' = armed + 1
     /\ window' = armed + 1
     /\ arming' = TRUE
     /\ UNCHANGED timers
  \/ /\ arming
     /\ timers' = timers \cup {armed}
     /\ arming' = FALSE
     /\ UNCHANGED <<save_fpfilter_images, armed, window>>

\* disable_fpfilter_images_save, by itself ("save-fp-disable") or as a step of
\* enabling and of disabling the filter.  No timeout is removed.
SaveFpDisable ==
  /\ ~arming
  /\ save_fpfilter_images' = FALSE
  /\ UNCHANGED <<timers, armed, window, arming>>

\* disable_fpfilter_images_save_duration on the main loop: it clears the flag
\* and returns FALSE, so that GLib drops the timeout.
SaveTimeout(k) ==
  /\ k \in timers
  /\ save_fpfilter_images' = FALSE
  /\ timers' = timers \ {k}
  /\ UNCHANGED <<armed, window, arming>>

-----------------------------------------------------------------------------
(* Properties.                                                              *)

\* A window opened for a duration is over once its timeout has expired: the
\* flag is never left set behind the timer that should have cleared it, in
\* whatever order the server's two steps and the main loop run.
WindowEndsWithItsTimer ==
  (window > 0 /\ window \notin timers /\ ~arming) => ~save_fpfilter_images

\* Between its two steps a request with a duration owns the newest number.
SaveInv ==
  /\ arming => armed > 0 /\ window = armed
  /\ WindowEndsWithItsTimer

\* A timeout ends the window that asked for it and no other: a request made
\* while an older timeout is pending keeps its own duration.
TimeoutEndsItsOwnWindow ==
  [][\A k \in timers \ timers' :
        save_fpfilter_images /\ ~save_fpfilter_images' => window = k]_saveVars
=============================================================================
