---------------------------- MODULE ServiceContract ----------------------------
(***************************************************************************)
(* What a managed service promises to the supervisor: requests and polls   *)
(* change its view only as ServiceView says, and a service that was asked  *)
(* to stop is not up until somebody asks for it again.                     *)
(***************************************************************************)
EXTENDS ServiceView

VARIABLES view,   \* what the supervisor sees
          held    \* the last request was a stop

Init == view = NewView /\ held = FALSE

Start(v, w) == may_start(v, w) /\ held' = FALSE

Stop(v, w) == may_stop(v, w) /\ held' = TRUE

Restart(v, w) == may_restart(v, w) /\ held' = FALSE

TimeOut(v, w) == may_time_out(v, w) /\ held' = held

Reset(v, w) == may_reset(v, w) /\ held' = held

Poll(v, w) ==
  /\ may_refresh(v, w) \/ may_poll(v, w)
  /\ held' = held
  /\ held => ~ service_was_up(w)

Step(v, w) ==
  /\ WellFormed(w)
  /\ \/ Poll(v, w) \/ Start(v, w) \/ Stop(v, w) \/ Restart(v, w)
     \/ TimeOut(v, w) \/ Reset(v, w)

Next == Step(view, view')

Spec == Init /\ [][Next]_<<view, held>>

=============================================================================
