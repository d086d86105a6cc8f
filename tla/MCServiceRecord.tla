--------------------------- MODULE MCServiceRecord ---------------------------
(***************************************************************************)
(* Instances of ServiceRecord for TLC.                                     *)
(***************************************************************************)
EXTENDS ServiceRecord

\* A descriptor with the parts a run does not vary at their defaults.
Plain == [service_type |-> "Simple", restart |-> "Never", restart_limit |-> 1,
          remain_after_exit |-> FALSE, has_stop |-> FALSE,
          success_exit_status |-> {}, restart_prevent_exit_status |-> {}]

\* Each policy, each way of becoming ready, and the fields that overrule the
\* policy, one deviation from the plain descriptor at a time.
MCSpecs ==
  {[Plain EXCEPT !.restart = policy] : policy \in RestartPolicy} \cup
  {[Plain EXCEPT !.service_type = type, !.restart = policy] :
     type \in {"Notify", "Forking", "Socket"}, policy \in {"OnFailure", "Always"}} \cup
  {[Plain EXCEPT !.restart = "OnSuccess", !.success_exit_status = {2}],
   [Plain EXCEPT !.restart = "Always", !.restart_prevent_exit_status = {1}],
   [Plain EXCEPT !.restart = "OnFailure", !.has_stop = TRUE],
   [Plain EXCEPT !.service_type = "Oneshot", !.remain_after_exit = TRUE,
                 !.restart = "Always", !.restart_limit = 2],
   [Plain EXCEPT !.restart = "Always", !.restart_limit = 0]}

=============================================================================
