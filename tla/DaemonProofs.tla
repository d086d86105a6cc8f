---------------------------- MODULE DaemonProofs ----------------------------
(***************************************************************************)
(* Proofs about the manager process and the users of its control socket    *)
(* (Daemon, Fractalctl), for every number of users, every set of           *)
(* descriptors and every limit of the log and of the tables.               *)
(***************************************************************************)
EXTENDS Fractalctl, FiniteSetTheorems, SequenceTheorems, WellFoundedInduction, TLAPS

-----------------------------------------------------------------------------
(***************************************************************************)
(* The connections: who waits in the queue, whose request is served, and   *)
(* who is gone.                                                            *)
(***************************************************************************)

ManagerFields ==
  {"pc", "then", "bound", "loud", "seq", "last", "fresh", "txs", "next_tx", "feeds", "backlog",
   "client", "resp", "specs", "stopping", "waits", "signal", "action", "power", "end"}
UserFields == {"cmd", "arg", "at", "conn", "line", "ans", "tries", "ret", "held"}

\* The manager keeps everything but these fields.
Keeps(fields) ==
  DOMAIN mgr' = ManagerFields /\ \A f \in ManagerFields \ fields : mgr'[f] = mgr[f]

\* The structures have their fields.
ShapeInv ==
  /\ DOMAIN mgr = ManagerFields
  /\ DOMAIN mgr.feeds = Clients /\ DOMAIN cli = Clients
  /\ \A c \in Clients : DOMAIN cli[c] = UserFields

\* A manager that runs has no end yet, and knows where it goes on.
RunningInv ==
  /\ mgr.pc # "down" => mgr.end = "none" /\ mgr.power = "none"
  /\ mgr.pc = "observe" => mgr.then \in {"bring", "bind", "accept", "drain", "late"}

\* A user who is gone stays gone, and one without a command asks nothing.
Sound(k) ==
  /\ k.conn = "gone" <=> k.cmd = "gone"
  /\ k.cmd = "idle" => k.conn = "none"

\* Who waits to be accepted waits once; and the client whose request is
\* served is still there or was interrupted, and has not subscribed.
QueueInv ==
  /\ mgr.backlog \in Seq(Clients)
  /\ \A i, j \in 1 .. Len(mgr.backlog) : mgr.backlog[i] = mgr.backlog[j] => i = j
  /\ \A i \in 1 .. Len(mgr.backlog) : cli[mgr.backlog[i]].conn \in {"queued", "gone"}
  /\ mgr.pc \in {"answer", "wait"} =>
       LET c == mgr.client[1]
       IN  /\ c \in Clients /\ cli[c].conn \in {"taken", "gone"}
           /\ \A i \in 1 .. Len(mgr.backlog) : mgr.backlog[i] # c
           /\ request_parse(cli[c].line).tag # "SUBSCRIBE"
  /\ \A c \in Clients : Sound(cli[c])

EndIInv == ShapeInv /\ RunningInv /\ QueueInv

(***************************************************************************)
(* A step of a user: it asks, which puts it into the queue of a manager    *)
(* that listens, or it goes on without the manager.                        *)
(***************************************************************************)
Free(c) == cli[c].conn \in {"none", "answered"} /\ cli[c].cmd \notin {"idle", "gone"}

OnlyUser(c) ==
  /\ DOMAIN cli' = Clients /\ DOMAIN cli'[c] = UserFields
  /\ \A d \in Clients \ {c} : cli'[d] = cli[d]

UserStep(c) ==
  /\ Free(c) /\ OnlyUser(c) /\ Sound(cli'[c])
  /\ \/ cli'[c].conn = "queued" /\ Listening /\ mgr' = [mgr EXCEPT !.backlog = Append(@, c)]
     \/ /\ cli'[c].conn \in {"none", "answered"} /\ Keeps({"feeds"})
        /\ DOMAIN mgr'.feeds = Clients
        /\ \A d \in Clients : mgr'.feeds[d] = mgr.feeds[d] \/ (d = c /\ mgr'.feeds[d] = NoFeed)

(***************************************************************************)
(* What a user may do to the manager: start it, or kill it.                *)
(***************************************************************************)
Launches(c) ==
  /\ Free(c) /\ OnlyUser(c) /\ cli'[c].cmd # "gone" /\ cli'[c].conn = "none"
  /\ mgr.pc = "down" /\ mgr' = [NoManager("none") EXCEPT !.pc = "load"]
  /\ UNCHANGED <<mix, disk, reg, sealed>>

Kills(c) ==
  /\ Free(c) /\ cli[c].cmd = "start_daemon"
  /\ mgr' = NoManager("killed") /\ reg' = Empty
  /\ cli' = [Disconnected EXCEPT ![c] = NoUser]
  /\ UNCHANGED <<mix, left, disk, sealed>>

(***************************************************************************)
(* Asking, going on and returning are steps of a user.                     *)
(***************************************************************************)
LEMMA GoesOn ==
  ASSUME ShapeInv, NEW c \in Clients, Free(c), NEW k, DOMAIN k = UserFields, Sound(k),
         k.conn \in {"none", "answered"}, cli' = [cli EXCEPT ![c] = k], mgr' = mgr
  PROVE  UserStep(c) /\ cli'[c] = k
<1>1. cli'[c] = k /\ OnlyUser(c)
  BY DEF ShapeInv, OnlyUser
<1>2. Keeps({"feeds"})
  BY DEF ShapeInv, Keeps
<1> QED BY <1>1, <1>2 DEF UserStep, ShapeInv, Sound

LEMMA AskSteps ==
  ASSUME ShapeInv, NEW c \in Clients, NEW k, DOMAIN k = UserFields, k.cmd \notin {"idle", "gone"}, Free(c),
         NEW tag, NEW arg, NEW at, Ask(c, k, tag, arg, at)
  PROVE  UserStep(c) /\ cli'[c].cmd = k.cmd /\ cli'[c].at = at
<1> DEFINE asked == [k EXCEPT !.conn = "queued", !.at = at, !.ans = Down,
                              !.line = request_as_line(Request(tag, arg))]
           told == [k EXCEPT !.conn = "answered", !.at = at, !.ans = Down]
<1>1. /\ DOMAIN asked = UserFields /\ DOMAIN told = UserFields
      /\ asked.conn = "queued" /\ told.conn = "answered"
      /\ asked.cmd = k.cmd /\ told.cmd = k.cmd /\ asked.at = at /\ told.at = at
  BY DEF UserFields
<1>2. CASE Listening
  <2>1. cli' = [cli EXCEPT ![c] = asked] /\ mgr' = [mgr EXCEPT !.backlog = Append(@, c)]
    BY <1>2 DEF Ask
  <2> HIDE DEF asked
  <2> QED BY <2>1, <1>1, <1>2 DEF UserStep, OnlyUser, ShapeInv, Sound
<1>3. CASE ~ Listening
  <2>1. cli' = [cli EXCEPT ![c] = told] /\ mgr' = mgr
    BY <1>3 DEF Ask
  <2> HIDE DEF told
  <2> QED BY <2>1, <1>1, GoesOn DEF Sound
<1> QED BY <1>2, <1>3

LEMMA GotoSteps ==
  ASSUME ShapeInv, NEW c \in Clients, Free(c), NEW at, Goto(c, at)
  PROVE  UserStep(c) /\ mgr' = mgr
<1> DEFINE k == [cli[c] EXCEPT !.at = at, !.conn = "none"]
<1>1. DOMAIN k = UserFields /\ k.conn = "none" /\ k.cmd = cli[c].cmd
  BY DEF ShapeInv, UserFields
<1>2. cli' = [cli EXCEPT ![c] = k] /\ mgr' = mgr
  BY DEF Goto, ShapeInv
<1> HIDE DEF k
<1> QED BY <1>1, <1>2, GoesOn DEF Free, Sound

LEMMA BecomeSteps ==
  ASSUME ShapeInv, NEW c \in Clients, Free(c), NEW cmd, cmd \notin {"idle", "gone"}, Become(c, cmd)
  PROVE  UserStep(c) /\ mgr' = mgr /\ cli'[c].cmd = cmd
<1> DEFINE k == [cli[c] EXCEPT !.cmd = cmd, !.at = "begin", !.conn = "none"]
<1>1. DOMAIN k = UserFields /\ k.conn = "none" /\ k.cmd = cmd
  BY DEF ShapeInv, UserFields
<1>2. cli' = [cli EXCEPT ![c] = k] /\ mgr' = mgr
  BY DEF Become, ShapeInv
<1> HIDE DEF k
<1> QED BY <1>1, <1>2, GoesOn DEF Free, Sound

LEMMA ReturnToSteps ==
  ASSUME ShapeInv, NEW c \in Clients, Free(c), NEW cmd, cmd \notin {"idle", "gone"}, NEW at, ReturnTo(c, cmd, at)
  PROVE  UserStep(c) /\ mgr' = mgr /\ cli'[c].cmd = cmd
<1> DEFINE k == [cli[c] EXCEPT !.cmd = cmd, !.at = at, !.conn = "none", !.tries = 0]
<1>1. DOMAIN k = UserFields /\ k.conn = "none" /\ k.cmd = cmd
  BY DEF ShapeInv, UserFields
<1>2. cli' = [cli EXCEPT ![c] = k] /\ mgr' = mgr
  BY DEF ReturnTo, ShapeInv
<1> HIDE DEF k
<1> QED BY <1>1, <1>2, GoesOn DEF Free, Sound

LEMMA ReturnSteps ==
  ASSUME ShapeInv, NEW c \in Clients, Free(c), Return(c)
  PROVE  UserStep(c) /\ cli'[c] = NoUser
<1>1. cli'[c] = NoUser /\ OnlyUser(c)
  BY DEF ShapeInv, Return, OnlyUser, UserFields, NoUser
<1>2. /\ Keeps({"feeds"}) /\ DOMAIN mgr'.feeds = Clients
      /\ \A d \in Clients : mgr'.feeds[d] = mgr.feeds[d] \/ (d = c /\ mgr'.feeds[d] = NoFeed)
  BY DEF ShapeInv, Return, Keeps, ManagerFields
<1> QED BY <1>1, <1>2 DEF UserStep, NoUser, Sound

(***************************************************************************)
(* Every command moves its user, or starts or kills the manager, or lifts  *)
(* a mask, which takes the hold of others that mask the same name.         *)
(***************************************************************************)
Lifts(c) ==
  /\ Free(c) /\ DOMAIN cli' = Clients /\ mgr' = mgr
  /\ \A d \in Clients : /\ DOMAIN cli'[d] = UserFields
                        /\ \A f \in UserFields \ {"at", "held"} : cli'[d][f] = cli[d][f]
  /\ \A d \in Clients \ {c} : cli'[d].at = cli[d].at /\ (cli'[d].held => cli[d].held)

LEMMA SingleMoves ==
  ASSUME ShapeInv, NEW c \in Clients, NEW cmd, cmd \notin {"idle", "gone"}, NEW tag, Single(c, cmd, tag)
  PROVE  UserStep(c)
<1>1. Free(c)
  BY DEF Single, Now, Free
<1>2. DOMAIN cli[c] = UserFields /\ cli[c].cmd \notin {"idle", "gone"}
  BY <1>1 DEF ShapeInv, Free
<1> QED BY <1>1, <1>2, AskSteps, ReturnSteps DEF Single

LEMMA CommandMoves ==
  ASSUME ShapeInv, NEW c \in Clients, run(c)
  PROVE  UserStep(c) \/ Launches(c) \/ Kills(c) \/ Lifts(c)
<1> USE DEF ShapeInv
<1>1. Free(c)
  BY DEF run, Now, Free, Single, service_request, start_service, start_daemon, stop_daemon,
         stop_service, enable_service, disable_service, mask_service, unmask_service,
         follow_events, daemon_status, isolate_service, service_status, restart_service,
         reset_failed_of, list_services, reload_services, reload_service_of, is_active,
         is_failed, transaction_status
<1>2. DOMAIN cli[c] = UserFields /\ cli[c].cmd \notin {"idle", "gone"}
  BY <1>1 DEF Free
<1>3. \A at : current_status(c, at) => UserStep(c)
  BY <1>1, <1>2, AskSteps DEF current_status
<1>4. \A tag, arg, at : Ask(c, cli[c], tag, arg, at) => UserStep(c)
  BY <1>1, <1>2, AskSteps
<1>5. DOMAIN [cli[c] EXCEPT !.tries = @ + 1] = UserFields /\ [cli[c] EXCEPT !.tries = @ + 1].cmd \notin {"idle", "gone"}
  BY <1>2 DEF UserFields
<1>6. \A tag, arg, at : Ask(c, [cli[c] EXCEPT !.tries = @ + 1], tag, arg, at) => UserStep(c)
  BY <1>1, <1>5, AskSteps
<1>7. \A at : Goto(c, at) => UserStep(c)
  BY <1>1, GotoSteps
<1>8. \A cmd : cmd \notin {"idle", "gone"} /\ Become(c, cmd) => UserStep(c)
  BY <1>1, BecomeSteps
<1>9. \A cmd, at : cmd \notin {"idle", "gone"} /\ ReturnTo(c, cmd, at) => UserStep(c)
  BY <1>1, ReturnToSteps
<1>10. Return(c) => UserStep(c)
  BY <1>1, ReturnSteps
<1>11. ASSUME NEW cmd, cmd \notin {"idle", "gone"}, NEW ret,
              cli' = [cli EXCEPT ![c] = [cli[c] EXCEPT !.cmd = cmd, !.at = "begin",
                                                       !.conn = "none", !.ret = ret]],
              mgr' = mgr
       PROVE  UserStep(c)
  <2> DEFINE k == [cli[c] EXCEPT !.cmd = cmd, !.at = "begin", !.conn = "none", !.ret = ret]
  <2>1. DOMAIN k = UserFields /\ k.conn = "none" /\ k.cmd = cmd
    BY <1>2 DEF UserFields
  <2> HIDE DEF k
  <2> QED BY <1>1, <1>11, <2>1, GoesOn DEF k, Sound
<1> HIDE DEF ShapeInv
<1>12. start_service(c) => UserStep(c)
  BY <1>3, <1>4, <1>7, <1>8, <1>10 DEF start_service
<1>13. stop_daemon(c) => UserStep(c)
  BY <1>4, <1>6, <1>7, <1>10 DEF stop_daemon
<1>14. StopReturns(c) => UserStep(c)
  BY <1>9, <1>10 DEF StopReturns
<1>15. stop_service(c) => UserStep(c)
  BY <1>4, <1>6, <1>7, <1>10, <1>14 DEF stop_service
<1>16. enable_service(c) => UserStep(c)
  BY <1>3, <1>4, <1>8, <1>10 DEF enable_service
<1>17. disable_service(c) => UserStep(c)
  BY <1>3, <1>4, <1>7, <1>10, <1>11 DEF disable_service
<1>18. follow_events(c) => UserStep(c)
  BY <1>4, <1>10 DEF follow_events
<1>19. ASSUME mask_service(c) PROVE UserStep(c)
  <2> DEFINE marked == [cli[c] EXCEPT !.at = "marked", !.conn = "none", !.held = TRUE]
  <2>1. DOMAIN marked = UserFields /\ marked.conn = "none" /\ marked.cmd \notin {"idle", "gone"}
    BY <1>2 DEF UserFields
  <2> HIDE DEF marked
  <2>2. cli' = [cli EXCEPT ![c] = marked] /\ mgr' = mgr => UserStep(c)
    BY <1>1, <2>1, GoesOn DEF Sound
  <2> QED BY <1>3, <1>4, <1>7, <1>10, <1>11, <1>19, <2>2 DEF mask_service, marked
<1>20. ASSUME start_daemon(c) PROVE UserStep(c) \/ Launches(c) \/ Kills(c)
  <2> DEFINE ready == [cli[c] EXCEPT !.at = "ready", !.conn = "none"]
             Up == IF Got(c, "STATUS") /\ cli[c].arg # << >>
                   THEN ReturnTo(c, "start_service", "go") ELSE Return(c)
  <2>1. DOMAIN ready = UserFields /\ ready.conn = "none" /\ ready.cmd \notin {"idle", "gone"}
    BY <1>2 DEF UserFields
  <2> HIDE DEF ready
  <2>2. ASSUME cli' = [cli EXCEPT ![c] = ready], mgr.pc = "down",
               mgr' = [NoManager("none") EXCEPT !.pc = "load"], UNCHANGED <<mix, disk, reg, sealed>>
        PROVE  Launches(c)
    <3>1. cli'[c] = ready /\ OnlyUser(c)
      BY <2>1, <2>2 DEF OnlyUser, ShapeInv
    <3> QED BY <1>1, <2>1, <2>2, <3>1 DEF Launches
  <2>3. Up => UserStep(c)
    BY <1>9, <1>10
  <2>4. CASE Now(c, "start_daemon", "probe") /\ Got(c, "down") /\ mgr.pc = "down" /\ left.boots > 0
    BY <1>20, <2>2, <2>4 DEF start_daemon, ready, Now
  <2>5. CASE Now(c, "start_daemon", "ready") /\ cli[c].tries = Attempts /\ mgr' = NoManager("killed")
    BY <1>1, <1>6, <1>7, <1>10, <1>20, <2>3, <2>5 DEF start_daemon, Now, Kills
  <2>6. CASE ~ (Now(c, "start_daemon", "probe") /\ Got(c, "down") /\ mgr.pc = "down" /\ left.boots > 0)
             /\ ~ (Now(c, "start_daemon", "ready") /\ cli[c].tries = Attempts /\ mgr' = NoManager("killed"))
    BY <1>3, <1>6, <1>7, <1>10, <1>20, <2>3, <2>6 DEF start_daemon
  <2> QED BY <2>4, <2>5, <2>6
<1>21. ASSUME unmask_service(c) PROVE UserStep(c) \/ Lifts(c)
  <2>1. CASE Now(c, "unmask_service", "begin")
    <3> DEFINE next == [d \in Clients |->
                          IF d = c THEN [cli[c] EXCEPT !.at = "cleared"]
                          ELSE IF cli[d].cmd = "mask_service" /\ Name(d).n = Name(c).n
                          THEN [cli[d] EXCEPT !.held = FALSE] ELSE cli[d]]
    <3>1. CASE cli' = next /\ mgr' = mgr
      <4>1. ASSUME NEW d \in Clients
            PROVE  /\ DOMAIN next[d] = UserFields
                   /\ \A f \in UserFields \ {"at", "held"} : next[d][f] = cli[d][f]
        BY DEF ShapeInv, UserFields
      <4>3. ASSUME NEW d \in Clients \ {c}
            PROVE  next[d].at = cli[d].at /\ (next[d].held => cli[d].held)
        BY DEF ShapeInv, UserFields
      <4> HIDE DEF next
      <4>2. DOMAIN next = Clients
        BY DEF next
      <4> QED BY <1>1, <3>1, <4>1, <4>2, <4>3 DEF Lifts
    <3>2. ~ Now(c, "unmask_service", "cleared") /\ ~ Now(c, "unmask_service", "probe")
          /\ ~ Now(c, "unmask_service", "reloaded")
      BY <2>1 DEF Now
    <3>3. cli' = next /\ mgr' = mgr
      BY <1>21, <3>2 DEF unmask_service
    <3> QED BY <3>1, <3>3
  <2>2. CASE ~ Now(c, "unmask_service", "begin")
    BY <1>3, <1>4, <1>10, <1>21, <2>2 DEF unmask_service
  <2> QED BY <2>1, <2>2
<1>22. \/ service_request(c) \/ daemon_status(c) \/ isolate_service(c) \/ service_status(c)
       \/ restart_service(c) \/ reset_failed_of(c) \/ list_services(c) \/ reload_services(c)
       \/ reload_service_of(c) \/ is_active(c) \/ is_failed(c) \/ transaction_status(c)
       => UserStep(c)
  BY SingleMoves
     DEF service_request, daemon_status, isolate_service, service_status, restart_service,
         reset_failed_of, list_services, reload_services, reload_service_of, is_active,
         is_failed, transaction_status
<1> QED BY <1>12, <1>13, <1>15, <1>16, <1>17, <1>18, <1>19, <1>20, <1>21, <1>22 DEF run

-----------------------------------------------------------------------------
(***************************************************************************)
(* What the handlers of the requests leave alone.                          *)
(***************************************************************************)
HandlerFields == {"resp", "txs", "next_tx", "then", "action", "pc", "specs", "stopping", "waits"}

HandledFrom(m, e) ==
  /\ DOMAIN e.m = ManagerFields
  /\ \A f \in ManagerFields \ HandlerFields : e.m[f] = m[f]
  /\ e.m.pc \in {m.pc, "wait"} /\ e.m.then \in {m.then, "drain"}

LEMMA AnsweredFrom ==
  ASSUME NEW m, DOMAIN m = ManagerFields
  PROVE  /\ \A r, resp : HandledFrom(m, Effect(r, Answered(m, resp)))
         /\ \A r, op, n : HandledFrom(m, Effect(r, accepted_transaction(m, op, n)))
<1>1. ASSUME NEW r, NEW resp PROVE HandledFrom(m, Effect(r, Answered(m, resp)))
  <2>1. DOMAIN Answered(m, resp) = ManagerFields
    BY DEF Answered
  <2>2. \A f \in ManagerFields \ {"resp"} : Answered(m, resp)[f] = m[f]
    BY DEF Answered
  <2> QED BY <2>1, <2>2 DEF HandledFrom, Effect, ManagerFields, HandlerFields
<1>2. ASSUME NEW r, NEW op, NEW n PROVE HandledFrom(m, Effect(r, accepted_transaction(m, op, n)))
  <2>1. DOMAIN accepted_transaction(m, op, n) = ManagerFields
    BY DEF accepted_transaction
  <2>2. \A f \in ManagerFields \ {"resp", "txs", "next_tx"} : accepted_transaction(m, op, n)[f] = m[f]
    BY DEF accepted_transaction
  <2> QED BY <2>1, <2>2 DEF HandledFrom, Effect, ManagerFields, HandlerFields
<1> QED BY <1>1, <1>2

LEMMA OperationFrom ==
  ASSUME NEW m, DOMAIN m = ManagerFields, NEW s, NEW op
  PROVE  \A e \in Operation(m, s, op) : HandledFrom(m, e)
BY AnsweredFrom DEF Operation

LEMMA HandledKeeps ==
  ASSUME NEW m, DOMAIN m = ManagerFields, NEW q, NEW e \in Handled(m, q)
  PROVE  HandledFrom(m, e)
<1>1. \A s : ServiceStatus(m, s) = {} \/ \A f \in ServiceStatus(m, s) : HandledFrom(m, f)
  BY AnsweredFrom DEF ServiceStatus
<1>2. \A arg : \A f \in ResetFailed(m, arg) : HandledFrom(m, f)
  BY AnsweredFrom DEF ResetFailed
<1>3. ASSUME NEW action, NEW f \in Shutdown(m, action) PROVE HandledFrom(m, f)
  <2> DEFINE x == [m EXCEPT !.resp = Reply("STOPPING", << >>), !.then = "drain",
                            !.action = IF action = "stop" THEN "none" ELSE action]
  <2>1. DOMAIN x = ManagerFields /\ x.then = "drain"
    BY DEF ManagerFields
  <2>2. \A g \in ManagerFields \ {"resp", "then", "action"} : x[g] = m[g]
    OBVIOUS
  <2>3. f = Effect(reg, Answered(m, Error("not pid 1"))) \/ f = Effect(stop_all(reg), x)
    BY <1>3 DEF Shutdown
  <2> HIDE DEF x
  <2>4. HandledFrom(m, Effect(stop_all(reg), x))
    BY <2>1, <2>2 DEF HandledFrom, Effect, ManagerFields, HandlerFields
  <2> QED BY <2>3, <2>4, AnsweredFrom
<1>4. ASSUME NEW f \in BeginReload(m) PROVE HandledFrom(m, f)
  <2> DEFINE specs == load_service_specs(disk)
             stopping == {n \in Loaded(reg) : Changed(reg, specs, n) /\ ~ Stopped(reg.services[n])}
             x == [m EXCEPT !.pc = "wait", !.specs = specs, !.stopping = stopping, !.waits = 0]
             r == [Stopping(reg, stopping) EXCEPT !.jobs = @ \ stopping]
  <2>1. f = Effect(reg, Answered(m, Error("not readable"))) \/ f = Effect(r, x)
    BY <1>4 DEF BeginReload
  <2> HIDE DEF specs, stopping, r
  <2>2. DOMAIN x = ManagerFields /\ x.pc = "wait"
    BY DEF ManagerFields
  <2>3. \A g \in ManagerFields \ {"pc", "specs", "stopping", "waits"} : x[g] = m[g]
    OBVIOUS
  <2> HIDE DEF x
  <2>4. HandledFrom(m, Effect(r, x))
    BY <2>2, <2>3 DEF HandledFrom, Effect, ManagerFields, HandlerFields
  <2> QED BY <2>1, <2>4, AnsweredFrom
<1>5. \A s, op : \A f \in Operation(m, s, op) : HandledFrom(m, f)
  BY OperationFrom
<1> QED BY <1>1, <1>2, <1>3, <1>4, <1>5, AnsweredFrom
        DEF Handled, StartService, StopService, RestartService, IsolateService, ReloadService

-----------------------------------------------------------------------------
(***************************************************************************)
(* How the manager ends.                                                   *)
(***************************************************************************)

LEMMA NoManagerIs ==
  ASSUME NEW why
  PROVE  LET n == NoManager(why) IN
         /\ DOMAIN n = ManagerFields /\ n.pc = "down" /\ n.end = why /\ n.power = "none"
         /\ n.backlog = << >> /\ DOMAIN n.feeds = Clients /\ n.then = "none" /\ n.action = "none"
BY DEF NoManager, ManagerFields

LEMMA DisconnectedIs ==
  ASSUME ShapeInv, NEW c \in Clients
  PROVE  /\ DOMAIN Disconnected[c] = UserFields
         /\ Disconnected[c].cmd = cli[c].cmd
         /\ Disconnected[c].conn \in {cli[c].conn, "answered"}
         /\ Disconnected[c].conn # cli[c].conn => cli[c].conn \in {"queued", "taken", "following"}
         /\ Disconnected[c].line = cli[c].line
BY DEF ShapeInv, Disconnected, UserFields

(***************************************************************************)
(* With nobody in the queue of a manager that is down or loads, nothing    *)
(* is left of the invariant but who is gone.                               *)
(***************************************************************************)
LEMMA DownIsFine ==
  ASSUME EndIInv, mgr'.pc \in {"down", "load"}, DOMAIN mgr' = ManagerFields, mgr'.backlog = << >>,
         DOMAIN mgr'.feeds = Clients, mgr'.pc = "load" => mgr'.end = "none" /\ mgr'.power = "none",
         DOMAIN cli' = Clients,
         \A c \in Clients : /\ DOMAIN cli'[c] = UserFields
                            /\ Sound(cli'[c])
  PROVE  EndIInv'
BY DEF EndIInv, ShapeInv, RunningInv, QueueInv, Sound

LEMMA EndProcessIsFine ==
  ASSUME EndIInv, NEW why, EndProcess(why)
  PROVE  EndIInv' /\ mgr'.pc = "down" /\ mgr'.end = why
         /\ mgr'.power = IF why = "stopped" THEN mgr.action ELSE "none"
<1>1. /\ mgr'.pc = "down" /\ mgr'.end = why /\ DOMAIN mgr' = ManagerFields /\ mgr'.backlog = << >>
      /\ DOMAIN mgr'.feeds = Clients
      /\ mgr'.power = IF why = "stopped" THEN mgr.action ELSE "none"
  BY NoManagerIs DEF EndProcess, ManagerFields
<1>2. cli' = Disconnected /\ DOMAIN cli' = Clients
  BY DEF EndProcess, Disconnected
<1>3. \A c \in Clients : /\ DOMAIN cli'[c] = UserFields
                         /\ Sound(cli'[c])
  BY <1>2, DisconnectedIs DEF EndIInv, QueueInv, ShapeInv, Sound
<1> QED BY <1>1, <1>2, <1>3, DownIsFine

-----------------------------------------------------------------------------
(***************************************************************************)
(* The steps of the manager.                                               *)
(***************************************************************************)

\* The last step of a manager is an answer nobody reads, and power is only
\* switched when nothing is left.
EndsRightly ==
  /\ mgr.pc # "down" /\ mgr'.end = "answer lost" =>
       \E c \in Clients : cli[c].cmd = "gone" /\ request_parse(cli[c].line).tag # "SUBSCRIBE"
  /\ mgr'.power # "none" /\ mgr.power = "none" => is_stopped(reg)

Places == {"bring", "bind", "accept", "drain", "late"}

(***************************************************************************)
(* A step that leaves the connections alone.                               *)
(***************************************************************************)
LEMMA PlainStep ==
  ASSUME EndIInv, mgr.pc # "down", DOMAIN mgr' = ManagerFields, DOMAIN mgr'.feeds = Clients,
         mgr'.end = mgr.end, mgr'.power = mgr.power, mgr'.backlog = mgr.backlog,
         mgr'.client = mgr.client, mgr'.pc = "observe" => mgr'.then \in Places,
         mgr'.pc \in {"answer", "wait"} => mgr.pc \in {"answer", "wait"}, cli' = cli
  PROVE  EndIInv' /\ EndsRightly
<1>1. ShapeInv'
  BY DEF EndIInv, ShapeInv
<1>2. RunningInv'
  BY DEF EndIInv, RunningInv, Places
<1>3. QueueInv'
  BY DEF EndIInv, QueueInv, Sound
<1>4. EndsRightly
  BY DEF EndIInv, RunningInv, EndsRightly
<1> QED BY <1>1, <1>2, <1>3, <1>4 DEF EndIInv

LEMMA LoadEnds == EndIInv /\ Load => EndIInv' /\ EndsRightly
<1> SUFFICES ASSUME EndIInv, Load PROVE EndIInv' /\ EndsRightly
  OBVIOUS
<1>1. CASE EndProcess("refused")
  <2>1. EndIInv' /\ mgr'.pc = "down" /\ mgr'.end = "refused"
        /\ mgr'.power = IF "refused" = "stopped" THEN mgr.action ELSE "none"
    BY <1>1, EndProcessIsFine
  <2> QED BY <2>1 DEF EndsRightly
<1>2. CASE mgr' = [mgr EXCEPT !.pc = "observe", !.then = "bring", !.seq = OpenSequence(disk.log)]
           /\ cli' = cli
  <2>1. /\ DOMAIN mgr' = ManagerFields /\ mgr'.feeds = mgr.feeds /\ mgr'.end = mgr.end
        /\ mgr'.power = mgr.power /\ mgr'.backlog = mgr.backlog /\ mgr'.client = mgr.client
        /\ mgr'.pc = "observe" /\ mgr'.then = "bring"
    BY <1>2 DEF EndIInv, ShapeInv, ManagerFields
  <2> QED BY <1>2, <2>1, PlainStep DEF Load, EndIInv, ShapeInv, Places
<1> QED BY <1>1, <1>2 DEF Load

LEMMA PlainEnds ==
  ASSUME EndIInv, Bring \/ bind_listener \/ Turn \/ ObserveOne \/ ReloadWait \/ ReloadApply \/ Drain
  PROVE  EndIInv' /\ EndsRightly
<1> DEFINE Plain0 ==
             /\ DOMAIN mgr' = ManagerFields /\ mgr'.feeds = mgr.feeds /\ mgr'.end = mgr.end
             /\ mgr'.power = mgr.power /\ mgr'.backlog = mgr.backlog /\ mgr'.client = mgr.client
             /\ mgr.pc # "down" /\ cli' = cli
             /\ mgr'.pc = "observe" => mgr'.then \in Places
             /\ mgr'.pc \in {"answer", "wait"} => mgr.pc \in {"answer", "wait"}
<1>0. DOMAIN mgr = ManagerFields
  BY DEF EndIInv, ShapeInv
<1>1. Bring => Plain0
  BY <1>0 DEF Bring, ManagerFields, Places
<1>2. bind_listener => Plain0
  BY <1>0 DEF bind_listener, ManagerFields, Places
<1>3. ASSUME Turn PROVE Plain0
  <2>1. mgr.pc = "turn" /\ cli' = cli
    BY <1>3 DEF Turn
  <2>2. CASE mgr.signal
    BY <1>0, <1>3, <2>1, <2>2 DEF Turn, ManagerFields, Places
  <2>3. CASE ~ mgr.signal
    <3>1. PICK r \in poll(reg), a \in mix.actions \cup {"none"} :
            \/ mgr' = [mgr EXCEPT !.pc = "observe", !.loud = TRUE, !.then = "drain", !.waits = 0,
                                  !.action = IF mix.pid1 /\ a # "exit" THEN a ELSE "none"]
            \/ mgr' = [mgr EXCEPT !.pc = "observe", !.loud = TRUE, !.then = "accept",
                                  !.txs = refresh_transactions(@, r)]
      BY <1>3, <2>3 DEF Turn
    <3>2. CASE mgr' = [mgr EXCEPT !.pc = "observe", !.loud = TRUE, !.then = "drain", !.waits = 0,
                                  !.action = IF mix.pid1 /\ a # "exit" THEN a ELSE "none"]
      BY <1>0, <2>1, <3>2 DEF ManagerFields, Places
    <3>3. CASE mgr' = [mgr EXCEPT !.pc = "observe", !.loud = TRUE, !.then = "accept",
                                  !.txs = refresh_transactions(@, r)]
      BY <1>0, <2>1, <3>3 DEF ManagerFields, Places
    <3> QED BY <3>1, <3>2, <3>3
  <2> QED BY <2>2, <2>3
<1>4. ObserveOne => Plain0
  BY <1>0 DEF ObserveOne, ManagerFields, Places, EndIInv, RunningInv
<1>5. ReloadWait => Plain0
  BY <1>0 DEF ReloadWait, ManagerFields, Places
<1>6. ReloadApply => Plain0
  BY <1>0 DEF ReloadApply, ManagerFields, Places
<1>7. Drain => Plain0
  BY <1>0 DEF Drain, ManagerFields, Places
<1>8. Plain0
  BY <1>1, <1>2, <1>3, <1>4, <1>5, <1>6, <1>7
<1> QED BY <1>8, PlainStep DEF EndIInv, ShapeInv

LEMMA ObserveEndEnds == EndIInv /\ ObserveEnd => EndIInv' /\ EndsRightly
<1> SUFFICES ASSUME EndIInv, ObserveEnd PROVE EndIInv' /\ EndsRightly
  OBVIOUS
<1>1. PICK slow \in SUBSET {c \in Clients : mgr.feeds[c].on} :
        LET feeds == IF mgr.loud THEN broadcast_events(mgr.feeds, slow, mgr.fresh) ELSE mgr.feeds
        IN  /\ mgr' = [mgr EXCEPT !.pc = mgr.then, !.fresh = << >>, !.loud = FALSE, !.feeds = feeds]
            /\ cli' = [c \in Clients |->
                         IF mgr.feeds[c].on /\ ~ feeds[c].on /\ cli[c].conn = "following"
                         THEN [cli[c] EXCEPT !.conn = "answered", !.ans = Down] ELSE cli[c]]
  BY DEF ObserveEnd
<1> DEFINE feeds == IF mgr.loud THEN broadcast_events(mgr.feeds, slow, mgr.fresh) ELSE mgr.feeds
<1>2. DOMAIN feeds = Clients
  BY DEF broadcast_events, EndIInv, ShapeInv
<1>3. /\ mgr' = [mgr EXCEPT !.pc = mgr.then, !.fresh = << >>, !.loud = FALSE, !.feeds = feeds]
      /\ \A c \in Clients : cli'[c] \in {[cli[c] EXCEPT !.conn = "answered", !.ans = Down], cli[c]}
      /\ \A c \in Clients : cli'[c] # cli[c] => cli[c].conn = "following"
      /\ DOMAIN cli' = Clients
  BY <1>1
<1> HIDE DEF feeds
<1>4. /\ DOMAIN mgr' = ManagerFields /\ DOMAIN mgr'.feeds = Clients /\ mgr'.end = mgr.end
      /\ mgr'.power = mgr.power /\ mgr'.backlog = mgr.backlog /\ mgr'.pc \in Places
  BY <1>2, <1>3 DEF EndIInv, ShapeInv, ManagerFields, ObserveEnd, RunningInv, Places
<1>5. \A c \in Clients : /\ DOMAIN cli'[c] = UserFields /\ cli'[c].cmd = cli[c].cmd
                         /\ cli'[c].conn \in {cli[c].conn, "answered"}
                         /\ cli'[c].conn # cli[c].conn => cli[c].conn = "following"
  BY <1>3 DEF EndIInv, ShapeInv, UserFields
<1>6. mgr.pc = "observe"
  BY DEF ObserveEnd
<1>7. ShapeInv'
  BY <1>3, <1>4, <1>5 DEF ShapeInv
<1>8. RunningInv'
  BY <1>4, <1>6 DEF EndIInv, RunningInv, Places
<1>9. QueueInv'
  <2>1. \A i \in 1 .. Len(mgr'.backlog) : cli'[mgr'.backlog[i]].conn \in {"queued", "gone"}
    BY <1>4, <1>5 DEF EndIInv, QueueInv, Sound
  <2>2. \A c \in Clients : Sound(cli'[c])
    BY <1>5 DEF EndIInv, QueueInv, Sound
  <2>3. mgr'.pc \notin {"answer", "wait"}
    BY <1>4 DEF Places
  <2> QED BY <1>4, <2>1, <2>2, <2>3 DEF EndIInv, QueueInv, Sound
<1>10. EndsRightly
  BY <1>4, <1>6 DEF EndIInv, RunningInv, EndsRightly
<1> QED BY <1>7, <1>8, <1>9, <1>10 DEF EndIInv

LEMMA IdleEnds == EndIInv /\ Idle => EndIInv' /\ EndsRightly
<1> SUFFICES ASSUME EndIInv, Idle PROVE EndIInv' /\ EndsRightly
  OBVIOUS
<1>1. CASE EndProcess("pid file")
  <2>1. EndIInv' /\ mgr'.pc = "down" /\ mgr'.end = "pid file"
        /\ mgr'.power = IF "pid file" = "stopped" THEN mgr.action ELSE "none"
    BY <1>1, EndProcessIsFine
  <2> QED BY <2>1 DEF EndsRightly
<1>2. CASE mgr' = [mgr EXCEPT !.pc = "turn"] /\ cli' = cli
  <2>1. /\ DOMAIN mgr' = ManagerFields /\ mgr'.feeds = mgr.feeds /\ mgr'.end = mgr.end
        /\ mgr'.power = mgr.power /\ mgr'.backlog = mgr.backlog /\ mgr'.client = mgr.client
        /\ mgr'.pc = "turn"
    BY <1>2 DEF EndIInv, ShapeInv, ManagerFields
  <2> QED BY <1>2, <2>1, PlainStep DEF Idle, EndIInv, ShapeInv
<1> QED BY <1>1, <1>2 DEF Idle, LoopEnd

LEMMA DrainedEnds == EndIInv /\ (Drained \/ Late) => EndIInv' /\ EndsRightly
<1>1. EndIInv /\ Drained => EndIInv' /\ EndsRightly
  BY EndProcessIsFine DEF Drained, EndsRightly
<1>2. EndIInv /\ Late => EndIInv' /\ EndsRightly
  BY EndProcessIsFine DEF Late, EndsRightly
<1> QED BY <1>1, <1>2

(***************************************************************************)
(* The head of the queue leaves it.                                        *)
(***************************************************************************)
LEMMA QueueMoves ==
  ASSUME EndIInv, mgr.backlog # << >>
  PROVE  LET c == mgr.backlog[1]
             rest == Tail(mgr.backlog)
         IN  /\ c \in Clients /\ cli[c].conn \in {"queued", "gone"}
             /\ rest \in Seq(Clients)
             /\ \A i, j \in 1 .. Len(rest) : rest[i] = rest[j] => i = j
             /\ \A i \in 1 .. Len(rest) : rest[i] # c /\ rest[i] \in Clients
                                          /\ cli[rest[i]].conn \in {"queued", "gone"}
<1> DEFINE rest == Tail(mgr.backlog)
<1>1. /\ mgr.backlog \in Seq(Clients) /\ Len(mgr.backlog) >= 1
      /\ rest \in Seq(Clients) /\ Len(rest) = Len(mgr.backlog) - 1
      /\ \A i \in 1 .. Len(rest) : rest[i] = mgr.backlog[i + 1] /\ i + 1 \in 1 .. Len(mgr.backlog)
  BY DEF EndIInv, QueueInv, Sound
<1>2. 1 \in 1 .. Len(mgr.backlog) /\ mgr.backlog[1] \in Clients
  BY <1>1
<1> HIDE DEF rest
<1>3. \A i, j \in 1 .. Len(mgr.backlog) : mgr.backlog[i] = mgr.backlog[j] => i = j
  BY DEF EndIInv, QueueInv, Sound
<1>4. \A i \in 1 .. Len(mgr.backlog) : cli[mgr.backlog[i]].conn \in {"queued", "gone"}
  BY DEF EndIInv, QueueInv, Sound
<1>5. ASSUME NEW i \in 1 .. Len(rest), NEW j \in 1 .. Len(rest), rest[i] = rest[j] PROVE i = j
  <2>1. i + 1 = j + 1
    BY <1>1, <1>3, <1>5
  <2> QED BY <1>1, <2>1
<1>6. ASSUME NEW i \in 1 .. Len(rest)
      PROVE  rest[i] # mgr.backlog[1] /\ rest[i] \in Clients /\ cli[rest[i]].conn \in {"queued", "gone"}
  <2>1. i + 1 # 1
    BY <1>1
  <2> QED BY <1>1, <1>2, <1>3, <1>4, <2>1
<1> QED BY <1>1, <1>2, <1>4, <1>5, <1>6 DEF rest

LEMMA AcceptEnds == EndIInv /\ Accept => EndIInv' /\ EndsRightly
<1> SUFFICES ASSUME EndIInv, Accept PROVE EndIInv' /\ EndsRightly
  OBVIOUS
<1> DEFINE c == mgr.backlog[1]
           q == request_parse(cli[c].line)
           m == [mgr EXCEPT !.pc = "answer", !.backlog = Tail(@), !.client = <<c>>, !.then = "turn"]
           rest == Tail(mgr.backlog)
<1>1. mgr.pc = "accept" /\ mgr.backlog # << >> /\ q.tag # "SUBSCRIBE" /\ Serve(c, q)
  BY DEF Accept
<1>2. /\ DOMAIN m = ManagerFields /\ m.pc = "answer" /\ m.backlog = rest /\ m.client = <<c>>
      /\ m.then = "turn" /\ m.feeds = mgr.feeds /\ m.end = mgr.end /\ m.power = mgr.power
  BY DEF EndIInv, ShapeInv, ManagerFields
<1>3. /\ c \in Clients /\ cli[c].conn \in {"queued", "gone"}
      /\ rest \in Seq(Clients)
      /\ \A i, j \in 1 .. Len(rest) : rest[i] = rest[j] => i = j
      /\ \A i \in 1 .. Len(rest) : rest[i] # c /\ rest[i] \in Clients
                                   /\ cli[rest[i]].conn \in {"queued", "gone"}
  BY <1>1, QueueMoves
<1>4. PICK e \in Handled(m, q) : mgr' = e.m
  BY <1>1 DEF Serve
<1>5. cli' = [cli EXCEPT ![c].conn = IF @ = "queued" THEN "taken" ELSE @]
  BY <1>1 DEF Serve
<1> HIDE DEF c, m, rest
<1>6. HandledFrom(m, e)
  BY <1>2, HandledKeeps
<1>7. /\ DOMAIN mgr' = ManagerFields /\ mgr'.pc \in {"answer", "wait"} /\ mgr'.backlog = rest
      /\ mgr'.client = <<c>> /\ mgr'.feeds = mgr.feeds /\ mgr'.end = mgr.end /\ mgr'.power = mgr.power
  BY <1>2, <1>4, <1>6 DEF HandledFrom, HandlerFields, ManagerFields
<1>8. /\ DOMAIN cli' = Clients
      /\ \A d \in Clients : d # c => cli'[d] = cli[d]
      /\ DOMAIN cli'[c] = UserFields /\ cli'[c].line = cli[c].line /\ cli'[c].cmd = cli[c].cmd
      /\ cli'[c].conn = IF cli[c].conn = "queued" THEN "taken" ELSE cli[c].conn
  BY <1>3, <1>5 DEF EndIInv, ShapeInv, UserFields
<1>9. ShapeInv'
  BY <1>7, <1>8 DEF EndIInv, ShapeInv
<1>10. RunningInv' /\ EndsRightly
  BY <1>1, <1>7 DEF EndIInv, RunningInv, EndsRightly
<1>11. QueueInv'
  <2>1. mgr'.client[1] = c /\ cli'[c].conn \in {"taken", "gone"}
    BY <1>3, <1>7, <1>8
  <2>2. \A i \in 1 .. Len(rest) : cli'[rest[i]].conn \in {"queued", "gone"}
    BY <1>3, <1>8
  <2>3. \A d \in Clients : Sound(cli'[d])
    BY <1>3, <1>8 DEF EndIInv, QueueInv, Sound
  <2> QED BY <1>1, <1>3, <1>7, <1>8, <2>1, <2>2, <2>3 DEF QueueInv, c, Sound
<1> QED BY <1>9, <1>10, <1>11 DEF EndIInv

LEMMA SubscribeEnds == EndIInv /\ open_event_subscription => EndIInv' /\ EndsRightly
<1> SUFFICES ASSUME EndIInv, open_event_subscription PROVE EndIInv' /\ EndsRightly
  OBVIOUS
<1> DEFINE c == mgr.backlog[1]
           q == request_parse(cli[c].line)
           rest == Tail(mgr.backlog)
           gone == cli[c].conn # "queued"
<1>1. mgr.pc = "accept" /\ mgr.backlog # << >> /\ Subscribe(c, q)
  BY DEF open_event_subscription
<1>2. /\ c \in Clients /\ cli[c].conn \in {"queued", "gone"}
      /\ rest \in Seq(Clients)
      /\ \A i, j \in 1 .. Len(rest) : rest[i] = rest[j] => i = j
      /\ \A i \in 1 .. Len(rest) : rest[i] # c /\ rest[i] \in Clients
                                   /\ cli[rest[i]].conn \in {"queued", "gone"}
  BY <1>1, QueueMoves
<1>3. PICK feed : mgr' = [mgr EXCEPT !.pc = "turn", !.backlog = rest, !.feeds[c] = feed]
  BY <1>1 DEF Subscribe
<1>4. cli' = [cli EXCEPT ![c].conn = IF gone THEN @ ELSE "following"]
  BY <1>1 DEF Subscribe
<1> HIDE DEF c, rest
<1>5. /\ DOMAIN mgr' = ManagerFields /\ mgr'.pc = "turn" /\ mgr'.backlog = rest
      /\ DOMAIN mgr'.feeds = Clients /\ mgr'.end = mgr.end /\ mgr'.power = mgr.power
  BY <1>3 DEF EndIInv, ShapeInv, ManagerFields
<1>6. /\ DOMAIN cli' = Clients
      /\ \A d \in Clients : d # c => cli'[d] = cli[d]
      /\ DOMAIN cli'[c] = UserFields /\ cli'[c].cmd = cli[c].cmd
      /\ cli'[c].conn = IF gone THEN cli[c].conn ELSE "following"
  BY <1>2, <1>4 DEF EndIInv, ShapeInv, UserFields
<1>7. ShapeInv'
  BY <1>5, <1>6 DEF EndIInv, ShapeInv
<1>8. RunningInv' /\ EndsRightly
  BY <1>1, <1>5 DEF EndIInv, RunningInv, EndsRightly
<1>9. QueueInv'
  <2>1. \A i \in 1 .. Len(rest) : cli'[rest[i]].conn \in {"queued", "gone"}
    BY <1>2, <1>6
  <2>2. \A d \in Clients : Sound(cli'[d])
    BY <1>2, <1>6 DEF EndIInv, QueueInv, Sound
  <2> QED BY <1>2, <1>5, <2>1, <2>2 DEF QueueInv, Sound
<1> QED BY <1>7, <1>8, <1>9 DEF EndIInv

LEMMA AnswerEnds == EndIInv /\ Answer => EndIInv' /\ EndsRightly
<1> SUFFICES ASSUME EndIInv, Answer PROVE EndIInv' /\ EndsRightly
  OBVIOUS
<1> DEFINE c == mgr.client[1]
           m == [mgr EXCEPT !.client = << >>, !.resp = Down]
           told == [cli EXCEPT ![c].conn = "answered",
                               ![c].ans = response_parse(response_as_line(mgr.resp))]
<1>1. /\ mgr.pc = "answer" /\ c \in Clients /\ cli[c].conn \in {"taken", "gone"}
      /\ \A i \in 1 .. Len(mgr.backlog) : mgr.backlog[i] # c
      /\ request_parse(cli[c].line).tag # "SUBSCRIBE"
  BY DEF Answer, EndIInv, QueueInv, Sound
<1>2. /\ DOMAIN told = Clients
      /\ \A d \in Clients : d # c => told[d] = cli[d]
      /\ DOMAIN told[c] = UserFields /\ told[c].cmd = cli[c].cmd /\ told[c].conn = "answered"
  BY <1>1 DEF EndIInv, ShapeInv, UserFields
<1>3. /\ DOMAIN m = ManagerFields /\ m.pc = "answer" /\ m.backlog = mgr.backlog /\ m.feeds = mgr.feeds
      /\ m.end = mgr.end /\ m.power = mgr.power /\ m.then = mgr.then
  BY <1>1 DEF EndIInv, ShapeInv, ManagerFields
<1>4. CASE cli[c].conn # "taken"
  <2>1. EndProcess("answer lost")
    BY <1>4 DEF Answer
  <2>2. EndIInv' /\ mgr'.power = IF "answer lost" = "stopped" THEN mgr.action ELSE "none"
    BY <2>1, EndProcessIsFine
  <2>3. cli[c].cmd = "gone"
    BY <1>1, <1>4 DEF EndIInv, QueueInv, Sound
  <2> QED BY <1>1, <2>2, <2>3 DEF EndsRightly
<1>5. CASE cli[c].conn = "taken"
  <2>1. cli[c].cmd \notin {"idle", "gone"}
    BY <1>1, <1>5 DEF EndIInv, QueueInv, Sound
  <2>2. \/ /\ mgr' = [m EXCEPT !.pc = "observe", !.loud = TRUE, !.waits = 0]
           /\ mgr.then = "drain" /\ cli' = told
        \/ mgr' = [m EXCEPT !.pc = "turn"] /\ cli' = told
        \/ /\ mgr' = NoManager("pid file")
           /\ cli' = [d \in Clients |-> IF d = c THEN told[c] ELSE Disconnected[d]]
    BY <1>5 DEF Answer
  <2> HIDE DEF m, told, c
  <2>3. CASE mgr' = NoManager("pid file") /\ cli' = [d \in Clients |-> IF d = c THEN told[c] ELSE Disconnected[d]]
    <3>1. mgr'.pc = "down" /\ DOMAIN mgr' = ManagerFields /\ mgr'.backlog = << >> /\ mgr'.power = "none"
          /\ DOMAIN mgr'.feeds = Clients /\ mgr'.end = "pid file"
      BY <2>3, NoManagerIs
    <3>2. \A d \in Clients : /\ DOMAIN cli'[d] = UserFields
                             /\ Sound(cli'[d])
      <4>1. cli'[c] = told[c] /\ \A d \in Clients : d # c => cli'[d] = Disconnected[d]
        BY <1>1, <2>3 DEF c
      <4>2. \A d \in Clients : /\ DOMAIN Disconnected[d] = UserFields
                               /\ Sound(Disconnected[d])
        BY DisconnectedIs DEF EndIInv, QueueInv, Sound
      <4> QED BY <1>2, <2>1, <4>1, <4>2 DEF Sound
    <3>3. DOMAIN cli' = Clients
      BY <2>3
    <3>4. EndIInv'
      BY <3>1, <3>2, <3>3, DownIsFine
    <3> QED BY <3>1, <3>4 DEF EndsRightly
  <2>4. CASE \/ mgr' = [m EXCEPT !.pc = "observe", !.loud = TRUE, !.waits = 0] /\ mgr.then = "drain"
             \/ mgr' = [m EXCEPT !.pc = "turn"]
    <3>1. /\ DOMAIN mgr' = ManagerFields /\ mgr'.backlog = mgr.backlog /\ mgr'.feeds = mgr.feeds
          /\ mgr'.end = mgr.end /\ mgr'.power = mgr.power /\ mgr'.pc \in {"observe", "turn"}
          /\ mgr'.pc = "observe" => mgr'.then = "drain"
      BY <1>3, <2>4 DEF ManagerFields
    <3>2. cli' = told
      BY <2>2, <3>1, NoManagerIs
    <3>3. ShapeInv'
      BY <1>2, <3>1, <3>2 DEF EndIInv, ShapeInv
    <3>4. RunningInv' /\ EndsRightly
      BY <1>1, <3>1 DEF EndIInv, RunningInv, EndsRightly
    <3>5. QueueInv'
      <4>1. \A i \in 1 .. Len(mgr.backlog) : cli'[mgr.backlog[i]].conn \in {"queued", "gone"}
        BY <1>1, <1>2, <3>2 DEF EndIInv, QueueInv, Sound
      <4>2. \A d \in Clients : Sound(cli'[d])
        BY <1>2, <2>1, <3>2 DEF EndIInv, QueueInv, Sound
      <4> QED BY <3>1, <4>1, <4>2 DEF EndIInv, QueueInv, Sound
    <3> QED BY <3>3, <3>4, <3>5 DEF EndIInv
  <2> QED BY <2>2, <2>3, <2>4
<1> QED BY <1>1, <1>4, <1>5

-----------------------------------------------------------------------------
(***************************************************************************)
(* The world and the users.                                                *)
(***************************************************************************)

LEMMA WorldEnds ==
  ASSUME EndIInv, Crash \/ Boot \/ Signal \/ Edit
  PROVE  EndIInv' /\ EndsRightly
<1>1. CASE Crash
  <2>1. mgr' = NoManager("killed") /\ cli' = Disconnected
    BY <1>1 DEF Crash
  <2>2. mgr'.pc = "down" /\ mgr'.end = "killed" /\ DOMAIN mgr' = ManagerFields /\ mgr'.backlog = << >>
        /\ DOMAIN mgr'.feeds = Clients /\ mgr'.power = "none"
    BY <2>1, NoManagerIs
  <2>3. DOMAIN cli' = Clients
    BY <2>1 DEF Disconnected
  <2>4. \A c \in Clients : /\ DOMAIN cli'[c] = UserFields
                           /\ Sound(cli'[c])
    BY <2>1, DisconnectedIs DEF EndIInv, QueueInv, Sound
  <2> QED BY <2>2, <2>3, <2>4, DownIsFine DEF EndsRightly
<1>2. CASE Boot
  <2>1. mgr' = [NoManager("none") EXCEPT !.pc = "load"] /\ cli' = cli /\ mgr.pc = "down"
    BY <1>2 DEF Boot
  <2>2. mgr'.pc = "load" /\ mgr'.end = "none" /\ DOMAIN mgr' = ManagerFields /\ mgr'.backlog = << >>
        /\ DOMAIN mgr'.feeds = Clients /\ mgr'.power = "none"
    BY <2>1, NoManagerIs DEF ManagerFields
  <2>3. \A c \in Clients : /\ DOMAIN cli'[c] = UserFields
                           /\ Sound(cli'[c])
    BY <2>1 DEF EndIInv, ShapeInv, QueueInv, Sound
  <2>4. DOMAIN cli' = Clients
    BY <2>1 DEF EndIInv, ShapeInv
  <2> QED BY <2>2, <2>3, <2>4, DownIsFine DEF EndsRightly
<1>3. CASE Signal
  <2>1. mgr' = [mgr EXCEPT !.signal = TRUE] /\ cli' = cli /\ mgr.pc # "down"
    BY <1>3 DEF Signal
  <2>2. /\ DOMAIN mgr' = ManagerFields /\ mgr'.feeds = mgr.feeds /\ mgr'.end = mgr.end
        /\ mgr'.power = mgr.power /\ mgr'.backlog = mgr.backlog /\ mgr'.client = mgr.client
        /\ mgr'.pc = mgr.pc /\ mgr'.then = mgr.then
    BY <2>1 DEF EndIInv, ShapeInv, ManagerFields
  <2> QED BY <2>1, <2>2, PlainStep DEF EndIInv, ShapeInv, RunningInv, Places
<1>4. CASE Edit
  <2>1. mgr' = mgr /\ cli' = cli
    BY <1>4 DEF Edit
  <2> QED BY <2>1 DEF EndIInv, ShapeInv, RunningInv, QueueInv, EndsRightly, Sound
<1> QED BY <1>1, <1>2, <1>3, <1>4

(***************************************************************************)
(* A user whose connection is its own affair: the queue does not change.   *)
(***************************************************************************)
LEMMA UserGoesOn ==
  ASSUME EndIInv, NEW c \in Clients, OnlyUser(c), Keeps({"feeds"}), DOMAIN mgr'.feeds = Clients,
         \/ /\ cli[c].conn \in {"none", "answered"} /\ cli'[c].conn \in {"none", "answered"}
            /\ Sound(cli'[c])
         \/ /\ cli[c].conn \in {"queued", "taken", "following"}
            /\ cli'[c].conn = "gone" /\ cli'[c].cmd = "gone" /\ cli'[c].line = cli[c].line
  PROVE  EndIInv' /\ EndsRightly
<1>1. /\ DOMAIN mgr' = ManagerFields /\ mgr'.pc = mgr.pc /\ mgr'.then = mgr.then
      /\ mgr'.end = mgr.end /\ mgr'.power = mgr.power /\ mgr'.backlog = mgr.backlog
      /\ mgr'.client = mgr.client
  BY DEF Keeps, ManagerFields
<1>2. DOMAIN cli' = Clients /\ DOMAIN cli'[c] = UserFields /\ \A d \in Clients \ {c} : cli'[d] = cli[d]
  BY DEF OnlyUser
<1>3. ShapeInv'
  BY <1>1, <1>2 DEF EndIInv, ShapeInv
<1>4. RunningInv' /\ EndsRightly
  BY <1>1 DEF EndIInv, RunningInv, EndsRightly
<1>5. QueueInv'
  <2>1. ASSUME NEW i \in 1 .. Len(mgr.backlog)
        PROVE  cli'[mgr.backlog[i]].conn \in {"queued", "gone"}
    <3>1. mgr.backlog[i] \in Clients /\ cli[mgr.backlog[i]].conn \in {"queued", "gone"}
      BY DEF EndIInv, QueueInv, Sound
    <3> QED BY <1>2, <3>1 DEF Free
  <2>2. \A d \in Clients : Sound(cli'[d])
    BY <1>2 DEF EndIInv, QueueInv, Sound
  <2>3. ASSUME mgr.pc \in {"answer", "wait"}
        PROVE  LET d == mgr.client[1] IN
               /\ d \in Clients /\ cli'[d].conn \in {"taken", "gone"}
               /\ cli'[d].line = cli[d].line
    BY <1>2, <2>3 DEF EndIInv, QueueInv, Free, Sound
  <2> QED BY <1>1, <2>1, <2>2, <2>3 DEF EndIInv, QueueInv, Sound
<1> QED BY <1>3, <1>4, <1>5 DEF EndIInv

LEMMA UserEnds ==
  ASSUME EndIInv, NEW c \in Clients, UserStep(c) \/ Launches(c) \/ Kills(c) \/ Lifts(c)
  PROVE  EndIInv' /\ EndsRightly
<1>1. CASE UserStep(c) /\ cli'[c].conn = "queued"
  <2>1. mgr' = [mgr EXCEPT !.backlog = Append(@, c)] /\ Listening
    BY <1>1 DEF UserStep, Sound
  <2>2. /\ DOMAIN mgr' = ManagerFields /\ mgr'.pc = mgr.pc /\ mgr'.then = mgr.then
        /\ mgr'.end = mgr.end /\ mgr'.power = mgr.power /\ mgr'.feeds = mgr.feeds
        /\ mgr'.client = mgr.client /\ mgr'.backlog = Append(mgr.backlog, c)
    BY <2>1 DEF EndIInv, ShapeInv, ManagerFields
  <2>3. /\ DOMAIN cli' = Clients /\ DOMAIN cli'[c] = UserFields /\ cli'[c].cmd \notin {"idle", "gone"}
        /\ \A d \in Clients \ {c} : cli'[d] = cli[d]
        /\ cli[c].conn \in {"none", "answered"} /\ cli[c].cmd \notin {"idle", "gone"}
    BY <1>1 DEF UserStep, OnlyUser, Free, Sound
  <2>4. mgr.backlog \in Seq(Clients)
        /\ \A i \in 1 .. Len(mgr.backlog) : /\ cli[mgr.backlog[i]].conn \in {"queued", "gone"}
                                            /\ mgr.backlog[i] # c /\ mgr.backlog[i] \in Clients
    BY <2>3 DEF EndIInv, QueueInv, Sound
  <2>5. /\ mgr'.backlog \in Seq(Clients) /\ Len(mgr'.backlog) = Len(mgr.backlog) + 1
        /\ \A i \in 1 .. Len(mgr.backlog) : mgr'.backlog[i] = mgr.backlog[i]
        /\ mgr'.backlog[Len(mgr.backlog) + 1] = c
    BY <2>2, <2>4
  <2>6. ShapeInv'
    BY <2>2, <2>3 DEF EndIInv, ShapeInv
  <2>7. RunningInv' /\ EndsRightly
    BY <2>2 DEF EndIInv, RunningInv, EndsRightly
  <2>8. QueueInv'
    <3>1. \A i, j \in 1 .. Len(mgr'.backlog) : mgr'.backlog[i] = mgr'.backlog[j] => i = j
      <4>1. \A i, j \in 1 .. Len(mgr.backlog) : mgr.backlog[i] = mgr.backlog[j] => i = j
        BY DEF EndIInv, QueueInv, Sound
      <4>2. \A i \in 1 .. Len(mgr'.backlog) : i \in 1 .. Len(mgr.backlog) \/ i = Len(mgr.backlog) + 1
        BY <2>4, <2>5
      <4> QED BY <2>4, <2>5, <4>1, <4>2
    <3>2. ASSUME NEW i \in 1 .. Len(mgr'.backlog)
          PROVE  cli'[mgr'.backlog[i]].conn \in {"queued", "gone"}
      <4>1. i \in 1 .. Len(mgr.backlog) \/ i = Len(mgr.backlog) + 1
        BY <2>4, <2>5
      <4>2. mgr'.backlog[i] = c \/ (mgr'.backlog[i] = mgr.backlog[i] /\ i \in 1 .. Len(mgr.backlog))
        BY <2>5, <4>1
      <4> QED BY <1>1, <2>3, <2>4, <4>2
    <3>3. \A d \in Clients : Sound(cli'[d])
      BY <1>1, <2>3 DEF EndIInv, QueueInv, Sound
    <3>4. ASSUME mgr.pc \in {"answer", "wait"}
          PROVE  LET d == mgr.client[1] IN
                 /\ d \in Clients /\ cli'[d] = cli[d] /\ cli[d].conn \in {"taken", "gone"}
                 /\ \A i \in 1 .. Len(mgr'.backlog) : mgr'.backlog[i] # d
                 /\ request_parse(cli[d].line).tag # "SUBSCRIBE"
      <4> DEFINE d == mgr.client[1]
      <4>1. /\ d \in Clients /\ cli[d].conn \in {"taken", "gone"} /\ d # c
            /\ \A i \in 1 .. Len(mgr.backlog) : mgr.backlog[i] # d
            /\ request_parse(cli[d].line).tag # "SUBSCRIBE"
        BY <2>3, <3>4 DEF EndIInv, QueueInv, Sound
      <4>2. \A i \in 1 .. Len(mgr'.backlog) : i \in 1 .. Len(mgr.backlog) \/ i = Len(mgr.backlog) + 1
        BY <2>4, <2>5
      <4> HIDE DEF d
      <4>3. \A i \in 1 .. Len(mgr'.backlog) : mgr'.backlog[i] # d
        BY <2>5, <4>1, <4>2
      <4> QED BY <2>3, <4>1, <4>3 DEF d
    <3> QED BY <2>2, <2>5, <3>1, <3>2, <3>3, <3>4 DEF QueueInv, Sound
  <2> QED BY <2>6, <2>7, <2>8 DEF EndIInv
<1>2. CASE UserStep(c) /\ cli'[c].conn # "queued"
  BY <1>2, UserGoesOn DEF UserStep, Free
<1>3. CASE Launches(c)
  <2>1. /\ mgr'.pc = "load" /\ mgr'.end = "none" /\ DOMAIN mgr' = ManagerFields /\ mgr'.backlog = << >>
        /\ DOMAIN mgr'.feeds = Clients /\ mgr'.power = "none"
    BY <1>3, NoManagerIs DEF Launches, ManagerFields
  <2>2. /\ DOMAIN cli' = Clients
        /\ \A d \in Clients : /\ DOMAIN cli'[d] = UserFields
                              /\ Sound(cli'[d])
    BY <1>3 DEF Launches, OnlyUser, EndIInv, ShapeInv, QueueInv, Sound
  <2> QED BY <2>1, <2>2, DownIsFine DEF EndsRightly
<1>4. CASE Kills(c)
  <2>1. /\ mgr'.pc = "down" /\ mgr'.end = "killed" /\ DOMAIN mgr' = ManagerFields /\ mgr'.backlog = << >>
        /\ DOMAIN mgr'.feeds = Clients /\ mgr'.power = "none"
    BY <1>4, NoManagerIs DEF Kills
  <2>2. DOMAIN cli' = Clients /\ cli'[c] = NoUser /\ \A d \in Clients : d # c => cli'[d] = Disconnected[d]
    BY <1>4 DEF Kills, Disconnected
  <2>3. \A d \in Clients : /\ DOMAIN Disconnected[d] = UserFields
                           /\ Sound(Disconnected[d])
    BY DisconnectedIs DEF EndIInv, QueueInv, Sound
  <2>4. DOMAIN NoUser = UserFields /\ NoUser.conn = "none" /\ NoUser.cmd = "idle"
    BY DEF NoUser, UserFields
  <2>5. \A d \in Clients : /\ DOMAIN cli'[d] = UserFields
                           /\ Sound(cli'[d])
    BY <2>2, <2>3, <2>4 DEF Sound
  <2> QED BY <2>1, <2>2, <2>5, DownIsFine DEF EndsRightly
<1>5. CASE Lifts(c)
  <2>1. mgr' = mgr /\ DOMAIN cli' = Clients
        /\ \A d \in Clients : /\ DOMAIN cli'[d] = UserFields /\ cli'[d].conn = cli[d].conn
                              /\ cli'[d].cmd = cli[d].cmd /\ cli'[d].line = cli[d].line
    BY <1>5 DEF Lifts, UserFields
  <2>2. ShapeInv' /\ RunningInv' /\ EndsRightly
    BY <2>1 DEF EndIInv, ShapeInv, RunningInv, EndsRightly
  <2>3. QueueInv'
    BY <2>1 DEF EndIInv, QueueInv, Sound
  <2> QED BY <2>2, <2>3 DEF EndIInv
<1> QED BY <1>1, <1>2, <1>3, <1>4, <1>5

LEMMA InterruptEnds ==
  ASSUME EndIInv, NEW c \in Clients, Interrupt(c)
  PROVE  EndIInv' /\ EndsRightly
<1> DEFINE k == [NoUser EXCEPT !.cmd = "gone", !.conn = "gone", !.line = cli[c].line]
<1>1. DOMAIN k = UserFields /\ k.cmd = "gone" /\ k.conn = "gone" /\ k.line = cli[c].line
  BY DEF NoUser, UserFields
<1>2. cli[c].conn \in {"queued", "taken", "following"} /\ cli' = [cli EXCEPT ![c] = k] /\ mgr' = mgr
  BY DEF Interrupt
<1> HIDE DEF k
<1>3. OnlyUser(c) /\ cli'[c] = k /\ Keeps({"feeds"}) /\ DOMAIN mgr'.feeds = Clients
  BY <1>1, <1>2 DEF EndIInv, ShapeInv, OnlyUser, Keeps
<1> QED BY <1>1, <1>2, <1>3, UserGoesOn

(***************************************************************************)
(* What a behaviour may do was chosen at its beginning.                    *)
(***************************************************************************)
MixInv == mix \in Mixes

LEMMA BeginEnds ==
  ASSUME EndIInv, MixInv, NEW c \in Clients, Begin(c)
  PROVE  EndIInv' /\ EndsRightly
<1>1. PICK i \in DOMAIN mix.commands :
        cli' = [cli EXCEPT ![c] = [NoUser EXCEPT !.cmd = mix.commands[i].cmd, !.arg = mix.commands[i].arg,
                                                 !.ret = mix.commands[i].req, !.held = mix.commands[i].now]]
  BY DEF Begin
<1> DEFINE k == [NoUser EXCEPT !.cmd = mix.commands[i].cmd, !.arg = mix.commands[i].arg,
                               !.ret = mix.commands[i].req, !.held = mix.commands[i].now]
<1>2. DOMAIN k = UserFields /\ k.cmd = mix.commands[i].cmd /\ k.conn = "none"
  BY DEF NoUser, UserFields
<1>3. k.cmd \notin {"idle", "gone"}
  BY <1>2, MixesAssumption DEF MixInv
<1>4. cli' = [cli EXCEPT ![c] = k] /\ mgr' = mgr /\ cli[c].cmd = "idle"
  BY <1>1 DEF Begin
<1> HIDE DEF k
<1>5. OnlyUser(c) /\ cli'[c] = k /\ Keeps({"feeds"}) /\ DOMAIN mgr'.feeds = Clients
  BY <1>2, <1>4 DEF EndIInv, ShapeInv, OnlyUser, Keeps
<1>6. cli[c].conn = "none" /\ Sound(cli'[c])
  BY <1>2, <1>3, <1>4, <1>5 DEF EndIInv, QueueInv, Sound
<1> QED BY <1>2, <1>5, <1>6, UserGoesOn

(***************************************************************************)
(* All steps together.                                                     *)
(***************************************************************************)
LEMMA EndBegins == Init => EndIInv /\ MixInv
<1> SUFFICES ASSUME Init PROVE EndIInv /\ MixInv
  OBVIOUS
<1>1. mgr = NoManager("none") /\ cli = [c \in Clients |-> NoUser] /\ mix \in Mixes
  BY DEF Init
<1>2. /\ DOMAIN mgr = ManagerFields /\ mgr.pc = "down" /\ mgr.backlog = << >>
      /\ DOMAIN mgr.feeds = Clients
  BY <1>1, NoManagerIs
<1>3. DOMAIN NoUser = UserFields /\ NoUser.conn = "none" /\ NoUser.cmd = "idle"
  BY DEF NoUser, UserFields
<1>4. ShapeInv /\ RunningInv
  BY <1>1, <1>2, <1>3 DEF ShapeInv, RunningInv
<1>5. mgr.backlog \in Seq(Clients) /\ Len(mgr.backlog) = 0 /\ \A i \in 1 .. Len(mgr.backlog) : FALSE
  BY <1>2
<1>6. \A c \in Clients : Sound(cli[c])
  BY <1>1, <1>3 DEF Sound
<1>7. QueueInv
  BY <1>2, <1>5, <1>6 DEF QueueInv
<1> QED BY <1>1, <1>4, <1>7 DEF EndIInv, MixInv

LEMMA MixStays == [Next]_vars => mix' = mix
<1>0. \A c \in Clients : start_daemon(c) => mix' = mix
  BY DEF start_daemon, Same
<1>1. \A c \in Clients : run(c) => mix' = mix
  BY <1>0
     DEF run, Same, Single, service_request, start_service, stop_daemon, stop_service, enable_service, disable_service, mask_service, unmask_service,
         follow_events, daemon_status, isolate_service, service_status, restart_service,
         reset_failed_of, list_services, reload_services, reload_service_of, is_active,
         is_failed, transaction_status
<1>2. Step => mix' = mix
  BY DEF Step, Quiet, Load, Bring, bind_listener, Turn, ObserveOne, ObserveEnd, Idle, Accept,
         open_event_subscription, Answer, ReloadWait, ReloadApply, Drain, Drained, Late
<1>3. Crash \/ Boot \/ Signal \/ Edit => mix' = mix
  BY DEF Crash, Boot, Signal, Edit
<1>4. \A c \in Clients : Begin(c) \/ Interrupt(c) => mix' = mix
  BY DEF Begin, Interrupt
<1> QED BY <1>1, <1>2, <1>3, <1>4 DEF Next, vars

LEMMA EndStep == EndIInv /\ MixInv /\ [Next]_vars => EndIInv' /\ MixInv'
<1> SUFFICES ASSUME EndIInv, MixInv, [Next]_vars PROVE EndIInv'
  BY MixStays DEF MixInv
<1>1. CASE Step
  BY <1>1, LoadEnds, PlainEnds, ObserveEndEnds, IdleEnds, AcceptEnds, SubscribeEnds, AnswerEnds,
     DrainedEnds DEF Step
<1>2. CASE Crash \/ Boot \/ Signal \/ Edit
  BY <1>2, WorldEnds
<1>3. ASSUME NEW c \in Clients, run(c) PROVE EndIInv'
  BY <1>3, CommandMoves, UserEnds DEF EndIInv
<1>4. ASSUME NEW c \in Clients, Begin(c) \/ Interrupt(c) PROVE EndIInv'
  BY <1>4, BeginEnds, InterruptEnds
<1>5. CASE UNCHANGED vars
  BY <1>5 DEF vars, EndIInv, ShapeInv, RunningInv, QueueInv
<1> QED BY <1>1, <1>2, <1>3, <1>4, <1>5 DEF Next

LEMMA EndRight == EndIInv /\ MixInv /\ [Next]_vars => [EndsRightly]_vars
<1> SUFFICES ASSUME EndIInv, MixInv, Next PROVE EndsRightly
  OBVIOUS
<1>1. CASE Step
  BY <1>1, LoadEnds, PlainEnds, ObserveEndEnds, IdleEnds, AcceptEnds, SubscribeEnds, AnswerEnds,
     DrainedEnds DEF Step
<1>2. CASE Crash \/ Boot \/ Signal \/ Edit
  BY <1>2, WorldEnds
<1>3. ASSUME NEW c \in Clients, run(c) PROVE EndsRightly
  BY <1>3, CommandMoves, UserEnds DEF EndIInv
<1>4. ASSUME NEW c \in Clients, Begin(c) \/ Interrupt(c) PROVE EndsRightly
  BY <1>4, BeginEnds, InterruptEnds
<1> QED BY <1>1, <1>2, <1>3, <1>4 DEF Next

\* The connections, the place of the manager and its end stay in order in
\* every behaviour, whoever is interrupted and whenever the manager is
\* killed.
THEOREM EndInductive == Spec => [](EndIInv /\ MixInv)
<1>1. Init => EndIInv /\ MixInv
  BY EndBegins
<1>2. EndIInv /\ MixInv /\ [Next]_vars => EndIInv' /\ MixInv'
  BY EndStep
<1> QED BY <1>1, <1>2, PTL DEF Spec

\* The manager ends by itself only for an answer nobody reads, and switches
\* the machine off only when no service is left (Answer, Drained).
THEOREM EndsInOrder == Spec => OrderlyEnd
<1>1. EndIInv /\ MixInv /\ [Next]_vars =>
        /\ [mgr.pc # "down" /\ mgr'.end = "answer lost" =>
              \E c \in Clients : cli[c].cmd = "gone" /\ request_parse(cli[c].line).tag # "SUBSCRIBE"]_vars
        /\ [mgr'.power # "none" /\ mgr.power = "none" => is_stopped(reg)]_vars
  BY EndRight DEF EndsRightly
<1>2. Spec => OnlyLostAnswersEndIt /\ PowerAfterDrain
  BY <1>1, EndInductive, PTL DEF Spec, OnlyLostAnswersEndIt, PowerAfterDrain
<1> QED BY <1>2 DEF OrderlyEnd

-----------------------------------------------------------------------------
(***************************************************************************)
(* Walks.  What holds at the beginning of a walk and is kept by each step  *)
(* holds at its end.                                                       *)
(***************************************************************************)
LEMMA Climb ==
  ASSUME NEW n \in Nat, NEW T, 0 \in T, \A i \in 1 .. n : i - 1 \in T => i \in T
  PROVE  n \in T
<1> DEFINE B == {i \in 0 .. n : i \notin T}
<1> SUFFICES ASSUME B # {} PROVE FALSE
  OBVIOUS
<1> B \subseteq Nat
  OBVIOUS
<1>0. IsWellFoundedOn(OpToRel(<, Nat), Nat)
  BY NatLessThanWellFounded
<1> HIDE DEF B
<1>1. PICK i \in B : \A j \in B : <<j, i>> \notin OpToRel(<, Nat)
  BY <1>0, WFMin
<1> USE DEF B
<1>2. i \in 1 .. n /\ i - 1 \in 0 .. n /\ i - 1 < i
  <2>1. i \in 0 .. n /\ i # 0
    OBVIOUS
  <2> QED BY <2>1
<1>3. i - 1 \notin B
  BY <1>1, <1>2 DEF OpToRel
<1> QED BY <1>1, <1>2, <1>3

\* The names of a set, in order.
LEMMA InOrderIs ==
  ASSUME NEW S
  PROVE  /\ InOrder(S) \in Seq(S \cap Names) /\ Len(InOrder(S)) \in Nat
         /\ \A m \in S \cap Names : \E i \in 1 .. Len(InOrder(S)) : InOrder(S)[i] = m
<1> DEFINE n == Len(Order)
           Each(kept, i) == IF Order[i] \in S THEN Append(kept, Order[i]) ELSE kept
           Is(f, k) == f = [i \in 0 .. k |-> IF i = 0 THEN << >> ELSE Each(f[i - 1], i)]
           Good(kept, k) == /\ kept \in Seq(S \cap Names)
                            /\ \A i \in 1 .. k : Order[i] \in S =>
                                 \E j \in 1 .. Len(kept) : kept[j] = Order[i]
           T == {k \in 0 .. n : (\E f : Is(f, k)) /\ \A f : Is(f, k) => Good(f[k], k)}
<1>0. n \in Nat /\ (\A i \in 1 .. n : Order[i] \in Names) /\ Names = {Order[i] : i \in 1 .. n}
  BY RegistryAssumption DEF Names, ToSet
<1> HIDE DEF n
<1>1. 0 \in T
  <2>1. Is([i \in 0 .. 0 |-> << >>], 0)
    OBVIOUS
  <2>2. \A f : Is(f, 0) => Good(f[0], 0)
    OBVIOUS
  <2>3. 0 \in 0 .. n
    BY <1>0
  <2> HIDE DEF Is, Good
  <2> QED BY <2>1, <2>2, <2>3
<1>2. ASSUME NEW kept, NEW k \in 1 .. n, Good(kept, k - 1) PROVE Good(Each(kept, k), k)
  <2>1. CASE Order[k] \in S
    <3>1. Order[k] \in S \cap Names
      BY <1>0, <2>1
    <3>2. /\ Append(kept, Order[k]) \in Seq(S \cap Names)
          /\ Len(Append(kept, Order[k])) = Len(kept) + 1
          /\ Append(kept, Order[k])[Len(kept) + 1] = Order[k]
          /\ \A j \in 1 .. Len(kept) : Append(kept, Order[k])[j] = kept[j]
      BY <1>2, <3>1
    <3>3. ASSUME NEW i \in 1 .. k, Order[i] \in S
          PROVE  \E j \in 1 .. Len(kept) + 1 : Append(kept, Order[k])[j] = Order[i]
      BY <1>2, <3>2, <3>3
    <3> QED BY <2>1, <3>2, <3>3
  <2>2. CASE Order[k] \notin S
    BY <1>2, <2>2
  <2> QED BY <2>1, <2>2
<1> HIDE DEF Each, Good
<1>3. ASSUME NEW k \in 1 .. n, k - 1 \in T PROVE k \in T
  <2>1. (\E f : Is(f, k - 1)) /\ \A f : Is(f, k - 1) => Good(f[k - 1], k - 1)
    BY <1>3
  <2>2. PICK f : Is(f, k - 1)
    BY <2>1
  <2>3. Is([i \in 0 .. k |-> IF i = k THEN Each(f[k - 1], k) ELSE f[i]], k)
    BY <2>2
  <2>4. ASSUME NEW g, Is(g, k) PROVE Good(g[k], k)
    <3> DEFINE h == [i \in 0 .. k - 1 |-> g[i]]
    <3>1. Is(h, k - 1) /\ h[k - 1] = g[k - 1] /\ g[k] = Each(g[k - 1], k)
      BY <2>4
    <3> HIDE DEF h, Is
    <3> QED BY <1>2, <2>1, <3>1
  <2> HIDE DEF Is
  <2> QED BY <2>3, <2>4
<1> HIDE DEF T
<1>4. n \in T
  BY <1>0, <1>1, <1>3, Climb
<1> USE DEF T
<1>5. Good((CHOOSE f : Is(f, n))[n], n)
  BY <1>4
<1>6. InOrder(S) = (CHOOSE f : Is(f, n))[n]
  BY DEF InOrder, Walk, Each, n
<1>7. Good(InOrder(S), n)
  BY <1>5, <1>6
<1> QED BY <1>0, <1>7 DEF Good

-----------------------------------------------------------------------------
(***************************************************************************)
(* The registry: what the supervisor and the loading on demand do to it.   *)
(***************************************************************************)
RegFields == {"services", "aliases", "jobs"}
SvcFields == {"spec", "id", "st", "gen", "again", "reload"}

SvcOK(s) == DOMAIN s = SvcFields /\ s.st \in States /\ s.gen \in 0 .. mix.starts

RegOK(r) ==
  /\ DOMAIN r = RegFields
  /\ Loaded(r) \subseteq Names /\ r.jobs \subseteq Names
  /\ \A n \in Loaded(r) : SvcOK(r.services[n])
  /\ IdentitiesDistinct(r) /\ AliasesLead(r)

\* q is r with more services perhaps, none of them in M, and every service
\* of r is there with its descriptor and its identity.
Follows(r, q, M) ==
  /\ RegOK(q)
  /\ Loaded(r) \subseteq Loaded(q) /\ (Loaded(q) \ Loaded(r)) \cap M = {}
  /\ \A n \in Loaded(r) : SameSpec(r.services[n], q.services[n])

\* What a behaviour may do is finite.
StartsOK == mix.starts \in Nat

LEMMA FollowsItself ==
  ASSUME NEW r, RegOK(r), NEW M
  PROVE  Follows(r, r, M)
BY DEF Follows, SameSpec

LEMMA FollowsOn ==
  ASSUME NEW r, NEW q, NEW p, NEW M, Follows(r, q, M), Follows(q, p, M)
  PROVE  Follows(r, p, M)
BY DEF Follows, SameSpec

\* A service may change its state, and never its descriptor or identity.
Moved(s, t) == SvcOK(t) /\ SameSpec(s, t)

LEMMA Moves ==
  ASSUME NEW r, RegOK(r), NEW q, DOMAIN q = RegFields, q.aliases = r.aliases, q.jobs \subseteq Names,
         Loaded(q) = Loaded(r), \A n \in Loaded(r) : Moved(r.services[n], q.services[n]), NEW M
  PROVE  Follows(r, q, M)
<1>1. IdentitiesDistinct(q)
  BY DEF RegOK, IdentitiesDistinct, Moved, SameSpec
<1>2. AliasesLead(q)
  BY DEF RegOK, AliasesLead
<1> QED BY <1>1, <1>2 DEF Follows, RegOK, Moved, SameSpec

LEMMA LaunchedMoves ==
  ASSUME StartsOK, NEW s, SvcOK(s)
  PROVE  Moved(s, Launched(s))
BY DEF StartsOK, SvcOK, Launched, Moved, SameSpec, SvcFields, States

LEMMA StopOfMoves ==
  ASSUME NEW s, SvcOK(s)
  PROVE  Moved(s, StopOf(s))
BY DEF SvcOK, StopOf, Moved, SameSpec, SvcFields, States

LEMMA WithFollows ==
  ASSUME NEW r, RegOK(r), NEW n, NEW s, n \in Loaded(r) => Moved(r.services[n], s), NEW M
  PROVE  Follows(r, With(r, n, s), M)
<1> DEFINE q == With(r, n, s)
<1>1. /\ DOMAIN q = RegFields /\ q.aliases = r.aliases /\ q.jobs = r.jobs
      /\ Loaded(q) = Loaded(r)
      /\ \A m \in Loaded(r) : q.services[m] = IF m = n THEN s ELSE r.services[m]
  BY DEF RegOK, RegFields, With, Loaded
<1> HIDE DEF q
<1>2. \A m \in Loaded(r) : Moved(r.services[m], q.services[m])
  BY <1>1 DEF Moved, SameSpec, RegOK
<1> QED BY <1>1, <1>2, Moves DEF RegOK, q

LEMMA JobsFollow ==
  ASSUME NEW r, NEW q, NEW M, Follows(r, q, M), NEW J, J \subseteq Names
  PROVE  Follows(r, [q EXCEPT !.jobs = J], M)
<1> DEFINE p == [q EXCEPT !.jobs = J]
<1>1. DOMAIN p = RegFields /\ p.aliases = q.aliases /\ p.jobs = J /\ p.services = q.services
  BY DEF Follows, RegOK, RegFields
<1> HIDE DEF p
<1>2. RegOK(p)
  BY <1>1 DEF Follows, RegOK, Loaded, IdentitiesDistinct, AliasesLead
<1>3. Follows(r, p, M)
  BY <1>1, <1>2 DEF Follows, Loaded
<1> QED BY <1>3 DEF p

LEMMA StoppingFollows ==
  ASSUME NEW r, RegOK(r), NEW S, NEW M
  PROVE  Follows(r, Stopping(r, S), M)
<1> DEFINE q == Stopping(r, S)
<1>1. /\ DOMAIN q = RegFields /\ q.aliases = r.aliases /\ q.jobs = r.jobs
      /\ Loaded(q) = Loaded(r)
      /\ \A m \in Loaded(r) : q.services[m] \in {StopOf(r.services[m]), r.services[m]}
  BY DEF RegOK, RegFields, Stopping, Loaded
<1> HIDE DEF q
<1>2. \A m \in Loaded(r) : Moved(r.services[m], q.services[m])
  BY <1>1, StopOfMoves DEF Moved, SameSpec, RegOK
<1> QED BY <1>1, <1>2, Moves DEF RegOK, q

LEMMA StopFollows ==
  ASSUME NEW r, RegOK(r), NEW n, NEW M
  PROVE  Follows(r, stop(r, n), M) /\ Follows(r, stop_all(r), M)
<1>1. Follows(r, Stopping(r, {n}), M) /\ Stopping(r, {n}).jobs \ {n} \subseteq Names
  BY StoppingFollows DEF Follows, RegOK
<1>2. Follows(r, Stopping(r, Loaded(r)), M)
  BY StoppingFollows
<1> QED BY <1>1, <1>2, JobsFollow DEF stop, stop_all

LEMMA ResetFollows ==
  ASSUME NEW r, RegOK(r), NEW S, NEW M
  PROVE  Follows(r, reset_failed(r, S), M)
<1> DEFINE q == reset_failed(r, S)
<1>1. /\ DOMAIN q = RegFields /\ q.aliases = r.aliases /\ q.jobs = r.jobs
      /\ Loaded(q) = Loaded(r)
      /\ \A m \in Loaded(r) : q.services[m] \in {[r.services[m] EXCEPT !.st = "defined"], r.services[m]}
  BY DEF RegOK, RegFields, reset_failed, Loaded
<1> HIDE DEF q
<1>2. \A m \in Loaded(r) : Moved(r.services[m], q.services[m])
  BY <1>1 DEF Moved, SameSpec, RegOK, SvcOK, SvcFields, States
<1> QED BY <1>1, <1>2, Moves DEF RegOK, q

LEMMA StartFollows ==
  ASSUME StartsOK, NEW r, RegOK(r), NEW n \in Loaded(r), NEW M, NEW o \in start(r, n)
  PROVE  Follows(r, o.reg, M)
<1> DEFINE s == r.services[n]
           idle == {m \in s.spec.needs \cap Loaded(r) : Stopped(r.services[m])}
           ready == [r EXCEPT !.services = [m \in DOMAIN @ |-> IF m \in idle THEN Launched(@[m]) ELSE @[m]]]
<1>1. SvcOK(s) /\ Moved(s, Launched(s)) /\ n \in Names
  BY LaunchedMoves DEF RegOK
<1>2. /\ DOMAIN ready = RegFields /\ ready.aliases = r.aliases /\ ready.jobs = r.jobs
      /\ Loaded(ready) = Loaded(r)
      /\ \A m \in Loaded(r) : ready.services[m] \in {Launched(r.services[m]), r.services[m]}
  BY DEF RegOK, RegFields, Loaded
<1>3. \/ o = Done(r)
      \/ o = Done([r EXCEPT !.jobs = @ \cup {n}])
      \/ o = Refused(With(r, n, Launched(s)))
      \/ o = Done(With(ready, n, Launched(s)))
      \/ o = Done([ready EXCEPT !.jobs = @ \cup {n}])
  BY DEF start
<1> HIDE DEF ready, idle, s
<1>4. \A m \in Loaded(r) : Moved(r.services[m], ready.services[m])
  BY <1>2, LaunchedMoves DEF Moved, SameSpec, RegOK
<1>5. Follows(r, ready, M)
  BY <1>2, <1>4, Moves DEF RegOK
<1>6. Follows(r, r, M) /\ Follows(r, With(r, n, Launched(s)), M)
  BY <1>1, FollowsItself, WithFollows DEF s
<1>7. Moved(ready.services[n], Launched(s))
  BY <1>1, <1>4 DEF Moved, SameSpec, s
<1>8. Follows(r, With(ready, n, Launched(s)), M)
  <2>1. Follows(ready, With(ready, n, Launched(s)), M)
    BY <1>5, <1>7, WithFollows DEF Follows
  <2> QED BY <1>5, <2>1, FollowsOn
<1>9. r.jobs \cup {n} \subseteq Names /\ ready.jobs \cup {n} \subseteq Names
  BY <1>1, <1>2 DEF RegOK
<1>10. /\ Follows(r, [r EXCEPT !.jobs = @ \cup {n}], M)
       /\ Follows(r, [ready EXCEPT !.jobs = @ \cup {n}], M)
  BY <1>5, <1>6, <1>9, JobsFollow
<1> QED BY <1>3, <1>5, <1>6, <1>8, <1>10 DEF Done, Refused

LEMMA OperationsFollow ==
  ASSUME StartsOK, NEW r, RegOK(r), NEW n \in Loaded(r), NEW M
  PROVE  /\ \A o \in restart(r, n) : Follows(r, o.reg, M)
         /\ \A o \in isolate(r, n) : Follows(r, o.reg, M)
         /\ \A o \in reload_service(r, n) : Follows(r, o.reg, M)
<1> DEFINE s == r.services[n]
<1>1. SvcOK(s) /\ Follows(r, stop(r, n), M) /\ n \in Loaded(stop(r, n)) /\ RegOK(stop(r, n))
  BY StopFollows DEF RegOK, Follows
<1>2. ASSUME NEW o \in restart(r, n) PROVE Follows(r, o.reg, M)
  <2>1. CASE s.st \in {"starting", "running", "stopping"}
    <3> DEFINE t == [StopOf(s) EXCEPT !.again = TRUE]
    <3>1. o = Done(With(stop(r, n), n, t))
      BY <1>2, <2>1 DEF restart
    <3>2. Moved(s, StopOf(s))
      BY <1>1, StopOfMoves
    <3>3. Moved(s, t)
      BY <3>2 DEF Moved, SvcOK, SvcFields, SameSpec
    <3> HIDE DEF t
    <3>4. SameSpec(s, stop(r, n).services[n])
      BY <1>1 DEF Follows
    <3>5. Moved(stop(r, n).services[n], t)
      BY <3>3, <3>4 DEF Moved, SameSpec
    <3>6. Follows(stop(r, n), With(stop(r, n), n, t), M)
      BY <1>1, <3>5, WithFollows
    <3> QED BY <1>1, <3>1, <3>6, FollowsOn DEF Done
  <2>2. CASE s.st \notin {"starting", "running", "stopping"}
    <3>1. o \in start(stop(r, n), n)
      BY <1>2, <2>2 DEF restart
    <3>2. Follows(stop(r, n), o.reg, M)
      BY <1>1, <3>1, StartFollows
    <3> QED BY <1>1, <3>2, FollowsOn
  <2> QED BY <2>1, <2>2
<1>3. ASSUME NEW o \in isolate(r, n) PROVE Follows(r, o.reg, M)
  <2> DEFINE keep == {n} \cup s.spec.needs
             q == [Stopping(r, Loaded(r) \ keep) EXCEPT !.jobs = @ \cap keep]
  <2>1. o \in start(q, n)
    BY <1>3 DEF isolate
  <2> HIDE DEF keep
  <2>2. /\ Follows(r, Stopping(r, Loaded(r) \ keep), M)
        /\ Stopping(r, Loaded(r) \ keep).jobs \cap keep \subseteq Names
    BY StoppingFollows DEF Follows, RegOK
  <2>3. Follows(r, q, M)
    BY <2>2, JobsFollow
  <2> HIDE DEF q
  <2>4. Follows(q, o.reg, M)
    BY <2>1, <2>3, StartFollows DEF Follows
  <2> QED BY <2>3, <2>4, FollowsOn
<1>4. ASSUME NEW o \in reload_service(r, n) PROVE Follows(r, o.reg, M)
  <2> DEFINE t == [s EXCEPT !.reload = "pending"]
  <2>1. o = Refused(r) \/ o = Done(With(r, n, t))
    BY <1>4 DEF reload_service
  <2>2. Moved(s, t)
    BY <1>1 DEF Moved, SvcOK, SvcFields, SameSpec
  <2> HIDE DEF t
  <2>3. Follows(r, r, M) /\ Follows(r, With(r, n, t), M)
    BY <2>2, FollowsItself, WithFollows
  <2> QED BY <2>1, <2>3 DEF Refused, Done
<1> QED BY <1>2, <1>3, <1>4

\* What a poll finds of one service: `fates` are states.
FatesOK == mix.fates \subseteq States

LEMMA PolledFollows ==
  ASSUME StartsOK, FatesOK, NEW r, RegOK(r), NEW n \in Loaded(r), NEW M, NEW q \in Polled(r, n)
  PROVE  Follows(r, q, M)
<1> DEFINE s == r.services[n]
<1>1. SvcOK(s) /\ Moved(s, Launched(s))
  BY LaunchedMoves DEF RegOK
<1>2. ASSUME NEW x \in mix.fates PROVE Moved(s, [s EXCEPT !.st = x])
  BY <1>1, <1>2 DEF Moved, SvcOK, SvcFields, SameSpec, FatesOK
<1>3. ASSUME NEW x PROVE Moved(s, [s EXCEPT !.reload = x])
  BY <1>1, <1>3 DEF Moved, SvcOK, SvcFields, SameSpec
<1>4. Follows(r, r, M) /\ Follows(r, With(r, n, Launched(s)), M)
  BY <1>1, FollowsItself, WithFollows
<1>5. /\ Follows(r, [With(r, n, Launched(s)) EXCEPT !.jobs = @ \ {n}], M)
      /\ Follows(r, [r EXCEPT !.jobs = @ \ {n}], M)
  <2>1. r.jobs \ {n} \subseteq Names /\ With(r, n, Launched(s)).jobs \ {n} \subseteq Names
    BY <1>4 DEF Follows, RegOK
  <2> QED BY <1>4, <2>1, JobsFollow
<1>6. \/ q \in {r, With(r, n, Launched(s)), [With(r, n, Launched(s)) EXCEPT !.jobs = @ \ {n}],
                [r EXCEPT !.jobs = @ \ {n}]}
      \/ \E x \in mix.fates : q = With(r, n, [s EXCEPT !.st = x])
      \/ \E x \in {"done", "failed"} : q = With(r, n, [s EXCEPT !.reload = x])
  BY DEF Polled
<1> HIDE DEF s
<1>7. ASSUME NEW t, Moved(s, t) PROVE Follows(r, With(r, n, t), M)
  BY <1>7, WithFollows DEF s
<1> QED BY <1>2, <1>3, <1>4, <1>5, <1>6, <1>7

LEMMA PollFollows ==
  ASSUME StartsOK, FatesOK, NEW r, RegOK(r), NEW M, NEW q \in poll(r)
  PROVE  Follows(r, q, M)
<1> DEFINE begin == {r}
           s == InOrder(Loaded(r))
           n == Len(s)
           Each(S, i) == UNION {Polled(p, s[i]) : p \in S}
           Good(S, k) == \A p \in S : Follows(r, p, M)
<1>1. n \in Nat /\ \A i \in 1 .. n : s[i] \in Loaded(r)
  <2>1. s \in Seq(Loaded(r) \cap Names)
    BY InOrderIs
  <2> HIDE DEF s
  <2> QED BY <2>1
<1>2. Good(begin, 0)
  BY FollowsItself
<1> HIDE DEF s
<1>3. ASSUME NEW S, NEW k \in 1 .. n, Good(S, k - 1) PROVE Good(Each(S, k), k)
  <2>1. ASSUME NEW p \in S, NEW o \in Polled(p, s[k]) PROVE Follows(r, o, M)
    <3>1. Follows(r, p, M) /\ RegOK(p) /\ s[k] \in Loaded(p)
      BY <1>1, <1>3 DEF Follows
    <3>2. Follows(p, o, M)
      BY <2>1, <3>1, PolledFollows
    <3> QED BY <3>1, <3>2, FollowsOn
  <2> QED BY <2>1
<1> DEFINE Is(f, k) == f = [i \in 0 .. k |-> IF i = 0 THEN begin ELSE Each(f[i - 1], i)]
           T == {k \in 0 .. n : (\E f : Is(f, k)) /\ \A f : Is(f, k) => Good(f[k], k)}
<1> HIDE DEF n, Each, Good, begin
<1>4. 0 \in T
  <2>1. Is([i \in 0 .. 0 |-> begin], 0)
    OBVIOUS
  <2>2. \A f : Is(f, 0) => Good(f[0], 0)
    BY <1>2
  <2>3. 0 \in 0 .. n
    BY <1>1
  <2> HIDE DEF Is
  <2> QED BY <2>1, <2>2, <2>3
<1>5. ASSUME NEW k \in 1 .. n, k - 1 \in T PROVE k \in T
  <2>1. (\E f : Is(f, k - 1)) /\ \A f : Is(f, k - 1) => Good(f[k - 1], k - 1)
    BY <1>5
  <2>2. PICK f : Is(f, k - 1)
    BY <2>1
  <2>3. Is([i \in 0 .. k |-> IF i = k THEN Each(f[k - 1], k) ELSE f[i]], k)
    BY <2>2
  <2>4. ASSUME NEW g, Is(g, k) PROVE Good(g[k], k)
    <3> DEFINE h == [i \in 0 .. k - 1 |-> g[i]]
    <3>1. Is(h, k - 1) /\ h[k - 1] = g[k - 1] /\ g[k] = Each(g[k - 1], k)
      BY <2>4
    <3> HIDE DEF h, Is
    <3> QED BY <1>3, <2>1, <3>1
  <2> HIDE DEF Is
  <2> QED BY <2>3, <2>4
<1> HIDE DEF T
<1>6. n \in T
  BY <1>1, <1>4, <1>5, Climb
<1> USE DEF T
<1>7. Good((CHOOSE f : Is(f, n))[n], n)
  BY <1>6
<1> HIDE DEF T
<1>8. poll(r) = (CHOOSE f : Is(f, n))[n]
  BY DEF poll, Walk, Each, n, s, begin
<1> QED BY <1>7, <1>8 DEF Good

LEMMA LeastIs ==
  ASSUME NEW S, S \subseteq Nat, S # {}
  PROVE  Min(S) \in S
<1>1. IsWellFoundedOn(OpToRel(<, Nat), Nat)
  BY NatLessThanWellFounded
<1>2. PICK x \in S : \A y \in S : <<y, x>> \notin OpToRel(<, Nat)
  BY <1>1, WFMin
<1>3. \A y \in S : ~ (y < x)
  BY <1>2 DEF OpToRel
<1>4. \A y \in S : x <= y
  BY <1>3
<1> QED BY <1>4 DEF Min

\* An identity that is given was free.
LEMMA AllocatedIsFree ==
  ASSUME NEW n, NEW reserved
  PROVE  LET id == allocate_dynamic_identity(n, reserved) IN id = NoId \/ id \notin reserved
<1> DEFINE free == {k \in 0 .. Span - 1 : (Hash[n] + k) % Span \notin reserved \cup Occupied}
<1>1. CASE free = {}
  BY <1>1 DEF allocate_dynamic_identity
<1>2. CASE free # {}
  <2>1. Min(free) \in free
    <3>1. free \subseteq Nat
      BY RegistryAssumption
    <3> HIDE DEF free
    <3> QED BY <1>2, <3>1, LeastIs
  <2>2. allocate_dynamic_identity(n, reserved) = (Hash[n] + Min(free)) % Span
    BY <1>2 DEF allocate_dynamic_identity
  <2> QED BY <2>1, <2>2
<1> QED BY <1>1, <1>2

LEMMA AddFollows ==
  ASSUME StartsOK, NEW r, RegOK(r), NEW M, NEW n \in Names \ M, NEW spec
  PROVE  LET a == add(r, n, spec) IN
         /\ DOMAIN a = {"ok", "reg"} /\ Follows(r, a.reg, M)
         /\ a.ok \in BOOLEAN /\ (a.ok => n \in Loaded(a.reg))
<1> DEFINE id == IF spec.dynamic THEN allocate_dynamic_identity(n, dynamic_user_ids(r)) ELSE NoId
           own == {native_service_name(a) : a \in spec.aliases} \ {Plain(n)}
           taken == {Plain(m) : m \in Loaded(r)} \cup DOMAIN r.aliases
           s == new_with_dynamic_identity(spec, id)
           q == [r EXCEPT !.services = Put(@, {n}, s), !.aliases = Put(@, own, n)]
<1>1. \/ add(r, n, spec) = Refused(r)
      \/ add(r, n, spec) = Done(q) /\ Plain(n) \notin taken /\ own \cap taken = {}
  BY DEF add
<1>2. CASE add(r, n, spec) = Refused(r)
  BY <1>2, FollowsItself DEF Refused
<1>3. CASE add(r, n, spec) = Done(q) /\ Plain(n) \notin taken /\ own \cap taken = {}
  <2>1. id = NoId \/ id \notin dynamic_user_ids(r)
    BY AllocatedIsFree
  <2>2. /\ DOMAIN q = RegFields /\ q.jobs = r.jobs
        /\ q.services = Put(r.services, {n}, s) /\ q.aliases = Put(r.aliases, own, n)
    BY DEF RegOK, RegFields
  <2>3. s.id = id /\ SvcOK(s)
    BY DEF new_with_dynamic_identity, SvcOK, SvcFields, States, StartsOK
  <2>4. /\ Loaded(q) = Loaded(r) \cup {n} /\ q.services[n] = s
        /\ \A m \in Loaded(r) : m # n => q.services[m] = r.services[m]
    BY <2>2 DEF Loaded, Put
  <2>5. n \notin Loaded(r)
    BY <1>3
  <2> HIDE DEF q, s, id
  <2>6. IdentitiesDistinct(q)
    <3>1. \A m \in Loaded(r) : r.services[m].id = NoId \/ r.services[m].id \in dynamic_user_ids(r)
      BY DEF dynamic_user_ids
    <3>2. ASSUME NEW m \in Loaded(r), r.services[m].id # NoId PROVE r.services[m].id # id
      BY <2>1, <3>1, <3>2
    <3>3. \A m, k \in Loaded(r) : m # k /\ r.services[m].id # NoId => r.services[m].id # r.services[k].id
      BY DEF RegOK, IdentitiesDistinct
    <3> QED BY <2>3, <2>4, <2>5, <3>2, <3>3 DEF IdentitiesDistinct
  <2>7. AliasesLead(q)
    <3>0. \A a \in own : a # Plain(n) /\ a \notin {Plain(m) : m \in Loaded(r)}
      BY <1>3
    <3> HIDE DEF own
    <3>1. DOMAIN q.aliases = DOMAIN r.aliases \cup own
      BY <2>2 DEF Put
    <3>2. ASSUME NEW a \in own PROVE q.aliases[a] = n /\ a \notin {Plain(m) : m \in Loaded(q)}
      <4>1. q.aliases[a] = n
        BY <2>2 DEF Put
      <4>2. a # Plain(n) /\ a \notin {Plain(m) : m \in Loaded(r)}
        BY <3>0
      <4> QED BY <2>4, <4>1, <4>2
    <3>3. ASSUME NEW a \in DOMAIN r.aliases \ own
          PROVE  q.aliases[a] \in Loaded(r) /\ a \notin {Plain(m) : m \in Loaded(q)}
      <4>1. q.aliases[a] = r.aliases[a]
        BY <2>2 DEF Put
      <4>2. r.aliases[a] \in Loaded(r) /\ a \notin {Plain(m) : m \in Loaded(r)}
        BY DEF RegOK, AliasesLead
      <4>3. a # Plain(n)
        BY <1>3
      <4> QED BY <2>4, <4>1, <4>2, <4>3
    <3> HIDE DEF own, taken
    <3> QED BY <2>4, <3>1, <3>2, <3>3 DEF AliasesLead
  <2>8. RegOK(q)
    BY <2>2, <2>3, <2>4, <2>5, <2>6, <2>7 DEF RegOK
  <2>9. Follows(r, q, M)
    BY <2>4, <2>5, <2>8 DEF Follows, SameSpec
  <2> QED BY <1>3, <2>4, <2>9 DEF Done
<1> QED BY <1>1, <1>2, <1>3

LEMMA ResolvedIsLoaded ==
  ASSUME NEW r, RegOK(r), NEW w
  PROVE  resolve_name(r, w) \subseteq Loaded(r)
<1> DEFINE hits == <<{w.n : x \in {w} \cap {Plain(n) : n \in Loaded(r)}},
                     {r.aliases[x] : x \in {w} \cap DOMAIN r.aliases},
                     {w.n} \cap Loaded(r),
                     {r.aliases[x] : x \in {Plain(w.n)} \cap DOMAIN r.aliases}>>
           found == {i \in 1 .. 4 : hits[i] # {}}
<1>1. \A a \in DOMAIN r.aliases : r.aliases[a] \in Loaded(r)
  BY DEF RegOK, AliasesLead
<1>2. hits[1] \subseteq Loaded(r)
  BY DEF Plain
<1>3. hits[2] \subseteq Loaded(r) /\ hits[3] \subseteq Loaded(r) /\ hits[4] \subseteq Loaded(r)
  BY <1>1
<1>4. resolve_name(r, w) = IF found = {} THEN {} ELSE hits[Min(found)]
  BY DEF resolve_name
<1> HIDE DEF hits
<1>5. found \subseteq 1 .. 4 /\ found \subseteq Nat
  OBVIOUS
<1> HIDE DEF found
<1>6. found # {} => Min(found) \in 1 .. 4
  BY <1>5, LeastIs
<1> QED BY <1>2, <1>3, <1>4, <1>6

LEMMA CanonicalIs ==
  ASSUME NEW r, RegOK(r), NEW w
  PROVE  \/ canonical_service_name(r, w) = w
         \/ \E m \in Loaded(r) : canonical_service_name(r, w) = Plain(m)
BY ResolvedIsLoaded DEF canonical_service_name

(***************************************************************************)
(* Loading on demand: nothing that is masked is loaded, and the name that  *)
(* was asked for is, when the loading succeeds.                            *)
(***************************************************************************)
LoadFields == {"ok", "reg", "name", "top", "stack"}

Loading(r, d, x, k) ==
  /\ DOMAIN x = LoadFields /\ x.ok \in BOOLEAN /\ x.top \in BOOLEAN
  /\ Follows(r, x.reg, d.masked)
  /\ x.stack \in Seq(Names) /\ x.name \in Names
  /\ x.ok /\ x.top => k = 0 /\ x.stack = <<x.name>>
  /\ x.ok /\ ~ x.top => x.name \in Loaded(x.reg)

LEMMA LoadStepFollows ==
  ASSUME StartsOK, NEW r, NEW d, NEW x, NEW k \in Nat, Loading(r, d, x, k)
  PROVE  Loading(r, d, LoadStep(d, x), k + 1)
<1> DEFINE n == Head(x.stack)
           hit == resolve_name(x.reg, Plain(n))
           file == load_named_service_spec(d, n)
           Push(spec) == InOrder(spec.needs) \o Tail(x.stack)
           m == CHOOSE m \in hit : TRUE
           added == add(x.reg, n, file.spec)
<1>0. RegOK(x.reg) /\ DOMAIN x = LoadFields /\ x.ok \in BOOLEAN /\ x.top \in BOOLEAN
  BY DEF Loading, Follows
<1>1. CASE ~ x.ok \/ x.stack = << >>
  <2>1. LoadStep(d, x) = x
    BY <1>1 DEF LoadStep
  <2> QED BY <1>1, <2>1 DEF Loading
<1>2. CASE x.ok /\ x.stack # << >>
  <2>1. n \in Names /\ Tail(x.stack) \in Seq(Names)
    BY <1>2 DEF Loading
  <2>2. ASSUME NEW S PROVE InOrder(S) \o Tail(x.stack) \in Seq(Names)
    <3>1. InOrder(S) \in Seq(S \cap Names)
      BY InOrderIs
    <3>2. InOrder(S) \in Seq(Names)
      BY <3>1
    <3> QED BY <2>1, <3>2
  <2>3. CASE hit # {}
    <3>1. m \in Loaded(x.reg) /\ m \in Names
      BY <1>0, <2>3, ResolvedIsLoaded DEF RegOK
    <3>2. CASE x.top
      <4> DEFINE y == [x EXCEPT !.top = FALSE, !.name = m, !.stack = Push(x.reg.services[m].spec)]
      <4>1. LoadStep(d, x) = y
        BY <1>2, <2>3, <3>2 DEF LoadStep
      <4>2. /\ DOMAIN y = LoadFields /\ y.ok = x.ok /\ y.top = FALSE /\ y.reg = x.reg /\ y.name = m
            /\ y.stack = Push(x.reg.services[m].spec)
        BY <1>0 DEF LoadFields
      <4> HIDE DEF y, m
      <4> QED BY <1>0, <2>2, <3>1, <4>1, <4>2 DEF Loading
    <3>3. CASE ~ x.top
      <4> DEFINE y == [x EXCEPT !.stack = Tail(@)]
      <4>1. LoadStep(d, x) = y
        BY <1>2, <2>3, <3>3 DEF LoadStep
      <4>2. /\ DOMAIN y = LoadFields /\ y.ok = x.ok /\ y.top = x.top /\ y.reg = x.reg /\ y.name = x.name
            /\ y.stack = Tail(x.stack)
        BY <1>0 DEF LoadFields
      <4> HIDE DEF y
      <4> QED BY <2>1, <3>3, <4>1, <4>2 DEF Loading
    <3> QED BY <1>0, <3>2, <3>3
  <2>4. CASE hit = {} /\ (file = Absent /\ ~ x.top)
    <3> DEFINE y == [x EXCEPT !.stack = Tail(@)]
    <3>1. LoadStep(d, x) = y
      BY <1>2, <2>4 DEF LoadStep
    <3>2. /\ DOMAIN y = LoadFields /\ y.ok = x.ok /\ y.top = x.top /\ y.reg = x.reg /\ y.name = x.name
          /\ y.stack = Tail(x.stack)
      BY <1>0 DEF LoadFields
    <3> HIDE DEF y
    <3> QED BY <2>1, <2>4, <3>1, <3>2 DEF Loading
  <2>5. CASE hit = {} /\ ((file = Absent /\ x.top) \/ (file # Absent /\ file.kind # "spec"))
    <3> DEFINE y == [x EXCEPT !.ok = FALSE]
    <3>1. LoadStep(d, x) = y
      BY <1>2, <2>5 DEF LoadStep
    <3>2. /\ DOMAIN y = LoadFields /\ y.ok = FALSE /\ y.top = x.top /\ y.reg = x.reg /\ y.name = x.name
          /\ y.stack = x.stack
      BY <1>0 DEF LoadFields
    <3> HIDE DEF y
    <3> QED BY <3>1, <3>2 DEF Loading
  <2>6. CASE hit = {} /\ file # Absent /\ file.kind = "spec"
    <3> DEFINE y == [x EXCEPT !.ok = added.ok, !.reg = added.reg, !.top = FALSE, !.stack = Push(file.spec)]
    <3>1. LoadStep(d, x) = y
      BY <1>2, <2>6 DEF LoadStep
    <3>2. /\ DOMAIN y = LoadFields /\ y.ok = added.ok /\ y.top = FALSE /\ y.reg = added.reg
          /\ y.name = x.name /\ y.stack = Push(file.spec)
      BY <1>0 DEF LoadFields
    <3>3. n \notin d.masked
      BY <2>6 DEF load_named_service_spec
    <3>4. Follows(x.reg, added.reg, d.masked) /\ added.ok \in BOOLEAN /\ (added.ok => n \in Loaded(added.reg))
      BY <1>0, <2>1, <3>3, AddFollows
    <3>5. Follows(r, added.reg, d.masked)
      BY <3>4, FollowsOn DEF Loading
    <3>6. added.ok => x.name \in Loaded(added.reg)
      <4>1. CASE x.top
        <5>1. x.stack = <<x.name>>
          BY <1>2, <4>1 DEF Loading
        <5>2. n = x.name
          BY <5>1
        <5> QED BY <3>4, <5>2
      <4>2. CASE ~ x.top
        BY <1>2, <3>4, <4>2 DEF Loading, Follows
      <4> QED BY <1>0, <4>1, <4>2
    <3>7. Push(file.spec) \in Seq(Names) /\ x.name \in Names
      BY <2>2 DEF Loading
    <3> HIDE DEF y, added, Push
    <3> QED BY <3>1, <3>2, <3>4, <3>5, <3>6, <3>7 DEF Loading
  <2> QED BY <1>0, <2>3, <2>4, <2>5, <2>6
<1> QED BY <1>0, <1>1, <1>2

LEMMA EnsureFollows ==
  ASSUME StartsOK, NEW r, RegOK(r), NEW d, NEW w, w.n \in Names
  PROVE  LET found == ensure_service_loaded(r, d, w) IN
         /\ Follows(r, found.reg, d.masked) /\ found.ok \in BOOLEAN
         /\ found.ok => found.name \in Loaded(found.reg)
<1> DEFINE start_name == canonical_service_name(r, native_service_name(w)).n
           begin == [ok |-> start_name \notin d.masked, reg |-> r, name |-> start_name, top |-> TRUE,
                     stack |-> <<start_name>>]
           s == [i \in 1 .. 1 + Len(Order) * Len(Order) |-> i]
           n == Len(s)
           Each(x, i) == LoadStep(d, x)
           Good(x, k) == Loading(r, d, x, k)
<1>1. n \in Nat /\ n # 0
  <2>1. Len(Order) \in Nat
    BY RegistryAssumption
  <2>2. Len(Order) * Len(Order) \in Nat
    BY <2>1
  <2>3. n = 1 + Len(Order) * Len(Order)
    BY <2>2
  <2> QED BY <2>2, <2>3
<1>2. Good(begin, 0)
  <2>1. start_name \in Names
    BY CanonicalIs DEF RegOK, native_service_name, Plain
  <2> HIDE DEF start_name
  <2> QED BY <2>1, FollowsItself DEF Loading, LoadFields
<1>3. ASSUME NEW x, NEW k \in 1 .. n, Good(x, k - 1) PROVE Good(Each(x, k), k)
  <2>1. k - 1 \in Nat /\ (k - 1) + 1 = k
    BY <1>1
  <2>2. Loading(r, d, LoadStep(d, x), (k - 1) + 1)
    BY <1>3, <2>1, LoadStepFollows
  <2> QED BY <2>1, <2>2
<1> DEFINE Is(f, k) == f = [i \in 0 .. k |-> IF i = 0 THEN begin ELSE Each(f[i - 1], i)]
           T == {k \in 0 .. n : (\E f : Is(f, k)) /\ \A f : Is(f, k) => Good(f[k], k)}
<1> HIDE DEF n, Each, Good, begin
<1>4. 0 \in T
  <2>1. Is([i \in 0 .. 0 |-> begin], 0)
    OBVIOUS
  <2>2. \A f : Is(f, 0) => Good(f[0], 0)
    BY <1>2
  <2>3. 0 \in 0 .. n
    BY <1>1
  <2> HIDE DEF Is
  <2> QED BY <2>1, <2>2, <2>3
<1>5. ASSUME NEW k \in 1 .. n, k - 1 \in T PROVE k \in T
  <2>1. (\E f : Is(f, k - 1)) /\ \A f : Is(f, k - 1) => Good(f[k - 1], k - 1)
    BY <1>5
  <2>2. PICK f : Is(f, k - 1)
    BY <2>1
  <2>3. Is([i \in 0 .. k |-> IF i = k THEN Each(f[k - 1], k) ELSE f[i]], k)
    BY <2>2
  <2>4. ASSUME NEW g, Is(g, k) PROVE Good(g[k], k)
    <3> DEFINE h == [i \in 0 .. k - 1 |-> g[i]]
    <3>1. Is(h, k - 1) /\ h[k - 1] = g[k - 1] /\ g[k] = Each(g[k - 1], k)
      BY <2>4
    <3> HIDE DEF h, Is
    <3> QED BY <1>3, <2>1, <3>1
  <2> HIDE DEF Is
  <2> QED BY <2>3, <2>4
<1> HIDE DEF T
<1>6. n \in T
  BY <1>1, <1>4, <1>5, Climb
<1> USE DEF T
<1>7. Good((CHOOSE f : Is(f, n))[n], n)
  BY <1>6
<1> HIDE DEF T
<1>8. ensure_service_loaded(r, d, w) = (CHOOSE f : Is(f, n))[n]
  BY DEF ensure_service_loaded, Walk, Each, n, begin
<1>9. Loading(r, d, ensure_service_loaded(r, d, w), n)
  BY <1>7, <1>8 DEF Good
<1> QED BY <1>1, <1>9 DEF Loading

(***************************************************************************)
(* The boot profile and the enabled services.                              *)
(***************************************************************************)
LEMMA StartEachFollows ==
  ASSUME StartsOK, NEW r, NEW S, \A q \in S : Follows(r, q, disk.masked),
         NEW names \in Seq(Names), NEW ask
  PROVE  \A q \in StartEach(S, names, ask) : Follows(r, q, disk.masked)
<1> DEFINE Found(q, m) == IF ask THEN ensure_service_loaded(q, disk, Plain(m))
                          ELSE [ok |-> m \in Loaded(q), reg |-> q, name |-> m]
           One(q, m) == IF Found(q, m).ok THEN {o.reg : o \in start(Found(q, m).reg, Found(q, m).name)}
                        ELSE {Found(q, m).reg}
           begin == S
           n == Len(names)
           Each(T0, i) == UNION {One(q, names[i]) : q \in T0}
           Good(T0, k) == \A q \in T0 : Follows(r, q, disk.masked)
<1>1. n \in Nat /\ \A i \in 1 .. n : names[i] \in Names
  OBVIOUS
<1>2. Good(begin, 0)
  OBVIOUS
<1>3. ASSUME NEW T0, NEW k \in 1 .. n, Good(T0, k - 1) PROVE Good(Each(T0, k), k)
  <2>1. ASSUME NEW q \in T0, NEW o \in One(q, names[k]) PROVE Follows(r, o, disk.masked)
    <3> DEFINE m == names[k]
    <3>1. Follows(r, q, disk.masked) /\ RegOK(q) /\ m \in Names
      BY <1>1, <1>3 DEF Follows
    <3>2. Follows(q, Found(q, m).reg, disk.masked) /\ (Found(q, m).ok => Found(q, m).name \in Loaded(Found(q, m).reg))
      <4>1. CASE ask
        <5>1. Plain(m).n \in Names
          BY <3>1 DEF Plain
        <5> QED BY <3>1, <4>1, <5>1, EnsureFollows
      <4>2. CASE ~ ask
        BY <3>1, <4>2, FollowsItself
      <4> QED BY <4>1, <4>2
    <3>3. o = Found(q, m).reg \/ (Found(q, m).ok /\ \E a \in start(Found(q, m).reg, Found(q, m).name) : o = a.reg)
      BY <2>1
    <3> HIDE DEF Found
    <3>4. CASE o = Found(q, m).reg
      BY <3>1, <3>2, <3>4, FollowsOn
    <3>5. ASSUME Found(q, m).ok, NEW a \in start(Found(q, m).reg, Found(q, m).name), o = a.reg
          PROVE  Follows(r, o, disk.masked)
      <4>1. RegOK(Found(q, m).reg)
        BY <3>2 DEF Follows
      <4>2. Follows(Found(q, m).reg, a.reg, disk.masked)
        BY <3>2, <3>5, <4>1, StartFollows
      <4> QED BY <3>1, <3>2, <3>5, <4>2, FollowsOn
    <3> QED BY <3>3, <3>4, <3>5
  <2> HIDE DEF One
  <2> QED BY <2>1
<1> DEFINE Is(f, k) == f = [i \in 0 .. k |-> IF i = 0 THEN begin ELSE Each(f[i - 1], i)]
           T == {k \in 0 .. n : (\E f : Is(f, k)) /\ \A f : Is(f, k) => Good(f[k], k)}
<1> HIDE DEF n, Each, Good, begin
<1>4. 0 \in T
  <2>1. Is([i \in 0 .. 0 |-> begin], 0)
    OBVIOUS
  <2>2. \A f : Is(f, 0) => Good(f[0], 0)
    BY <1>2
  <2>3. 0 \in 0 .. n
    BY <1>1
  <2> HIDE DEF Is
  <2> QED BY <2>1, <2>2, <2>3
<1>5. ASSUME NEW k \in 1 .. n, k - 1 \in T PROVE k \in T
  <2>1. (\E f : Is(f, k - 1)) /\ \A f : Is(f, k - 1) => Good(f[k - 1], k - 1)
    BY <1>5
  <2>2. PICK f : Is(f, k - 1)
    BY <2>1
  <2>3. Is([i \in 0 .. k |-> IF i = k THEN Each(f[k - 1], k) ELSE f[i]], k)
    BY <2>2
  <2>4. ASSUME NEW g, Is(g, k) PROVE Good(g[k], k)
    <3> DEFINE h == [i \in 0 .. k - 1 |-> g[i]]
    <3>1. Is(h, k - 1) /\ h[k - 1] = g[k - 1] /\ g[k] = Each(g[k - 1], k)
      BY <2>4
    <3> HIDE DEF h, Is
    <3> QED BY <1>3, <2>1, <3>1
  <2> HIDE DEF Is
  <2> QED BY <2>3, <2>4
<1> HIDE DEF T
<1>6. n \in T
  BY <1>1, <1>4, <1>5, Climb
<1> USE DEF T
<1>7. Good((CHOOSE f : Is(f, n))[n], n)
  BY <1>6
<1> HIDE DEF T
<1>8. StartEach(S, names, ask) = (CHOOSE f : Is(f, n))[n]
  BY DEF StartEach, Walk, Each, n, begin
<1> QED BY <1>7, <1>8 DEF Good

LEMMA BringUpFollows ==
  ASSUME StartsOK, NEW r, RegOK(r), NEW q \in BringUp(r)
  PROVE  Follows(r, q, disk.masked)
<1>0. \A S : InOrder(S) \in Seq(Names)
  <2>1. ASSUME NEW S PROVE InOrder(S) \in Seq(Names)
    <3>1. InOrder(S) \in Seq(S \cap Names)
      BY InOrderIs
    <3> QED BY <3>1
  <2> QED BY <2>1
<1>1. \A p \in {r} : Follows(r, p, disk.masked)
  BY FollowsItself
<1>2. ProfileNames(r) \in Seq(Names) /\ enabled_names(disk) \in Seq(Names)
  BY <1>0 DEF ProfileNames, enabled_names
<1>3. \A p \in StartEach({r}, ProfileNames(r), FALSE) : Follows(r, p, disk.masked)
  BY <1>1, <1>2, StartEachFollows
<1> DEFINE S == StartEach({r}, ProfileNames(r), FALSE)
<1> HIDE DEF S
<1>4. \A p \in StartEach(S, enabled_names(disk), TRUE) : Follows(r, p, disk.masked)
  BY <1>2, <1>3, StartEachFollows DEF S
<1> QED BY <1>4 DEF BringUp, start_enabled, S

(***************************************************************************)
(* Loading everything at boot.                                             *)
(***************************************************************************)
LEMMA EmptyIsFine == RegOK(Empty) /\ Loaded(Empty) = {}
<1>1. DOMAIN Empty = RegFields /\ Loaded(Empty) = {} /\ DOMAIN Empty.aliases = {} /\ Empty.jobs = {}
  BY DEF Empty, RegFields, Loaded
<1> QED BY <1>1 DEF RegOK, IdentitiesDistinct, AliasesLead

LEMMA LoadFollows ==
  ASSUME StartsOK, NEW d
  PROVE  LET loaded == load_services(d) IN Follows(Empty, loaded.reg, d.masked)
<1> DEFINE specs == load_service_specs(d)
           begin == Done(Empty)
           s == InOrder(DOMAIN specs)
           n == Len(s)
           Each(x, i) == IF x.ok THEN add(x.reg, s[i], specs[s[i]]) ELSE x
           Good(x, k) == Follows(Empty, x.reg, d.masked)
<1>1. n \in Nat /\ \A i \in 1 .. n : s[i] \in Names \ d.masked
  <2>1. DOMAIN specs \subseteq Names \ d.masked
    BY DEF load_service_specs, discover_service_names
  <2>2. s \in Seq(DOMAIN specs \cap Names)
    BY InOrderIs
  <2> HIDE DEF s, specs
  <2> QED BY <2>1, <2>2
<1>2. Good(begin, 0)
  BY EmptyIsFine, FollowsItself DEF Done
<1> HIDE DEF s, specs
<1>3. ASSUME NEW x, NEW k \in 1 .. n, Good(x, k - 1) PROVE Good(Each(x, k), k)
  <2>1. RegOK(x.reg) /\ s[k] \in Names \ d.masked
    BY <1>1, <1>3 DEF Follows
  <2>2. Follows(x.reg, add(x.reg, s[k], specs[s[k]]).reg, d.masked)
    BY <2>1, AddFollows
  <2>3. Follows(Empty, add(x.reg, s[k], specs[s[k]]).reg, d.masked)
    BY <1>3, <2>2, FollowsOn
  <2> QED BY <1>3, <2>3
<1> DEFINE Is(f, k) == f = [i \in 0 .. k |-> IF i = 0 THEN begin ELSE Each(f[i - 1], i)]
           T == {k \in 0 .. n : (\E f : Is(f, k)) /\ \A f : Is(f, k) => Good(f[k], k)}
<1> HIDE DEF n, Each, Good, begin
<1>4. 0 \in T
  <2>1. Is([i \in 0 .. 0 |-> begin], 0)
    OBVIOUS
  <2>2. \A f : Is(f, 0) => Good(f[0], 0)
    BY <1>2
  <2>3. 0 \in 0 .. n
    BY <1>1
  <2> HIDE DEF Is
  <2> QED BY <2>1, <2>2, <2>3
<1>5. ASSUME NEW k \in 1 .. n, k - 1 \in T PROVE k \in T
  <2>1. (\E f : Is(f, k - 1)) /\ \A f : Is(f, k - 1) => Good(f[k - 1], k - 1)
    BY <1>5
  <2>2. PICK f : Is(f, k - 1)
    BY <2>1
  <2>3. Is([i \in 0 .. k |-> IF i = k THEN Each(f[k - 1], k) ELSE f[i]], k)
    BY <2>2
  <2>4. ASSUME NEW g, Is(g, k) PROVE Good(g[k], k)
    <3> DEFINE h == [i \in 0 .. k - 1 |-> g[i]]
    <3>1. Is(h, k - 1) /\ h[k - 1] = g[k - 1] /\ g[k] = Each(g[k - 1], k)
      BY <2>4
    <3> HIDE DEF h, Is
    <3> QED BY <1>3, <2>1, <3>1
  <2> HIDE DEF Is
  <2> QED BY <2>3, <2>4
<1> HIDE DEF T
<1>6. n \in T
  BY <1>1, <1>4, <1>5, Climb
<1> USE DEF T
<1>7. Good((CHOOSE f : Is(f, n))[n], n)
  BY <1>6
<1> HIDE DEF T
<1>8. SpecsReadable(d) => load_services(d) = (CHOOSE f : Is(f, n))[n]
  BY DEF load_services, Walk, Each, n, begin, s, specs
<1>9. ~ SpecsReadable(d) => load_services(d) = Refused(Empty)
  BY DEF load_services
<1>10. Follows(Empty, Empty, d.masked)
  BY EmptyIsFine, FollowsItself
<1> QED BY <1>7, <1>8, <1>9, <1>10 DEF Good, Refused

(***************************************************************************)
(* The reload: every service keeps its identity, and the new identities    *)
(* are none that is or was given.                                          *)
(***************************************************************************)
LEMMA IncomingIdsAreDistinct ==
  ASSUME NEW r, RegOK(r), NEW specs, DOMAIN specs \subseteq Names
  PROVE  LET ids == IncomingIds(r, specs) IN
         \A m, k \in DOMAIN specs : m # k /\ ids[m] # NoId => ids[m] # ids[k]
<1> DEFINE given == dynamic_user_ids(r)
           begin == [ids |-> << >>, reserved |-> given]
           s == InOrder(DOMAIN specs)
           n == Len(s)
           Id(x, m) == LET old == dynamic_identity_for(r, m) IN
                       IF ~ specs[m].dynamic THEN NoId
                       ELSE IF old # NoId THEN old ELSE allocate_dynamic_identity(m, x.reserved)
           Each(x, i) == [ids |-> Put(x.ids, {s[i]}, Id(x, s[i])),
                          reserved |-> x.reserved \cup ({Id(x, s[i])} \ {NoId})]
           Good(x, k) ==
             /\ DOMAIN x.ids = {s[i] : i \in 1 .. k} /\ given \subseteq x.reserved
             /\ \A m \in DOMAIN x.ids :
                  /\ x.ids[m] # NoId => x.ids[m] \in x.reserved
                  /\ x.ids[m] # NoId => x.ids[m] \notin given
                                       \/ (m \in Loaded(r) /\ x.ids[m] = r.services[m].id)
             /\ \A m, l \in DOMAIN x.ids : m # l /\ x.ids[m] # NoId => x.ids[m] # x.ids[l]
<1>1. n \in Nat /\ DOMAIN specs = {s[i] : i \in 1 .. n}
  <2>1. /\ s \in Seq(DOMAIN specs \cap Names)
        /\ \A m \in DOMAIN specs \cap Names : \E i \in 1 .. Len(s) : s[i] = m
    BY InOrderIs
  <2> HIDE DEF s
  <2>2. n \in Nat /\ \A i \in 1 .. n : s[i] \in DOMAIN specs
    BY <2>1
  <2> QED BY <2>1, <2>2
<1> HIDE DEF s
<1>2. Good(begin, 0)
  <2>1. DOMAIN begin.ids = {} /\ begin.reserved = given
    OBVIOUS
  <2>2. {s[i] : i \in 1 .. 0} = {}
    OBVIOUS
  <2> HIDE DEF begin
  <2> QED BY <2>1, <2>2
<1>3. ASSUME NEW x, NEW k \in 1 .. n, Good(x, k - 1) PROVE Good(Each(x, k), k)
  <2> DEFINE m == s[k]
             id == Id(x, m)
             y == Each(x, k)
  <2>1. \/ id = NoId
        \/ m \in Loaded(r) /\ id = r.services[m].id /\ id \in given
        \/ id \notin x.reserved
    BY AllocatedIsFree DEF dynamic_identity_for, dynamic_user_ids
  <2>2. y.ids = Put(x.ids, {m}, id) /\ y.reserved = x.reserved \cup ({id} \ {NoId})
    OBVIOUS
  <2> HIDE DEF Id, id, Each, y
  <2>3. /\ DOMAIN y.ids = DOMAIN x.ids \cup {m} /\ y.ids[m] = id
        /\ \A l \in DOMAIN x.ids : l # m => y.ids[l] = x.ids[l]
    BY <2>2 DEF Put
  <2>4. DOMAIN y.ids = {s[i] : i \in 1 .. k}
    <3>1. DOMAIN x.ids = {s[i] : i \in 1 .. k - 1}
      BY <1>3
    <3>2. {s[i] : i \in 1 .. k} = {s[i] : i \in 1 .. k - 1} \cup {s[k]}
      BY <1>1
    <3> QED BY <2>3, <3>1, <3>2
  <2> HIDE DEF m
  <2>5. given \subseteq y.reserved
    BY <1>3, <2>2
  <2>6. ASSUME NEW l \in DOMAIN y.ids, y.ids[l] # NoId
        PROVE  /\ y.ids[l] \in y.reserved
               /\ y.ids[l] \notin given \/ (l \in Loaded(r) /\ y.ids[l] = r.services[l].id)
    <3>1. CASE l = m
      BY <1>3, <2>1, <2>2, <2>3, <2>6, <3>1
    <3>2. CASE l # m
      BY <1>3, <2>2, <2>3, <2>6, <3>2
    <3> QED BY <3>1, <3>2
  <2>7. ASSUME NEW l \in DOMAIN x.ids, l # m, x.ids[l] # NoId PROVE x.ids[l] # id
    <3>1. /\ x.ids[l] \in x.reserved
          /\ x.ids[l] \notin given \/ (l \in Loaded(r) /\ x.ids[l] = r.services[l].id)
      BY <1>3, <2>7
    <3>2. CASE m \in Loaded(r) /\ id = r.services[m].id /\ id \in given
      BY <2>7, <3>1, <3>2 DEF RegOK, IdentitiesDistinct
    <3> QED BY <2>1, <2>7, <3>1, <3>2
  <2>8. ASSUME NEW l \in DOMAIN y.ids, NEW j \in DOMAIN y.ids, l # j, y.ids[l] # NoId
        PROVE  y.ids[l] # y.ids[j]
    <3>1. CASE l # m /\ j # m
      BY <1>3, <2>3, <2>8, <3>1
    <3>2. CASE l # m /\ j = m
      BY <2>3, <2>7, <2>8, <3>2
    <3>3. CASE l = m
      <4>1. j \in DOMAIN x.ids /\ j # m /\ y.ids[j] = x.ids[j]
        BY <2>3, <2>8, <3>3
      <4> QED BY <2>3, <2>7, <2>8, <3>3, <4>1
    <3> QED BY <3>1, <3>2, <3>3
  <2> QED BY <2>4, <2>5, <2>6, <2>8 DEF y
<1> DEFINE Is(f, k) == f = [i \in 0 .. k |-> IF i = 0 THEN begin ELSE Each(f[i - 1], i)]
           T == {k \in 0 .. n : (\E f : Is(f, k)) /\ \A f : Is(f, k) => Good(f[k], k)}
<1> HIDE DEF n, Each, Good, begin
<1>4. 0 \in T
  <2>1. Is([i \in 0 .. 0 |-> begin], 0)
    OBVIOUS
  <2>2. \A f : Is(f, 0) => Good(f[0], 0)
    BY <1>2
  <2>3. 0 \in 0 .. n
    BY <1>1
  <2> HIDE DEF Is
  <2> QED BY <2>1, <2>2, <2>3
<1>5. ASSUME NEW k \in 1 .. n, k - 1 \in T PROVE k \in T
  <2>1. (\E f : Is(f, k - 1)) /\ \A f : Is(f, k - 1) => Good(f[k - 1], k - 1)
    BY <1>5
  <2>2. PICK f : Is(f, k - 1)
    BY <2>1
  <2>3. Is([i \in 0 .. k |-> IF i = k THEN Each(f[k - 1], k) ELSE f[i]], k)
    BY <2>2
  <2>4. ASSUME NEW g, Is(g, k) PROVE Good(g[k], k)
    <3> DEFINE h == [i \in 0 .. k - 1 |-> g[i]]
    <3>1. Is(h, k - 1) /\ h[k - 1] = g[k - 1] /\ g[k] = Each(g[k - 1], k)
      BY <2>4
    <3> HIDE DEF h, Is
    <3> QED BY <1>3, <2>1, <3>1
  <2> HIDE DEF Is
  <2> QED BY <2>3, <2>4
<1> HIDE DEF T
<1>6. n \in T
  BY <1>1, <1>4, <1>5, Climb
<1> USE DEF T
<1>7. Good((CHOOSE f : Is(f, n))[n], n)
  BY <1>6
<1> HIDE DEF T
<1>8. IncomingIds(r, specs) = (CHOOSE f : Is(f, n))[n].ids
  BY DEF IncomingIds, IdsFrom, Walk, Each, n, begin, s
<1>9. /\ DOMAIN IncomingIds(r, specs) = DOMAIN specs
      /\ \A m, l \in DOMAIN specs : m # l /\ IncomingIds(r, specs)[m] # NoId =>
                                      IncomingIds(r, specs)[m] # IncomingIds(r, specs)[l]
  BY <1>1, <1>7, <1>8 DEF Good
<1> QED BY <1>9

\* What is up keeps its descriptor and its identity.
UpStays(r, q) ==
  \A n \in Loaded(r) :
    ~ Stopped(r.services[n]) => n \in Loaded(q) /\ SameSpec(r.services[n], q.services[n])

LEMMA ReloadIs ==
  ASSUME StartsOK, NEW r, RegOK(r), NEW specs, DOMAIN specs \subseteq Names
  PROVE  LET a == reload(r, specs) IN
         /\ RegOK(a.reg) /\ UpStays(r, a.reg)
         /\ ~ a.ok => a = Refused(r)
         /\ a.ok => Loaded(a.reg) = DOMAIN specs
<1> DEFINE ids == IncomingIds(r, specs)
           next == [n \in DOMAIN specs |-> new_with_dynamic_identity(specs[n], ids[n])]
           svcs == [n \in DOMAIN next |->
                      IF n \in Loaded(r) /\ SameSpec(r.services[n], next[n])
                      THEN r.services[n] ELSE next[n]]
           q == [r EXCEPT !.services = svcs, !.aliases = collect_aliases(specs)]
<1>1. \/ reload(r, specs) = Refused(r)
      \/ reload(r, specs) = Done(q) /\ ~ AliasesClash(specs) /\ ~ ActiveInTheWay(r, next)
  BY DEF reload
<1>2. CASE reload(r, specs) = Refused(r)
  BY <1>2 DEF Refused, UpStays, SameSpec
<1>3. CASE reload(r, specs) = Done(q) /\ ~ AliasesClash(specs) /\ ~ ActiveInTheWay(r, next)
  <2>1. \A m, k \in DOMAIN specs : m # k /\ ids[m] # NoId => ids[m] # ids[k]
    BY IncomingIdsAreDistinct
  <2>2. /\ DOMAIN q = RegFields /\ q.services = svcs /\ q.aliases = collect_aliases(specs)
        /\ q.jobs = r.jobs /\ Loaded(q) = DOMAIN specs
    BY DEF RegOK, RegFields, Loaded
  <2> HIDE DEF ids
  <2>3. ASSUME NEW n \in DOMAIN specs
        PROVE  /\ SvcOK(svcs[n]) /\ svcs[n].id = ids[n]
               /\ svcs[n] = next[n] \/ (n \in Loaded(r) /\ svcs[n] = r.services[n])
    <3>1. SvcOK(next[n]) /\ next[n].id = ids[n]
      BY DEF new_with_dynamic_identity, SvcOK, SvcFields, States, StartsOK
    <3> QED BY <3>1 DEF RegOK, SameSpec
  <2>4. IdentitiesDistinct(q)
    BY <2>1, <2>2, <2>3 DEF IdentitiesDistinct
  <2>5. AliasesLead(q)
    <3>1. ASSUME NEW a \in DOMAIN collect_aliases(specs)
          PROVE  /\ collect_aliases(specs)[a] \in DOMAIN specs
                 /\ a \notin {Plain(n) : n \in DOMAIN specs}
      <4>1. PICK p \in AliasPairs(specs) : a = p[1]
        BY DEF collect_aliases
      <4>2. PICK n \in DOMAIN specs : p \in {<<b, n>> : b \in specs[n].aliases \ {Plain(n)}}
        BY <4>1 DEF AliasPairs
      <4>3. p = <<a, n>>
        BY <4>1, <4>2
      <4>4. collect_aliases(specs)[a] = CHOOSE m \in DOMAIN specs : <<a, m>> \in AliasPairs(specs)
        BY DEF collect_aliases
      <4>5. collect_aliases(specs)[a] \in DOMAIN specs
        BY <4>1, <4>3, <4>4
      <4>6. a \notin {Plain(m) : m \in DOMAIN specs}
        BY <1>3, <4>1 DEF AliasesClash
      <4> QED BY <4>5, <4>6
    <3> QED BY <2>2, <3>1 DEF AliasesLead
  <2>6. RegOK(q)
    BY <2>2, <2>3, <2>4, <2>5 DEF RegOK
  <2>7. UpStays(r, q)
    <3>1. ASSUME NEW n \in Loaded(r), ~ Stopped(r.services[n])
          PROVE  n \in DOMAIN specs /\ SameSpec(r.services[n], next[n])
      BY <1>3, <3>1 DEF ActiveInTheWay
    <3>2. ASSUME NEW n \in Loaded(r), ~ Stopped(r.services[n])
          PROVE  svcs[n] = r.services[n]
      BY <3>1, <3>2
    <3> HIDE DEF svcs
    <3> QED BY <2>2, <3>1, <3>2 DEF UpStays, SameSpec
  <2> HIDE DEF q
  <2> QED BY <1>3, <2>2, <2>6, <2>7 DEF Done
<1> QED BY <1>1, <1>2, <1>3

(***************************************************************************)
(* The whole reload, with the profile and the services stopped for it.     *)
(***************************************************************************)
LEMMA AgainFollows ==
  ASSUME StartsOK, RegOK(reg), DOMAIN mgr.specs \subseteq Names, reload(reg, mgr.specs).ok,
         NEW o \in Reconfigured
  PROVE  Follows(reload(reg, mgr.specs).reg, o.reg, disk.masked)
<1> DEFINE new == reload(reg, mgr.specs)
           begin == {Done(r) : r \in BringUp(new.reg)}
           s == InOrder(mgr.stopping \cap DOMAIN mgr.specs)
           n == Len(s)
           Each(S, i) == UNION {IF a.ok THEN start(a.reg, s[i]) ELSE {a} : a \in S}
           Good(S, k) == \A a \in S : Follows(new.reg, a.reg, disk.masked)
<1>0. RegOK(new.reg) /\ Loaded(new.reg) = DOMAIN mgr.specs
  BY ReloadIs
<1>1. n \in Nat /\ \A i \in 1 .. n : s[i] \in Loaded(new.reg)
  <2>1. s \in Seq((mgr.stopping \cap DOMAIN mgr.specs) \cap Names)
    BY InOrderIs
  <2> HIDE DEF s, new
  <2> QED BY <1>0, <2>1
<1>2. Good(begin, 0)
  BY <1>0, BringUpFollows DEF Done
<1> HIDE DEF s, new
<1>3. ASSUME NEW S, NEW k \in 1 .. n, Good(S, k - 1) PROVE Good(Each(S, k), k)
  <2>1. ASSUME NEW a \in S, NEW b \in IF a.ok THEN start(a.reg, s[k]) ELSE {a}
        PROVE  Follows(new.reg, b.reg, disk.masked)
    <3>1. Follows(new.reg, a.reg, disk.masked) /\ RegOK(a.reg) /\ s[k] \in Loaded(a.reg)
      BY <1>1, <1>3 DEF Follows
    <3>2. \A e \in start(a.reg, s[k]) : Follows(a.reg, e.reg, disk.masked)
      BY <3>1, StartFollows
    <3>3. \A e \in start(a.reg, s[k]) : Follows(new.reg, e.reg, disk.masked)
      BY <3>1, <3>2, FollowsOn
    <3> QED BY <2>1, <3>1, <3>3
  <2> QED BY <2>1
<1> DEFINE Is(f, k) == f = [i \in 0 .. k |-> IF i = 0 THEN begin ELSE Each(f[i - 1], i)]
           T == {k \in 0 .. n : (\E f : Is(f, k)) /\ \A f : Is(f, k) => Good(f[k], k)}
<1> HIDE DEF n, Each, Good, begin
<1>4. 0 \in T
  <2>1. Is([i \in 0 .. 0 |-> begin], 0)
    OBVIOUS
  <2>2. \A f : Is(f, 0) => Good(f[0], 0)
    BY <1>2
  <2>3. 0 \in 0 .. n
    BY <1>1
  <2> HIDE DEF Is
  <2> QED BY <2>1, <2>2, <2>3
<1>5. ASSUME NEW k \in 1 .. n, k - 1 \in T PROVE k \in T
  <2>1. (\E f : Is(f, k - 1)) /\ \A f : Is(f, k - 1) => Good(f[k - 1], k - 1)
    BY <1>5
  <2>2. PICK f : Is(f, k - 1)
    BY <2>1
  <2>3. Is([i \in 0 .. k |-> IF i = k THEN Each(f[k - 1], k) ELSE f[i]], k)
    BY <2>2
  <2>4. ASSUME NEW g, Is(g, k) PROVE Good(g[k], k)
    <3> DEFINE h == [i \in 0 .. k - 1 |-> g[i]]
    <3>1. Is(h, k - 1) /\ h[k - 1] = g[k - 1] /\ g[k] = Each(g[k - 1], k)
      BY <2>4
    <3> HIDE DEF h, Is
    <3> QED BY <1>3, <2>1, <3>1
  <2> HIDE DEF Is
  <2> QED BY <2>3, <2>4
<1> HIDE DEF T
<1>6. n \in T
  BY <1>1, <1>4, <1>5, Climb
<1> USE DEF T
<1>7. Good((CHOOSE f : Is(f, n))[n], n)
  BY <1>6
<1> HIDE DEF T
<1>8. Reconfigured = (CHOOSE f : Is(f, n))[n]
  BY DEF Reconfigured, Walk, Each, n, begin, s, new
<1> QED BY <1>7, <1>8 DEF Good, new

LEMMA ReconfiguredIs ==
  ASSUME StartsOK, RegOK(reg), DOMAIN mgr.specs \subseteq Names, NEW o \in Reconfigured
  PROVE  /\ RegOK(o.reg) /\ UpStays(reg, o.reg)
         /\ Loaded(o.reg) \cap disk.masked \subseteq Loaded(reg) \cup DOMAIN mgr.specs
         /\ o.ok => Loaded(o.reg) \cap disk.masked \subseteq DOMAIN mgr.specs
<1> DEFINE new == reload(reg, mgr.specs)
<1>1. /\ RegOK(new.reg) /\ UpStays(reg, new.reg)
      /\ ~ new.ok => new = Refused(reg)
      /\ new.ok => Loaded(new.reg) = DOMAIN mgr.specs
  BY ReloadIs
<1>2. CASE ~ new.ok
  <2>0. ~ new.ok => Reconfigured = {new}
    BY DEF Reconfigured
  <2> HIDE DEF new
  <2>1. o.reg = reg /\ ~ o.ok
    BY <1>1, <1>2, <2>0 DEF Refused
  <2> QED BY <2>1 DEF UpStays, SameSpec
<1>3. CASE new.ok
  <2>1. Follows(new.reg, o.reg, disk.masked)
    BY <1>3, AgainFollows
  <2> HIDE DEF new
  <2> QED BY <1>1, <1>3, <2>1 DEF Follows, UpStays, SameSpec
<1> QED BY <1>2, <1>3

-----------------------------------------------------------------------------
(***************************************************************************)
(* The transactions.                                                       *)
(***************************************************************************)
TxFields == {"op", "name", "state"}

\* The numbers that were given are below the next one.
TxsOK(m) ==
  /\ m.next_tx \in Nat \ {0}
  /\ \A id \in DOMAIN m.txs : id \in Nat /\ id < m.next_tx /\ DOMAIN m.txs[id] = TxFields

\* What becomes of the records of t.
Honest(t, u) ==
  \A id \in DOMAIN t :
    IF id \in DOMAIN u
    THEN /\ u[id].op = t[id].op /\ u[id].name = t[id].name
         /\ t[id].state # "pending" => u[id] = t[id]
    ELSE t[id].state # "pending"

\* A step of the manager m to the manager p.
TxsStep(m, p) == TxsOK(p) /\ Honest(m.txs, p.txs)

LEMMA TxsStay ==
  ASSUME NEW m, TxsOK(m), NEW p, p.txs = m.txs, p.next_tx = m.next_tx
  PROVE  TxsStep(m, p)
BY DEF TxsStep, TxsOK, Honest

LEMMA RefreshIsHonest ==
  ASSUME NEW m, TxsOK(m), NEW r, NEW p, p.txs = refresh_transactions(m.txs, r), p.next_tx = m.next_tx
  PROVE  TxsStep(m, p)
<1>1. DOMAIN p.txs = DOMAIN m.txs
  BY DEF refresh_transactions
<1>2. ASSUME NEW id \in DOMAIN m.txs
      PROVE  /\ DOMAIN p.txs[id] = TxFields
             /\ p.txs[id].op = m.txs[id].op /\ p.txs[id].name = m.txs[id].name
             /\ m.txs[id].state # "pending" => p.txs[id] = m.txs[id]
  <2> DEFINE new == IF m.txs[id].name \notin Loaded(r) THEN "failed"
                    ELSE Settled(m.txs[id].op, r.services[m.txs[id].name])
  <2>1. p.txs[id] = IF m.txs[id].state # "pending" THEN m.txs[id]
                    ELSE [m.txs[id] EXCEPT !.state = new]
    BY DEF refresh_transactions
  <2> HIDE DEF new
  <2> QED BY <2>1 DEF TxsOK, TxFields
<1> QED BY <1>1, <1>2 DEF TxsStep, TxsOK, Honest

\* Making room takes settled records only.
LEMMA AcceptedIsHonest ==
  ASSUME NEW m, DOMAIN m = ManagerFields, TxsOK(m), NEW op, NEW n
  PROVE  TxsStep(m, accepted_transaction(m, op, n))
<1> DEFINE id == m.next_tx
           rec == [op |-> op, name |-> n, state |-> "pending"]
           t == Put(m.txs, {id}, rec)
           p == accepted_transaction(m, op, n)
<1>1. DOMAIN t = DOMAIN m.txs \cup {id} /\ t[id] = rec /\ \A k \in DOMAIN m.txs : t[k] = m.txs[k]
  <2>1. id \notin DOMAIN m.txs
    BY DEF TxsOK
  <2> QED BY <2>1 DEF Put
<1>2. DOMAIN rec = TxFields /\ rec.state = "pending"
  BY DEF TxFields
<1>3. p.txs = prune_transactions(t) /\ p.next_tx = m.next_tx + 1
  BY DEF accepted_transaction, ManagerFields
<1> HIDE DEF t, rec, p
<1>4. /\ DOMAIN p.txs \subseteq DOMAIN t
      /\ \A k \in DOMAIN p.txs : p.txs[k] = t[k]
      /\ \A k \in DOMAIN t \ DOMAIN p.txs : t[k].state # "pending"
  BY <1>3 DEF prune_transactions
<1>5. TxsOK(p)
  BY <1>1, <1>2, <1>3, <1>4 DEF TxsOK
<1>6. Honest(m.txs, p.txs)
  BY <1>1, <1>4 DEF Honest
<1> QED BY <1>5, <1>6 DEF TxsStep, p

\* A request opens at most one transaction.
LEMMA OperationIsHonest ==
  ASSUME NEW m, DOMAIN m = ManagerFields, TxsOK(m), NEW s, NEW op, NEW e \in Operation(m, s, op)
  PROVE  TxsStep(m, e.m)
<1>1. ASSUME NEW r, NEW resp PROVE TxsStep(m, Effect(r, Answered(m, resp)).m)
  <2>1. Answered(m, resp).txs = m.txs /\ Answered(m, resp).next_tx = m.next_tx
    BY DEF Answered
  <2> QED BY <2>1, TxsStay DEF Effect
<1>2. \A r, n : TxsStep(m, Effect(r, accepted_transaction(m, op, n)).m)
  BY AcceptedIsHonest DEF Effect
<1> QED BY <1>1, <1>2 DEF Operation

LEMMA HandledIsHonest ==
  ASSUME NEW m, DOMAIN m = ManagerFields, TxsOK(m), NEW q, NEW e \in Handled(m, q)
  PROVE  TxsStep(m, e.m)
<1>1. ASSUME NEW r, NEW resp PROVE TxsStep(m, Effect(r, Answered(m, resp)).m)
  <2>1. Answered(m, resp).txs = m.txs /\ Answered(m, resp).next_tx = m.next_tx
    BY DEF Answered
  <2> QED BY <2>1, TxsStay DEF Effect
<1>2. \A s : \A f \in ServiceStatus(m, s) : TxsStep(m, f.m)
  BY <1>1 DEF ServiceStatus
<1>3. \A arg : \A f \in ResetFailed(m, arg) : TxsStep(m, f.m)
  BY <1>1 DEF ResetFailed
<1>4. ASSUME NEW action, NEW f \in Shutdown(m, action) PROVE TxsStep(m, f.m)
  <2> DEFINE x == [m EXCEPT !.resp = Reply("STOPPING", << >>), !.then = "drain",
                            !.action = IF action = "stop" THEN "none" ELSE action]
  <2>1. x.txs = m.txs /\ x.next_tx = m.next_tx
    OBVIOUS
  <2>2. f = Effect(reg, Answered(m, Error("not pid 1"))) \/ f = Effect(stop_all(reg), x)
    BY <1>4 DEF Shutdown
  <2> HIDE DEF x
  <2>3. TxsStep(m, x)
    BY <2>1, TxsStay
  <2>4. Effect(stop_all(reg), x).m = x
    BY DEF Effect
  <2> QED BY <1>1, <2>2, <2>3, <2>4
<1>5. ASSUME NEW f \in BeginReload(m) PROVE TxsStep(m, f.m)
  <2> DEFINE specs == load_service_specs(disk)
             stopping == {n \in Loaded(reg) : Changed(reg, specs, n) /\ ~ Stopped(reg.services[n])}
             x == [m EXCEPT !.pc = "wait", !.specs = specs, !.stopping = stopping, !.waits = 0]
             r == [Stopping(reg, stopping) EXCEPT !.jobs = @ \ stopping]
  <2>1. f = Effect(reg, Answered(m, Error("not readable"))) \/ f = Effect(r, x)
    BY <1>5 DEF BeginReload
  <2> HIDE DEF specs, stopping, r
  <2>2. x.txs = m.txs /\ x.next_tx = m.next_tx
    OBVIOUS
  <2> HIDE DEF x
  <2>3. TxsStep(m, x)
    BY <2>2, TxsStay
  <2>4. Effect(r, x).m = x
    BY DEF Effect
  <2> QED BY <1>1, <2>1, <2>3, <2>4
<1>6. \A s, op : \A f \in Operation(m, s, op) : TxsStep(m, f.m)
  BY OperationIsHonest
<1> QED BY <1>1, <1>2, <1>3, <1>4, <1>5, <1>6
        DEF Handled, StartService, StopService, RestartService, IsolateService, ReloadService
-----------------------------------------------------------------------------
(***************************************************************************)
(* The names the users ask for.                                            *)
(***************************************************************************)
NameTags ==
  {"ENABLE_SERVICE", "DISABLE_SERVICE", "IS_ENABLED", "RELOAD_SERVICE", "START_SERVICE",
   "ISOLATE_SERVICE", "STOP_SERVICE", "RESTART_SERVICE", "SERVICE_STATUS"}

\* A request that takes a name names a service.
LineOK(line) ==
  LET q == request_parse(line) IN q.tag \in NameTags => Written(q.arg[1]).n \in Names

Speaks(k) == Called(k.cmd, k.arg, k.ret) /\ LineOK(k.line)

NamedInv == \A c \in Clients : Speaks(cli[c])

LEMMA RequestLine ==
  ASSUME NEW tag, NEW arg \in Seq(STRING),
         tag \in NameTags => \A j \in 1 .. Len(arg) : Written(arg[j]).n \in Names
  PROVE  LineOK(request_as_line(Request(tag, arg)))
<1> DEFINE words == <<tag>> \o arg
<1>1. request_as_line(Request(tag, arg)) = words
  BY DEF request_as_line, Request
<1>2. words \in Seq({tag} \cup STRING) /\ words[1] = tag /\ Len(words) = Len(arg) + 1
      /\ \A i \in 1 .. Len(arg) : words[i + 1] = arg[i]
  OBVIOUS
<1>3. Tail(words) \in Seq({tag} \cup STRING) /\ Len(Tail(words)) = Len(arg)
      /\ \A i \in 1 .. Len(arg) : Tail(words)[i] = arg[i]
  BY <1>2
<1> HIDE DEF words
<1>4. ASSUME request_parse(words).tag \in NameTags
      PROVE  Written(request_parse(words).arg[1]).n \in Names
  <2>1. request_parse(words) = Request(tag, Tail(words)) /\ words[1] \in DOMAIN Grammar
        /\ TakesArgument(Grammar[tag], Tail(words))
    BY <1>2, <1>4 DEF request_parse, Malformed, NameTags
  <2>2. tag \in NameTags
    BY <1>4, <2>1 DEF Request
  <2>3. Grammar[tag] = "name"
    <3>1. /\ Grammar["ENABLE_SERVICE"] = "name" /\ Grammar["DISABLE_SERVICE"] = "name"
          /\ Grammar["IS_ENABLED"] = "name" /\ Grammar["RELOAD_SERVICE"] = "name"
          /\ Grammar["START_SERVICE"] = "name" /\ Grammar["ISOLATE_SERVICE"] = "name"
          /\ Grammar["STOP_SERVICE"] = "name" /\ Grammar["RESTART_SERVICE"] = "name"
          /\ Grammar["SERVICE_STATUS"] = "name"
      BY DEF Grammar
    <3> QED BY <2>2, <3>1 DEF NameTags
  <2>4. Len(Tail(words)) = 1
    BY <2>1, <2>3 DEF TakesArgument
  <2>5. Tail(words)[1] = arg[1] /\ 1 \in 1 .. Len(arg)
    <3> DEFINE rest == Tail(words)
    <3>1. Len(rest) = Len(arg) /\ Len(rest) = 1 /\ \A i \in 1 .. Len(arg) : rest[i] = arg[i]
      BY <1>3, <2>4
    <3> HIDE DEF rest
    <3>2. 1 \in 1 .. Len(arg)
      BY <3>1
    <3>3. rest[1] = arg[1]
      BY <3>1, <3>2
    <3> QED BY <3>2, <3>3 DEF rest
  <2>6. request_parse(words).arg = Tail(words)
    BY <2>1 DEF Request
  <2> QED BY <2>2, <2>5, <2>6
<1> QED BY <1>1, <1>4 DEF LineOK

LEMMA EmptyLine == LineOK(<< >>)
BY DEF LineOK, request_parse, Malformed, NameTags

LEMMA AskSpeaks ==
  ASSUME ShapeInv, NEW c \in Clients, NEW k, DOMAIN k = UserFields, Speaks(k), NEW at,
         NEW tag, NEW arg, LineOK(request_as_line(Request(tag, arg))), Ask(c, k, tag, arg, at)
  PROVE  Speaks(cli'[c])
<1> DEFINE asked == [k EXCEPT !.conn = "queued", !.at = at, !.ans = Down,
                              !.line = request_as_line(Request(tag, arg))]
           told == [k EXCEPT !.conn = "answered", !.at = at, !.ans = Down]
<1>1. /\ asked.cmd = k.cmd /\ asked.arg = k.arg /\ asked.ret = k.ret
      /\ asked.line = request_as_line(Request(tag, arg))
      /\ told.cmd = k.cmd /\ told.arg = k.arg /\ told.ret = k.ret /\ told.line = k.line
  BY DEF UserFields
<1>2. cli' = [cli EXCEPT ![c] = asked] \/ cli' = [cli EXCEPT ![c] = told]
  BY DEF Ask
<1> HIDE DEF asked, told
<1>3. cli'[c] = asked \/ cli'[c] = told
  BY <1>2 DEF ShapeInv
<1> QED BY <1>1, <1>3 DEF Speaks

\* A user that goes on with another command keeps its argument.
LEMMA GoesOnSpeaking ==
  ASSUME ShapeInv, NEW c \in Clients, Speaks(cli[c]), NEW k, k.arg = cli[c].arg, k.line = cli[c].line,
         Called(k.cmd, cli[c].arg, k.ret), cli' = [cli EXCEPT ![c] = k]
  PROVE  Speaks(cli'[c])
BY DEF ShapeInv, Speaks

LEMMA SilentSpeaks == Speaks(NoUser)
BY EmptyLine DEF Speaks, NoUser, Called, OneName

LEMMA CommandSpeaks ==
  ASSUME ShapeInv, NEW c \in Clients, Speaks(cli[c]), run(c)
  PROVE  Speaks(cli'[c])
<1> DEFINE arg == cli[c].arg
<1>0. DOMAIN cli[c] = UserFields /\ Called(cli[c].cmd, arg, cli[c].ret) /\ arg \in Seq(STRING)
  BY DEF ShapeInv, Speaks, Called
<1>1. \A tag : tag \notin NameTags => LineOK(request_as_line(Request(tag, arg)))
  BY <1>0, RequestLine
<1>2. ~ NoName(cli[c].cmd, cli[c].ret) => \A tag : LineOK(request_as_line(Request(tag, arg)))
  BY <1>0, RequestLine DEF Called
<1>3. \A tag : LineOK(request_as_line(Request(tag, << >>)))
  <2>1. << >> \in Seq(STRING) /\ Len(<< >>) = 0 /\ \A j \in 1 .. Len(<< >>) : FALSE
    OBVIOUS
  <2> QED BY <2>1, RequestLine
<1>4. \A at : current_status(c, at) => Speaks(cli'[c])
  BY <1>0, <1>3, AskSpeaks DEF current_status
<1>5. \A tag, a, at : LineOK(request_as_line(Request(tag, a))) /\ Ask(c, cli[c], tag, a, at) => Speaks(cli'[c])
  BY <1>0, AskSpeaks
<1>6. \A tag, a, at : LineOK(request_as_line(Request(tag, a))) /\ Ask(c, [cli[c] EXCEPT !.tries = @ + 1], tag, a, at)
         => Speaks(cli'[c])
  <2> DEFINE k == [cli[c] EXCEPT !.tries = @ + 1]
  <2>1. DOMAIN k = UserFields /\ Speaks(k)
    BY <1>0 DEF UserFields, Speaks
  <2> HIDE DEF k
  <2> QED BY <2>1, AskSpeaks DEF k
<1>7. Return(c) => Speaks(cli'[c])
  BY SilentSpeaks DEF Return, ShapeInv
<1>8. ASSUME NEW at, Goto(c, at) PROVE Speaks(cli'[c])
  <2> DEFINE k == [cli[c] EXCEPT !.at = at, !.conn = "none"]
  <2>1. k.arg = arg /\ k.line = cli[c].line /\ k.cmd = cli[c].cmd /\ k.ret = cli[c].ret
    BY <1>0 DEF UserFields
  <2>2. cli' = [cli EXCEPT ![c] = k]
    BY <1>8 DEF Goto, ShapeInv
  <2> HIDE DEF k
  <2> QED BY <1>0, <2>1, <2>2, GoesOnSpeaking
<1>9. ASSUME NEW cmd, Called(cmd, arg, cli[c].ret), Become(c, cmd) PROVE Speaks(cli'[c])
  <2> DEFINE k == [cli[c] EXCEPT !.cmd = cmd, !.at = "begin", !.conn = "none"]
  <2>1. k.arg = arg /\ k.line = cli[c].line /\ k.cmd = cmd /\ k.ret = cli[c].ret
    BY <1>0 DEF UserFields
  <2>2. cli' = [cli EXCEPT ![c] = k]
    BY <1>9 DEF Become, ShapeInv
  <2> HIDE DEF k
  <2> QED BY <1>9, <2>1, <2>2, GoesOnSpeaking
<1>10. ASSUME NEW cmd, Called(cmd, arg, cli[c].ret), NEW at, ReturnTo(c, cmd, at) PROVE Speaks(cli'[c])
  <2> DEFINE k == [cli[c] EXCEPT !.cmd = cmd, !.at = at, !.conn = "none", !.tries = 0]
  <2>1. k.arg = arg /\ k.line = cli[c].line /\ k.cmd = cmd /\ k.ret = cli[c].ret
    BY <1>0 DEF UserFields
  <2>2. cli' = [cli EXCEPT ![c] = k]
    BY <1>10 DEF ReturnTo, ShapeInv
  <2> HIDE DEF k
  <2> QED BY <1>10, <2>1, <2>2, GoesOnSpeaking
<1>11. ASSUME NEW ret, Called("stop_service", arg, ret),
              cli' = [cli EXCEPT ![c] = [cli[c] EXCEPT !.cmd = "stop_service", !.at = "begin",
                                                       !.conn = "none", !.ret = ret]]
       PROVE  Speaks(cli'[c])
  <2> DEFINE k == [cli[c] EXCEPT !.cmd = "stop_service", !.at = "begin", !.conn = "none", !.ret = ret]
  <2>1. k.arg = arg /\ k.line = cli[c].line /\ k.cmd = "stop_service" /\ k.ret = ret
    BY <1>0 DEF UserFields
  <2> HIDE DEF k
  <2> QED BY <1>11, <2>1, GoesOnSpeaking DEF k
<1>12. ASSUME NEW cmd, NEW tag, Single(c, cmd, tag), tag \in NameTags => ~ NoName(cli[c].cmd, cli[c].ret)
       PROVE  Speaks(cli'[c])
  BY <1>1, <1>2, <1>5, <1>7, <1>12 DEF Single
<1> DEFINE cmd == cli[c].cmd
<1>13. ASSUME start_service(c) PROVE Speaks(cli'[c])
  <2>1. cmd = "start_service"
    BY <1>13 DEF start_service, Now
  <2>2. ~ NoName(cmd, cli[c].ret) /\ Called("start_daemon", arg, cli[c].ret)
    BY <1>0, <2>1 DEF NoName, Called, OneName
  <2> QED BY <1>2, <1>4, <1>5, <1>7, <1>8, <1>9, <1>13, <2>2 DEF start_service
<1>14. ASSUME start_daemon(c) PROVE Speaks(cli'[c])
  <2> DEFINE ready == [cli[c] EXCEPT !.at = "ready", !.conn = "none"]
             Up == IF Got(c, "STATUS") /\ cli[c].arg # << >>
                   THEN ReturnTo(c, "start_service", "go") ELSE Return(c)
  <2>1. cmd = "start_daemon"
    BY <1>14 DEF start_daemon, Now
  <2>2. Called("start_service", arg, cli[c].ret)
    BY <1>0, <2>1 DEF NoName, Called, OneName
  <2>3. Up => Speaks(cli'[c])
    BY <1>7, <1>10, <2>2
  <2>4. cli' = [cli EXCEPT ![c] = ready] => Speaks(cli'[c])
    <3>1. ready.arg = arg /\ ready.line = cli[c].line /\ ready.cmd = cmd /\ ready.ret = cli[c].ret
      BY <1>0 DEF UserFields
    <3> HIDE DEF ready
    <3> QED BY <1>0, <3>1, GoesOnSpeaking
  <2>5. cli' = [Disconnected EXCEPT ![c] = NoUser] => Speaks(cli'[c])
    BY SilentSpeaks DEF Disconnected
  <2> HIDE DEF Up
  <2>6. \/ current_status(c, "probe") \/ Up \/ Return(c)
        \/ cli' = [cli EXCEPT ![c].at = "ready", ![c].conn = "none"]
        \/ Ask(c, [cli[c] EXCEPT !.tries = @ + 1], "STATUS", << >>, "polled")
        \/ cli' = [Disconnected EXCEPT ![c] = NoUser] \/ Goto(c, "ready")
    BY <1>14 DEF start_daemon, Up
  <2>7. cli' = [cli EXCEPT ![c].at = "ready", ![c].conn = "none"] => cli' = [cli EXCEPT ![c] = ready]
    BY DEF ShapeInv
  <2> QED BY <1>3, <1>4, <1>6, <1>7, <1>8, <2>3, <2>4, <2>5, <2>6, <2>7
<1>15. stop_daemon(c) => Speaks(cli'[c])
  BY <1>1, <1>3, <1>5, <1>6, <1>7, <1>8 DEF stop_daemon
<1>16. ASSUME stop_service(c) PROVE Speaks(cli'[c])
  <2>1. cmd = "stop_service"
    BY <1>16 DEF stop_service, Now
  <2>2. /\ ~ NoName(cmd, cli[c].ret) /\ Called("mask_service", arg, cli[c].ret)
        /\ Called("disable_service", arg, cli[c].ret)
    BY <1>0, <2>1 DEF NoName, Called, OneName
  <2>3. StopReturns(c) => Speaks(cli'[c])
    BY <1>7, <1>10, <2>2 DEF StopReturns
  <2> QED BY <1>2, <1>5, <1>6, <1>7, <1>8, <1>16, <2>2, <2>3 DEF stop_service
<1>17. ASSUME enable_service(c) PROVE Speaks(cli'[c])
  <2>1. cmd = "enable_service"
    BY <1>17 DEF enable_service, Now
  <2>2. ~ NoName(cmd, cli[c].ret) /\ Called("start_service", arg, cli[c].ret)
    BY <1>0, <2>1 DEF NoName, Called, OneName
  <2> QED BY <1>2, <1>4, <1>5, <1>7, <1>9, <1>17, <2>2 DEF enable_service
<1>18. ASSUME disable_service(c) PROVE Speaks(cli'[c])
  <2>1. cmd = "disable_service"
    BY <1>18 DEF disable_service, Now
  <2>2. ~ NoName(cmd, cli[c].ret) /\ Called("stop_service", arg, "disable_service")
    BY <1>0, <2>1 DEF NoName, Called, OneName
  <2> QED BY <1>2, <1>4, <1>5, <1>7, <1>8, <1>11, <1>18, <2>2 DEF disable_service
<1>19. ASSUME mask_service(c) PROVE Speaks(cli'[c])
  <2> DEFINE marked == [cli[c] EXCEPT !.at = "marked", !.conn = "none", !.held = TRUE]
  <2>1. cmd = "mask_service"
    BY <1>19 DEF mask_service, Now
  <2>2. ~ NoName(cmd, cli[c].ret) /\ Called("stop_service", arg, "mask_service")
    BY <1>0, <2>1 DEF NoName, Called, OneName
  <2>3. cli' = [cli EXCEPT ![c] = marked] => Speaks(cli'[c])
    <3>1. marked.arg = arg /\ marked.line = cli[c].line /\ marked.cmd = cmd /\ marked.ret = cli[c].ret
      BY <1>0 DEF UserFields
    <3> HIDE DEF marked
    <3> QED BY <1>0, <3>1, GoesOnSpeaking
  <2> HIDE DEF marked
  <2> QED BY <1>2, <1>3, <1>4, <1>5, <1>7, <1>8, <1>11, <1>19, <2>2, <2>3 DEF mask_service, marked
<1>20. ASSUME unmask_service(c) PROVE Speaks(cli'[c])
  <2>1. CASE Now(c, "unmask_service", "begin")
    <3>1. cli'[c] = [cli[c] EXCEPT !.at = "cleared"]
      BY <1>20, <2>1 DEF unmask_service, Now
    <3> QED BY <1>0, <3>1 DEF Speaks, UserFields
  <2>2. CASE ~ Now(c, "unmask_service", "begin")
    BY <1>3, <1>4, <1>5, <1>7, <1>20, <2>2 DEF unmask_service
  <2> QED BY <2>1, <2>2
<1>21. ASSUME follow_events(c) PROVE Speaks(cli'[c])
  BY <1>1, <1>5, <1>7, <1>21 DEF follow_events, NameTags
<1>22. ASSUME service_request(c) PROVE Speaks(cli'[c])
  <2>1. cmd = "service_request"
    BY <1>22 DEF service_request, Single, Now
  <2>2. cli[c].ret \in NameTags => ~ NoName(cmd, cli[c].ret)
    BY <2>1 DEF NoName, NameTags
  <2> QED BY <1>12, <1>22, <2>2 DEF service_request
<1>23. ASSUME transaction_status(c) PROVE Speaks(cli'[c])
  <2>1. Single(c, "transaction_status", "TRANSACTION_STATUS")
    BY <1>23 DEF transaction_status
  <2> QED BY <1>12, <2>1 DEF NameTags
<1>24. ASSUME NEW what, what \notin {"service_request", "transaction_status", "follow_events"},
              NEW tag, Single(c, what, tag)
       PROVE  Speaks(cli'[c])
  <2>1. cmd = what
    BY <1>24 DEF Single, Now
  <2> QED BY <1>12, <1>24, <2>1 DEF NoName
<1> QED BY <1>13, <1>14, <1>15, <1>16, <1>17, <1>18, <1>19, <1>20, <1>21, <1>22, <1>23, <1>24
        DEF run, daemon_status, isolate_service, service_status, restart_service,
            reset_failed_of, list_services, reload_services, reload_service_of, is_active, is_failed

(***************************************************************************)
(* The manager touches the connections of its users and nothing else of    *)
(* them.                                                                   *)
(***************************************************************************)
UsersKept ==
  /\ DOMAIN cli' = Clients
  /\ \A c \in Clients : \A f \in UserFields \ {"conn", "ans"} : cli'[c][f] = cli[c][f]

LEMMA CutOff ==
  ASSUME ShapeInv, NEW c \in Clients
  PROVE  \A f \in UserFields \ {"conn", "ans"} : Disconnected[c][f] = cli[c][f]
<1>1. \/ Disconnected[c] = [cli[c] EXCEPT !.conn = "answered", !.ans = Down]
      \/ Disconnected[c] = [cli[c] EXCEPT !.conn = "answered", !.ans = response_parse(<< >>)]
      \/ Disconnected[c] = cli[c]
  BY DEF Disconnected
<1> QED BY <1>1 DEF ShapeInv, UserFields

LEMMA Reconnected ==
  ASSUME ShapeInv, NEW c \in Clients, NEW conn, NEW k, k = [cli EXCEPT ![c].conn = conn]
  PROVE  /\ DOMAIN k = Clients
         /\ \A d \in Clients : \A f \in UserFields \ {"conn", "ans"} : k[d][f] = cli[d][f]
BY DEF ShapeInv, UserFields

LEMMA StepKeepsUsers ==
  ASSUME EndIInv, Step \/ Crash \/ Boot \/ Signal \/ Edit
  PROVE  UsersKept
<1>0. ShapeInv
  BY DEF EndIInv
<1>1. cli' = cli => UsersKept
  BY <1>0 DEF UsersKept, ShapeInv
<1>2. cli' = Disconnected => UsersKept
  <2>1. DOMAIN Disconnected = Clients
    BY DEF Disconnected
  <2> QED BY <1>0, <2>1, CutOff DEF UsersKept
<1>3. ASSUME NEW c \in Clients, NEW conn, cli' = [cli EXCEPT ![c].conn = conn] PROVE UsersKept
  BY <1>0, <1>3, Reconnected DEF UsersKept
<1>4. \A why : EndProcess(why) => UsersKept
  BY <1>2 DEF EndProcess
<1>5. ASSUME Accept PROVE UsersKept
  <2>1. mgr.backlog # << >> /\ mgr.backlog[1] \in Clients
    BY <1>5, QueueMoves DEF Accept
  <2>2. \E conn : cli' = [cli EXCEPT ![mgr.backlog[1]].conn = conn]
    BY <1>5 DEF Accept, Serve
  <2> QED BY <1>3, <2>1, <2>2
<1>6. ASSUME open_event_subscription PROVE UsersKept
  <2>1. mgr.backlog # << >> /\ mgr.backlog[1] \in Clients
    BY <1>6, QueueMoves DEF open_event_subscription
  <2>2. \E conn : cli' = [cli EXCEPT ![mgr.backlog[1]].conn = conn]
    BY <1>6 DEF open_event_subscription, Subscribe
  <2> QED BY <1>3, <2>1, <2>2
<1>7. ASSUME ObserveEnd PROVE UsersKept
  <2>1. DOMAIN cli' = Clients
        /\ \A c \in Clients : cli'[c] \in {[cli[c] EXCEPT !.conn = "answered", !.ans = Down], cli[c]}
    BY <1>7 DEF ObserveEnd
  <2> QED BY <1>0, <2>1 DEF UsersKept, ShapeInv, UserFields
<1>8. ASSUME Answer PROVE UsersKept
  <2> DEFINE c == mgr.client[1]
             told == [cli EXCEPT ![c].conn = "answered",
                                 ![c].ans = response_parse(response_as_line(mgr.resp))]
  <2>1. c \in Clients
    BY <1>8 DEF Answer, EndIInv, QueueInv
  <2>2. DOMAIN told = Clients
        /\ \A d \in Clients : \A f \in UserFields \ {"conn", "ans"} : told[d][f] = cli[d][f]
    BY <1>0, <2>1 DEF ShapeInv, UserFields
  <2>3. \/ EndProcess("answer lost") \/ cli' = told
        \/ cli' = [d \in Clients |-> IF d = c THEN told[c] ELSE Disconnected[d]]
    BY <1>8 DEF Answer
  <2> HIDE DEF told, c
  <2>4. CASE cli' = told
    BY <2>2, <2>4 DEF UsersKept
  <2>5. CASE cli' = [d \in Clients |-> IF d = c THEN told[c] ELSE Disconnected[d]]
    <3>1. DOMAIN cli' = Clients /\ \A d \in Clients : cli'[d] = told[d] \/ cli'[d] = Disconnected[d]
      BY <2>5
    <3> QED BY <1>0, <2>2, <3>1, CutOff DEF UsersKept
  <2> QED BY <1>4, <2>3, <2>4, <2>5
<1>9. Step => UsersKept
  <2>1. Load \/ Idle \/ Drained \/ Late => UsersKept
    <3>1. Load \/ Idle \/ Drained \/ Late => cli' = cli \/ \E why : EndProcess(why)
      BY DEF Load, Idle, LoopEnd, Drained, Late
    <3> QED BY <1>1, <1>4, <3>1
  <2>2. Bring \/ bind_listener \/ ObserveOne \/ ReloadWait \/ ReloadApply \/ Drain => UsersKept
    BY <1>1 DEF Bring, bind_listener, ObserveOne, ReloadWait, ReloadApply, Drain
  <2>3. Turn => UsersKept
    <3>1. Turn => cli' = cli
      BY DEF Turn
    <3> QED BY <1>1, <3>1
  <2> QED BY <1>5, <1>6, <1>7, <1>8, <2>1, <2>2, <2>3 DEF Step
<1> QED BY <1>1, <1>2, <1>9 DEF Crash, Boot, Signal, Edit

LEMMA NamedStep == EndIInv /\ MixInv /\ NamedInv /\ [Next]_vars => NamedInv'
<1> SUFFICES ASSUME EndIInv, MixInv, NamedInv, [Next]_vars PROVE NamedInv'
  OBVIOUS
<1>0. ShapeInv
  BY DEF EndIInv
<1>1. UsersKept => NamedInv'
  BY DEF UsersKept, UserFields, NamedInv, Speaks
<1>2. ASSUME NEW c \in Clients, run(c) PROVE NamedInv'
  <2>1. Speaks(cli'[c])
    BY <1>0, <1>2, CommandSpeaks DEF NamedInv
  <2>2. ASSUME NEW d \in Clients \ {c} PROVE Speaks(cli'[d])
    <3>1. \A f \in {"cmd", "arg", "ret", "line"} : cli'[d][f] = cli[d][f]
      <4>1. CASE UserStep(c) \/ Launches(c)
        BY <4>1 DEF UserStep, Launches, OnlyUser
      <4>2. CASE Kills(c)
        <5>1. cli'[d] = Disconnected[d]
          BY <4>2 DEF Kills, Disconnected
        <5> QED BY <1>0, <5>1, CutOff DEF UserFields
      <4>3. CASE Lifts(c)
        BY <4>3 DEF Lifts, UserFields
      <4> QED BY <1>0, <1>2, <4>1, <4>2, <4>3, CommandMoves
    <3> QED BY <3>1 DEF NamedInv, Speaks
  <2> QED BY <2>1, <2>2 DEF NamedInv
<1>3. ASSUME NEW c \in Clients, Begin(c) PROVE NamedInv'
  <2>1. PICK i \in DOMAIN mix.commands :
          cli' = [cli EXCEPT ![c] = [NoUser EXCEPT !.cmd = mix.commands[i].cmd, !.arg = mix.commands[i].arg,
                                                   !.ret = mix.commands[i].req, !.held = mix.commands[i].now]]
    BY <1>3 DEF Begin
  <2> DEFINE k == [NoUser EXCEPT !.cmd = mix.commands[i].cmd, !.arg = mix.commands[i].arg,
                                 !.ret = mix.commands[i].req, !.held = mix.commands[i].now]
  <2>2. /\ k.cmd = mix.commands[i].cmd /\ k.arg = mix.commands[i].arg /\ k.ret = mix.commands[i].req
        /\ k.line = << >>
    BY DEF NoUser
  <2>3. cli'[c] = k /\ \A d \in Clients \ {c} : cli'[d] = cli[d]
    BY <1>0, <2>1 DEF ShapeInv
  <2> HIDE DEF k
  <2>4. Speaks(k)
    BY <2>2, MixesAssumption, EmptyLine DEF MixInv, Speaks
  <2> QED BY <2>3, <2>4 DEF NamedInv
<1>4. ASSUME NEW c \in Clients, Interrupt(c) PROVE NamedInv'
  <2> DEFINE k == [NoUser EXCEPT !.cmd = "gone", !.conn = "gone", !.line = cli[c].line]
  <2>1. k.cmd = "gone" /\ k.arg = << >> /\ k.line = cli[c].line
    BY DEF NoUser
  <2>2. cli'[c] = k /\ \A d \in Clients \ {c} : cli'[d] = cli[d]
    BY <1>0, <1>4 DEF Interrupt, ShapeInv
  <2> HIDE DEF k
  <2>3. Speaks(k)
    BY <2>1 DEF NamedInv, Speaks, Called, OneName
  <2> QED BY <2>2, <2>3 DEF NamedInv
<1>5. CASE Step \/ Crash \/ Boot \/ Signal \/ Edit
  BY <1>1, <1>5, StepKeepsUsers
<1>6. CASE UNCHANGED vars
  BY <1>6 DEF vars, NamedInv
<1> QED BY <1>2, <1>3, <1>4, <1>5, <1>6 DEF Next

-----------------------------------------------------------------------------
(***************************************************************************)
(* The table of services under the steps of the manager.                   *)
(***************************************************************************)
LEMMA EffectIs == \A r, x : Effect(r, x).reg = r /\ Effect(r, x).m = x
BY DEF Effect

LEMMA OperationFollows ==
  ASSUME StartsOK, RegOK(reg), NEW m, NEW s, Written(s).n \in Names,
         NEW op \in {"start", "stop", "restart", "isolate", "reload"}, NEW e \in Operation(m, s, op)
  PROVE  Follows(reg, e.reg, disk.masked)
<1> DEFINE found == ensure_service_loaded(reg, disk, Written(s))
           n == found.name
           done == CASE op = "start" -> start(found.reg, n)
                     [] op = "stop" -> {Done(stop(found.reg, n))}
                     [] op = "restart" -> restart(found.reg, n)
                     [] op = "isolate" -> isolate(found.reg, n)
                     [] op = "reload" -> reload_service(found.reg, n)
<1>0. Operation(m, s, op) =
        IF ~ found.ok THEN {Effect(found.reg, Answered(m, Error("not loaded")))}
        ELSE {Effect(o.reg, IF o.ok THEN accepted_transaction(m, op, n)
                            ELSE Answered(m, Error("refused"))) : o \in done}
  BY DEF Operation
<1>2. Follows(reg, found.reg, disk.masked) /\ (found.ok => n \in Loaded(found.reg))
  BY EnsureFollows
<1> HIDE DEF found, n, done
<1>1. \/ e.reg = found.reg
      \/ found.ok /\ \E o \in done : e.reg = o.reg
  <2>1. CASE ~ found.ok
    <3>1. e = Effect(found.reg, Answered(m, Error("not loaded")))
      BY <1>0, <2>1
    <3> QED BY <3>1, EffectIs
  <2>2. CASE found.ok
    <3>1. PICK o \in done : e = Effect(o.reg, IF o.ok THEN accepted_transaction(m, op, n)
                                              ELSE Answered(m, Error("refused")))
      BY <1>0, <2>2
    <3> QED BY <2>2, <3>1, EffectIs
  <2> QED BY <2>1, <2>2
<1> USE DEF n, done
<1>3. ASSUME found.ok, NEW o \in done PROVE Follows(found.reg, o.reg, disk.masked)
  <2> DEFINE r == found.reg
  <2>1. RegOK(r) /\ n \in Loaded(r)
    BY <1>2, <1>3 DEF Follows
  <2> HIDE DEF n
  <2>2. CASE op = "start"
    BY <1>3, <2>1, <2>2, StartFollows
  <2>3. CASE op = "stop"
    BY <1>3, <2>1, <2>3, StopFollows DEF Done
  <2>4. CASE op = "restart"
    BY <1>3, <2>1, <2>4, OperationsFollow
  <2>5. CASE op = "isolate"
    BY <1>3, <2>1, <2>5, OperationsFollow
  <2>6. CASE op = "reload"
    BY <1>3, <2>1, <2>6, OperationsFollow
  <2> QED BY <2>2, <2>3, <2>4, <2>5, <2>6
<1> HIDE DEF done
<1>4. CASE e.reg = found.reg
  BY <1>2, <1>4
<1>5. ASSUME found.ok, NEW o \in done, e.reg = o.reg PROVE Follows(reg, e.reg, disk.masked)
  BY <1>2, <1>3, <1>5, FollowsOn
<1> QED BY <1>1, <1>4, <1>5

LEMMA SpecsAre == DOMAIN load_service_specs(disk) \subseteq Names \ disk.masked
BY DEF load_service_specs, discover_service_names

LEMMA HandledFollows ==
  ASSUME StartsOK, RegOK(reg), NEW m, NEW q, q.tag \in NameTags => Written(q.arg[1]).n \in Names,
         NEW e \in Handled(m, q)
  PROVE  Follows(reg, e.reg, disk.masked)
<1>1. \A x : Follows(reg, Effect(reg, x).reg, disk.masked)
  BY FollowsItself DEF Effect
<1>2. ASSUME NEW s, Written(s).n \in Names, NEW f \in ServiceStatus(m, s) PROVE Follows(reg, f.reg, disk.masked)
  <2> DEFINE found == ensure_service_loaded(reg, disk, Written(s))
             a == Answered(m, IF found.ok
                    THEN Reply("SERVICE", <<found.name, found.reg.services[found.name].st,
                                            ToString(found.reg.services[found.name].gen)>>)
                    ELSE Error("not loaded"))
  <2>1. f = Effect(found.reg, a)
    BY <1>2 DEF ServiceStatus
  <2> HIDE DEF a
  <2>2. Follows(reg, found.reg, disk.masked)
    BY <1>2, EnsureFollows
  <2> HIDE DEF found
  <2> QED BY <2>1, <2>2, EffectIs
<1>3. ASSUME NEW arg, NEW f \in ResetFailed(m, arg) PROVE Follows(reg, f.reg, disk.masked)
  <2>1. f.reg = reg \/ \E who : f.reg = reset_failed(reg, who)
    BY <1>3 DEF ResetFailed, Effect
  <2> QED BY <2>1, ResetFollows, FollowsItself
<1>4. ASSUME NEW action, NEW f \in Shutdown(m, action) PROVE Follows(reg, f.reg, disk.masked)
  <2> DEFINE x == [m EXCEPT !.resp = Reply("STOPPING", << >>), !.then = "drain",
                            !.action = IF action = "stop" THEN "none" ELSE action]
  <2>1. f = Effect(reg, Answered(m, Error("not pid 1"))) \/ f = Effect(stop_all(reg), x)
    BY <1>4 DEF Shutdown
  <2> HIDE DEF x
  <2>2. f.reg = reg \/ f.reg = stop_all(reg)
    BY <2>1, EffectIs
  <2> QED BY <2>2, StopFollows, FollowsItself
<1>5. ASSUME NEW f \in BeginReload(m) PROVE Follows(reg, f.reg, disk.masked)
  <2> DEFINE specs == load_service_specs(disk)
             stopping == {n \in Loaded(reg) : Changed(reg, specs, n) /\ ~ Stopped(reg.services[n])}
             r == [Stopping(reg, stopping) EXCEPT !.jobs = @ \ stopping]
             x == [m EXCEPT !.pc = "wait", !.specs = specs, !.stopping = stopping, !.waits = 0]
  <2>0. f = Effect(reg, Answered(m, Error("not readable"))) \/ f = Effect(r, x)
    BY <1>5 DEF BeginReload
  <2> HIDE DEF x, r
  <2>1. f.reg = reg \/ f.reg = r
    BY <2>0, EffectIs
  <2> USE DEF r
  <2> HIDE DEF stopping
  <2>2. Follows(reg, Stopping(reg, stopping), disk.masked) /\ Stopping(reg, stopping).jobs \ stopping \subseteq Names
    BY StoppingFollows DEF Follows, RegOK
  <2>3. Follows(reg, r, disk.masked)
    BY <2>2, JobsFollow
  <2> QED BY <2>1, <2>3, FollowsItself
<1>6. ASSUME NEW s, Written(s).n \in Names, NEW op \in {"start", "stop", "restart", "isolate", "reload"},
             NEW f \in Operation(m, s, op)
      PROVE  Follows(reg, f.reg, disk.masked)
  BY <1>6, OperationFollows
<1>7. CASE q.tag \in NameTags
  <2>1. Written(q.arg[1]).n \in Names
    BY <1>7
  <2> QED BY <1>1, <1>2, <1>6, <1>7, <2>1
          DEF Handled, NameTags, StartService, StopService, RestartService, IsolateService, ReloadService
<1>8. CASE q.tag \notin NameTags
  BY <1>1, <1>3, <1>4, <1>5, <1>8 DEF Handled, NameTags
<1> QED BY <1>7, <1>8

\* A reload waits with the descriptors of the directories.
LEMMA HandledWaits ==
  ASSUME NEW m, DOMAIN m = ManagerFields, m.pc = "answer", NEW q, NEW e \in Handled(m, q), e.m.pc = "wait"
  PROVE  q.tag = "RELOAD" /\ e.m.specs = load_service_specs(disk)
<1>1. ASSUME NEW r, NEW resp PROVE Effect(r, Answered(m, resp)).m.pc = "answer"
  BY EffectIs DEF Answered, ManagerFields
<1>2. ASSUME NEW r, NEW op, NEW n PROVE Effect(r, accepted_transaction(m, op, n)).m.pc = "answer"
  <2>1. accepted_transaction(m, op, n).pc = "answer"
    BY DEF accepted_transaction, ManagerFields
  <2> QED BY <2>1, EffectIs
<1>3. \A s : \A f \in ServiceStatus(m, s) : f.m.pc = "answer"
  BY <1>1 DEF ServiceStatus
<1>4. \A arg : \A f \in ResetFailed(m, arg) : f.m.pc = "answer"
  BY <1>1 DEF ResetFailed
<1>5. ASSUME NEW action, NEW f \in Shutdown(m, action) PROVE f.m.pc = "answer"
  <2> DEFINE x == [m EXCEPT !.resp = Reply("STOPPING", << >>), !.then = "drain",
                            !.action = IF action = "stop" THEN "none" ELSE action]
  <2>1. x.pc = "answer"
    BY DEF ManagerFields
  <2>2. f = Effect(reg, Answered(m, Error("not pid 1"))) \/ f = Effect(stop_all(reg), x)
    BY <1>5 DEF Shutdown
  <2> HIDE DEF x
  <2>3. Effect(stop_all(reg), x).m = x /\ Effect(reg, Answered(m, Error("not pid 1"))).m.pc = "answer"
    BY <1>1, EffectIs
  <2> QED BY <2>1, <2>2, <2>3
<1>6. ASSUME NEW s, NEW op, NEW f \in Operation(m, s, op) PROVE f.m.pc = "answer"
  <2>1. \/ \E r, resp : f = Effect(r, Answered(m, resp))
        \/ \E r, n : f = Effect(r, accepted_transaction(m, op, n))
    BY <1>6 DEF Operation
  <2>2. ASSUME NEW r, NEW resp, f = Effect(r, Answered(m, resp)) PROVE f.m.pc = "answer"
    BY <1>1, <2>2
  <2>3. ASSUME NEW r, NEW n, f = Effect(r, accepted_transaction(m, op, n)) PROVE f.m.pc = "answer"
    BY <1>2, <2>3
  <2> QED BY <2>1, <2>2, <2>3
<1>7. e \in BeginReload(m) /\ q.tag = "RELOAD"
  BY <1>1, <1>3, <1>4, <1>5, <1>6
     DEF Handled, StartService, StopService, RestartService, IsolateService, ReloadService
<1>8. e.m = Answered(m, Error("not readable")) \/ e.m.specs = load_service_specs(disk)
  <2> DEFINE stopping == {n \in Loaded(reg) : Changed(reg, load_service_specs(disk), n) /\ ~ Stopped(reg.services[n])}
             r == [Stopping(reg, stopping) EXCEPT !.jobs = @ \ stopping]
             x == [m EXCEPT !.pc = "wait", !.specs = load_service_specs(disk), !.stopping = stopping, !.waits = 0]
  <2>1. x.specs = load_service_specs(disk)
    BY DEF ManagerFields
  <2>2. e = Effect(reg, Answered(m, Error("not readable"))) \/ e = Effect(r, x)
    BY <1>7 DEF BeginReload
  <2> HIDE DEF x, r
  <2>3. Effect(r, x).m = x /\ Effect(reg, Answered(m, Error("not readable"))).m = Answered(m, Error("not readable"))
    BY EffectIs
  <2> QED BY <2>1, <2>2, <2>3
<1>9. Answered(m, Error("not readable")).pc = "answer"
  BY DEF Answered, ManagerFields
<1> QED BY <1>7, <1>8, <1>9

(***************************************************************************)
(* The table is sound, empty while no manager has loaded it, and a reload  *)
(* that waits has descriptors of names.                                    *)
(***************************************************************************)
TableInv ==
  /\ RegOK(reg)
  /\ mgr.pc \in {"down", "load"} => reg = Empty
  /\ mgr.pc = "wait" => DOMAIN mgr.specs \subseteq Names

\* Besides, what is up stays, and a masked name comes only from a reload
\* that was under way.
TableStep ==
  /\ TableInv'
  /\ mgr'.pc # "down" => UpStays(reg, reg')
  /\ Loaded(reg') \cap disk.masked \subseteq
       Loaded(reg) \cup (IF mgr.pc = "wait" THEN DOMAIN mgr.specs ELSE {})

LEMMA TableFollows ==
  ASSUME mix' = mix, Follows(reg, reg', disk.masked), mgr'.pc \notin {"down", "load"},
         mgr'.pc = "wait" => DOMAIN mgr'.specs \subseteq Names
  PROVE  TableStep
<1>1. RegOK(reg)'
  BY DEF Follows, RegOK, SvcOK, IdentitiesDistinct, AliasesLead
<1> QED BY <1>1 DEF Follows, TableStep, TableInv, UpStays

LEMMA TableStays ==
  ASSUME TableInv, reg' = reg, mix' = mix, mgr'.pc \in {"down", "load"} => reg = Empty,
         mgr'.pc = "wait" => DOMAIN mgr'.specs \subseteq Names
  PROVE  TableStep
<1>1. RegOK(reg)'
  BY DEF TableInv, RegOK, SvcOK, IdentitiesDistinct, AliasesLead
<1> QED BY <1>1 DEF TableInv, TableStep, UpStays, SameSpec

LEMMA TableEmptied ==
  ASSUME TableInv, mix' = mix, reg' = Empty, mgr'.pc = "down"
  PROVE  TableStep
<1>1. RegOK(reg)' /\ Loaded(reg') = {}
  BY EmptyIsFine DEF RegOK, SvcOK, IdentitiesDistinct, AliasesLead
<1> QED BY <1>1 DEF TableStep, TableInv

LimitsOK == StartsOK /\ FatesOK

LEMMA Limits == MixInv => LimitsOK /\ mix.enabled \subseteq Names
BY MixesAssumption DEF MixInv, LimitsOK, StartsOK, FatesOK

LEMMA EndTable ==
  ASSUME TableInv, mix' = mix, NEW why, EndProcess(why)
  PROVE  TableStep
<1>1. reg' = Empty /\ mgr'.pc = "down"
  BY NoManagerIs DEF EndProcess, ManagerFields
<1> QED BY <1>1, TableEmptied

LEMMA StepTable ==
  ASSUME EndIInv, NamedInv, LimitsOK, TableInv, Step
  PROVE  TableStep
<1> USE DEF LimitsOK
<1>0. mix' = mix /\ RegOK(reg) /\ DOMAIN mgr = ManagerFields
  BY MixStays DEF Next, TableInv, EndIInv, ShapeInv
<1>1. ASSUME Load PROVE TableStep
  <2>1. CASE load_services(disk).ok
    <3>1. reg' = load_services(disk).reg /\ reg = Empty /\ mgr'.pc = "observe"
      BY <1>0, <1>1, <2>1 DEF Load, TableInv, ManagerFields
    <3>2. Follows(reg, reg', disk.masked)
      BY <3>1, LoadFollows
    <3> QED BY <1>0, <3>1, <3>2, TableFollows
  <2>2. CASE ~ load_services(disk).ok
    BY <1>0, <1>1, <2>2, EndTable DEF Load
  <2> QED BY <2>1, <2>2
<1>2. ASSUME Bring PROVE TableStep
  <2>1. reg' \in BringUp(reg) /\ mgr'.pc = "observe"
    BY <1>0, <1>2 DEF Bring, ManagerFields
  <2>2. Follows(reg, reg', disk.masked)
    BY <1>0, <2>1, BringUpFollows
  <2> QED BY <1>0, <2>1, <2>2, TableFollows
<1>3. ASSUME bind_listener PROVE TableStep
  <2>1. reg' = reg /\ mgr'.pc = "turn"
    BY <1>0, <1>3 DEF bind_listener, ManagerFields
  <2> QED BY <1>0, <2>1, TableStays
<1>4. ASSUME Turn PROVE TableStep
  <2>1. mgr'.pc = "observe"
    BY <1>0, <1>4 DEF Turn, ManagerFields
  <2>2. Follows(reg, reg', disk.masked)
    <3>1. CASE mgr.signal
      BY <1>0, <1>4, <3>1, StopFollows DEF Turn
    <3>2. CASE ~ mgr.signal
      <4>1. PICK r \in poll(reg) : reg' = r \/ reg' = stop_all(r)
        BY <1>4, <3>2 DEF Turn
      <4>2. Follows(reg, r, disk.masked)
        BY <1>0, <4>1, PollFollows
      <4>3. Follows(r, stop_all(r), disk.masked)
        BY <4>2, StopFollows DEF Follows
      <4> QED BY <4>1, <4>2, <4>3, FollowsOn
    <3> QED BY <3>1, <3>2
  <2> QED BY <1>0, <2>1, <2>2, TableFollows
<1>5. ASSUME ObserveOne PROVE TableStep
  <2>1. reg' = reg /\ mgr'.pc = "observe"
    BY <1>0, <1>5 DEF ObserveOne, ManagerFields
  <2> QED BY <1>0, <2>1, TableStays
<1>6. ASSUME ObserveEnd PROVE TableStep
  <2>1. reg' = reg /\ mgr'.pc = mgr.then /\ mgr.pc = "observe"
    BY <1>0, <1>6 DEF ObserveEnd, ManagerFields
  <2> QED BY <1>0, <2>1, TableStays DEF EndIInv, RunningInv
<1>7. ASSUME Idle PROVE TableStep
  <2>1. CASE disk.pid
    <3>1. reg' = reg /\ mgr'.pc = "turn"
      BY <1>0, <1>7, <2>1 DEF Idle, LoopEnd, ManagerFields
    <3> QED BY <1>0, <3>1, TableStays
  <2>2. CASE ~ disk.pid
    BY <1>0, <1>7, <2>2, EndTable DEF Idle, LoopEnd
  <2> QED BY <2>1, <2>2
<1>8. ASSUME Accept PROVE TableStep
  <2> DEFINE c == mgr.backlog[1]
             q == request_parse(cli[c].line)
             m == [mgr EXCEPT !.pc = "answer", !.backlog = Tail(@), !.client = <<c>>, !.then = "turn"]
  <2>1. PICK e \in Handled(m, q) : reg' = e.reg /\ mgr' = e.m
    BY <1>8 DEF Accept, Serve
  <2>2. c \in Clients
    BY <1>8, QueueMoves DEF Accept
  <2>3. q.tag \in NameTags => Written(q.arg[1]).n \in Names
    BY <2>2 DEF NamedInv, Speaks, LineOK
  <2>4. DOMAIN m = ManagerFields /\ m.pc = "answer"
    BY <1>0 DEF ManagerFields
  <2> HIDE DEF m, q, c
  <2>5. Follows(reg, reg', disk.masked)
    BY <1>0, <2>1, <2>3, HandledFollows
  <2>6. mgr'.pc \in {"answer", "wait"}
    BY <2>1, <2>4, HandledKeeps DEF HandledFrom
  <2>7. mgr'.pc = "wait" => mgr'.specs = load_service_specs(disk)
    BY <2>1, <2>4, HandledWaits
  <2> QED BY <1>0, <2>5, <2>6, <2>7, SpecsAre, TableFollows
<1>9. ASSUME open_event_subscription PROVE TableStep
  <2>1. reg' = reg /\ mgr'.pc = "turn"
    BY <1>0, <1>9 DEF open_event_subscription, Subscribe, ManagerFields
  <2> QED BY <1>0, <2>1, TableStays
<1>10. ASSUME Answer PROVE TableStep
  <2>1. CASE EndProcess("answer lost")
    BY <1>0, <2>1, EndTable
  <2>2. CASE reg' = reg /\ mgr'.pc \in {"observe", "turn"}
    BY <1>0, <2>2, TableStays
  <2>3. CASE reg' = Empty /\ mgr'.pc = "down"
    BY <1>0, <2>3, TableEmptied
  <2>4. \/ EndProcess("answer lost") \/ (reg' = reg /\ mgr'.pc \in {"observe", "turn"})
        \/ (reg' = Empty /\ mgr'.pc = "down")
    <3> DEFINE m == [mgr EXCEPT !.client = << >>, !.resp = Down]
    <3>1. [m EXCEPT !.pc = "observe", !.loud = TRUE, !.waits = 0].pc = "observe"
          /\ [m EXCEPT !.pc = "turn"].pc = "turn" /\ NoManager("pid file").pc = "down"
      BY <1>0, NoManagerIs DEF ManagerFields
    <3>2. \/ EndProcess("answer lost")
          \/ mgr' = [m EXCEPT !.pc = "observe", !.loud = TRUE, !.waits = 0] /\ reg' = reg
          \/ mgr' = [m EXCEPT !.pc = "turn"] /\ reg' = reg
          \/ mgr' = NoManager("pid file") /\ reg' = Empty
      BY <1>10 DEF Answer
    <3> HIDE DEF m
    <3> QED BY <3>1, <3>2
  <2> QED BY <2>1, <2>2, <2>3, <2>4
<1>11. ASSUME ReloadWait PROVE TableStep
  <2>1. PICK r \in poll(reg) : reg' = r
    BY <1>11 DEF ReloadWait
  <2>2. Follows(reg, reg', disk.masked)
    BY <1>0, <2>1, PollFollows
  <2>3. mgr.pc = "wait" /\ (mgr'.pc = "answer" \/ (mgr'.pc = "wait" /\ mgr'.specs = mgr.specs))
    BY <1>0, <1>11 DEF ReloadWait, ManagerFields
  <2> QED BY <1>0, <2>2, <2>3, TableFollows DEF TableInv
<1>12. ASSUME ReloadApply PROVE TableStep
  <2>1. PICK o \in Reconfigured : reg' = o.reg
    BY <1>12 DEF ReloadApply
  <2>2. mgr.pc = "wait" /\ mgr'.pc = "answer"
    BY <1>0, <1>12 DEF ReloadApply, ManagerFields
  <2>3. RegOK(reg') /\ UpStays(reg, reg') /\ Loaded(reg') \cap disk.masked \subseteq Loaded(reg) \cup DOMAIN mgr.specs
    BY <1>0, <2>1, <2>2, ReconfiguredIs DEF TableInv
  <2>4. RegOK(reg)'
    BY <1>0, <2>3 DEF RegOK, SvcOK, IdentitiesDistinct, AliasesLead
  <2> QED BY <2>2, <2>3, <2>4 DEF TableStep, TableInv
<1>13. ASSUME Drain PROVE TableStep
  <2>1. PICK r \in poll(reg) : reg' = r
    BY <1>13 DEF Drain
  <2>2. Follows(reg, reg', disk.masked) /\ mgr'.pc = "observe"
    BY <1>0, <1>13, <2>1, PollFollows DEF Drain, ManagerFields
  <2> QED BY <1>0, <2>2, TableFollows
<1>14. ASSUME Drained \/ Late PROVE TableStep
  BY <1>0, <1>14, EndTable DEF Drained, Late
<1> QED BY <1>1, <1>2, <1>3, <1>4, <1>5, <1>6, <1>7, <1>8, <1>9, <1>10, <1>11, <1>12, <1>13, <1>14 DEF Step

\* The users and the world leave the table to the manager: they may start
\* it, or kill it with its services.
LEMMA WorldTable ==
  ASSUME EndIInv, TableInv, Crash \/ Boot \/ Signal \/ Edit
  PROVE  TableStep
<1>0. mix' = mix /\ DOMAIN mgr = ManagerFields
  BY MixStays DEF Next, EndIInv, ShapeInv
<1>1. CASE Crash
  <2>1. reg' = Empty /\ mgr'.pc = "down"
    BY <1>1, NoManagerIs DEF Crash
  <2> QED BY <1>0, <2>1, TableEmptied
<1>2. CASE Boot
  <2>1. reg' = reg /\ mgr.pc = "down" /\ mgr'.pc = "load"
    BY <1>2, NoManagerIs DEF Boot, ManagerFields
  <2> QED BY <1>0, <2>1, TableStays DEF TableInv
<1>3. CASE Signal \/ Edit
  <2>1. reg' = reg /\ mgr'.pc = mgr.pc /\ mgr'.specs = mgr.specs
    BY <1>0, <1>3 DEF Signal, Edit, ManagerFields
  <2> QED BY <1>0, <2>1, TableStays DEF TableInv
<1> QED BY <1>1, <1>2, <1>3

LEMMA UserTable ==
  ASSUME EndIInv, TableInv, mix' = mix, NEW c \in Clients,
         (UserStep(c) /\ reg' = reg) \/ Launches(c) \/ Kills(c) \/ (Lifts(c) /\ reg' = reg)
  PROVE  TableStep
<1>0. DOMAIN mgr = ManagerFields
  BY DEF EndIInv, ShapeInv
<1>1. CASE UserStep(c) /\ reg' = reg
  <2>1. mgr'.pc = mgr.pc /\ mgr'.specs = mgr.specs
    BY <1>0, <1>1 DEF UserStep, Keeps, ManagerFields
  <2> QED BY <1>1, <2>1, TableStays DEF TableInv
<1>2. CASE Launches(c)
  <2>1. reg' = reg /\ mgr.pc = "down" /\ mgr'.pc = "load"
    BY <1>2, NoManagerIs DEF Launches, ManagerFields
  <2> QED BY <2>1, TableStays DEF TableInv
<1>3. CASE Kills(c)
  <2>1. reg' = Empty /\ mgr'.pc = "down"
    BY <1>3, NoManagerIs DEF Kills
  <2> QED BY <2>1, TableEmptied
<1>4. CASE Lifts(c) /\ reg' = reg
  BY <1>4, TableStays DEF Lifts, TableInv
<1> QED BY <1>1, <1>2, <1>3, <1>4

LEMMA UsersLeaveTable ==
  ASSUME NEW c \in Clients, run(c)
  PROVE  reg' = reg \/ Kills(c)
<1>1. start_daemon(c) => reg' = reg \/ Kills(c)
  BY DEF start_daemon, Same, Kills, Free, Now
<1> QED BY <1>1
     DEF run, Same, Single, service_request, start_service, stop_daemon, stop_service, enable_service,
         disable_service, mask_service, unmask_service, follow_events, daemon_status, isolate_service,
         service_status, restart_service, reset_failed_of, list_services, reload_services,
         reload_service_of, is_active, is_failed, transaction_status

LEMMA NextTable ==
  ASSUME EndIInv, NamedInv, MixInv, TableInv, [Next]_vars
  PROVE  TableStep
<1>0. mix' = mix /\ LimitsOK
  BY MixStays, Limits
<1>1. CASE Step \/ Crash \/ Boot \/ Signal \/ Edit
  BY <1>0, <1>1, StepTable, WorldTable
<1>2. ASSUME NEW c \in Clients, run(c) PROVE TableStep
  <2>1. UserStep(c) \/ Launches(c) \/ Kills(c) \/ Lifts(c)
    BY <1>2, CommandMoves DEF EndIInv
  <2>2. reg' = reg \/ Kills(c)
    BY <1>2, UsersLeaveTable
  <2>3. (UserStep(c) /\ reg' = reg) \/ Launches(c) \/ Kills(c) \/ (Lifts(c) /\ reg' = reg)
    BY <2>1, <2>2
  <2> QED BY <1>0, <2>3, UserTable
<1>3. ASSUME NEW c \in Clients, Begin(c) \/ Interrupt(c) PROVE TableStep
  <2>1. reg' = reg /\ mgr' = mgr
    BY <1>3 DEF Begin, Interrupt
  <2> QED BY <1>0, <2>1, TableStays DEF TableInv
<1>4. CASE UNCHANGED vars
  <2>1. reg' = reg /\ mgr' = mgr
    BY <1>4 DEF vars
  <2> QED BY <1>0, <2>1, TableStays DEF TableInv
<1> QED BY <1>1, <1>2, <1>3, <1>4 DEF Next

(***************************************************************************)
(* The records under the steps of the system.                              *)
(***************************************************************************)
TxsInv == TxsOK(mgr)

RecordsStep ==
  /\ TxsInv'
  /\ mgr.pc # "down" /\ mgr'.pc # "down" => Honest(mgr.txs, mgr'.txs)

LEMMA RecordsStay ==
  ASSUME TxsInv, mgr'.txs = mgr.txs, mgr'.next_tx = mgr.next_tx
  PROVE  RecordsStep
BY DEF TxsInv, RecordsStep, TxsOK, Honest

LEMMA RecordsBegin ==
  ASSUME mgr'.txs = << >>, mgr'.next_tx = 1, mgr.pc = "down" \/ mgr'.pc = "down"
  PROVE  RecordsStep
BY DEF TxsInv, RecordsStep, TxsOK

LEMMA NoManagerRecords ==
  ASSUME NEW why
  PROVE  NoManager(why).txs = << >> /\ NoManager(why).next_tx = 1 /\ NoManager(why).pc = "down"
BY DEF NoManager

LEMMA EndRecords ==
  ASSUME NEW why, EndProcess(why)
  PROVE  RecordsStep
<1> DEFINE n == NoManager(why)
<1>1. n.txs = << >> /\ n.next_tx = 1 /\ n.pc = "down" /\ DOMAIN n = ManagerFields
  BY NoManagerRecords, NoManagerIs
<1>2. mgr' = [n EXCEPT !.power = IF why = "stopped" THEN mgr.action ELSE "none"]
  BY DEF EndProcess
<1> HIDE DEF n
<1>3. mgr'.txs = << >> /\ mgr'.next_tx = 1 /\ mgr'.pc = "down"
  BY <1>1, <1>2 DEF ManagerFields
<1> QED BY <1>3, RecordsBegin

LEMMA StepRecords ==
  ASSUME EndIInv, TxsInv, Step
  PROVE  RecordsStep
<1> DEFINE Kept == mgr'.txs = mgr.txs /\ mgr'.next_tx = mgr.next_tx
<1>0. DOMAIN mgr = ManagerFields
  BY DEF EndIInv, ShapeInv
<1>1. ASSUME Load PROVE RecordsStep
  <2>1. EndProcess("refused") \/ Kept
    BY <1>0, <1>1 DEF Load, ManagerFields
  <2> QED BY <2>1, EndRecords, RecordsStay
<1>2. Bring => Kept
  BY <1>0 DEF Bring, ManagerFields
<1>3. bind_listener => Kept
  BY <1>0 DEF bind_listener, ManagerFields
<1>4. ASSUME Turn PROVE RecordsStep
  <2>1. Kept \/ \E r : mgr'.txs = refresh_transactions(mgr.txs, r) /\ mgr'.next_tx = mgr.next_tx
    <3>1. CASE mgr.signal
      BY <1>0, <1>4, <3>1 DEF Turn, ManagerFields
    <3>2. CASE ~ mgr.signal
      <4>1. PICK r \in poll(reg), a \in mix.actions \cup {"none"} :
              \/ mgr' = [mgr EXCEPT !.pc = "observe", !.loud = TRUE, !.then = "drain", !.waits = 0,
                                    !.action = IF mix.pid1 /\ a # "exit" THEN a ELSE "none"]
              \/ mgr' = [mgr EXCEPT !.pc = "observe", !.loud = TRUE, !.then = "accept",
                                    !.txs = refresh_transactions(@, r)]
        BY <1>4, <3>2 DEF Turn
      <4>2. CASE mgr' = [mgr EXCEPT !.pc = "observe", !.loud = TRUE, !.then = "drain", !.waits = 0,
                                    !.action = IF mix.pid1 /\ a # "exit" THEN a ELSE "none"]
        BY <1>0, <4>2 DEF ManagerFields
      <4>3. CASE mgr' = [mgr EXCEPT !.pc = "observe", !.loud = TRUE, !.then = "accept",
                                    !.txs = refresh_transactions(@, r)]
        BY <1>0, <4>3 DEF ManagerFields
      <4> QED BY <4>1, <4>2, <4>3
    <3> QED BY <3>1, <3>2
  <2> HIDE DEF Kept
  <2>2. ASSUME NEW r, mgr'.txs = refresh_transactions(mgr.txs, r), mgr'.next_tx = mgr.next_tx
        PROVE  RecordsStep
    <3>1. TxsStep(mgr, mgr')
      BY <2>2, RefreshIsHonest DEF TxsInv
    <3> QED BY <3>1 DEF TxsStep, TxsInv, RecordsStep, TxsOK
  <2> QED BY <2>1, <2>2, RecordsStay DEF Kept
<1>5. ObserveOne => Kept
  BY <1>0 DEF ObserveOne, ManagerFields
<1>6. ObserveEnd => Kept
  BY <1>0 DEF ObserveEnd, ManagerFields
<1>7. ASSUME Idle PROVE RecordsStep
  <2>1. EndProcess("pid file") \/ Kept
    BY <1>0, <1>7 DEF Idle, LoopEnd, ManagerFields
  <2> QED BY <2>1, EndRecords, RecordsStay
<1>8. ASSUME Accept PROVE RecordsStep
  <2> DEFINE c == mgr.backlog[1]
             q == request_parse(cli[c].line)
             m == [mgr EXCEPT !.pc = "answer", !.backlog = Tail(@), !.client = <<c>>, !.then = "turn"]
  <2>1. PICK e \in Handled(m, q) : mgr' = e.m
    BY <1>8 DEF Accept, Serve
  <2>2. DOMAIN m = ManagerFields /\ m.txs = mgr.txs /\ m.next_tx = mgr.next_tx
    BY <1>0 DEF ManagerFields
  <2> HIDE DEF m, q
  <2>3. TxsOK(m)
    BY <2>2 DEF TxsInv, TxsOK
  <2>4. TxsStep(m, mgr')
    BY <2>1, <2>2, <2>3, HandledIsHonest
  <2> QED BY <2>2, <2>4 DEF TxsStep, TxsInv, RecordsStep, TxsOK
<1>9. open_event_subscription => Kept
  BY <1>0 DEF open_event_subscription, Subscribe, ManagerFields
<1>10. ASSUME Answer PROVE RecordsStep
  <2> DEFINE m == [mgr EXCEPT !.client = << >>, !.resp = Down]
             drain == [m EXCEPT !.pc = "observe", !.loud = TRUE, !.waits = 0]
             turn == [m EXCEPT !.pc = "turn"]
  <2>1. /\ drain.txs = mgr.txs /\ drain.next_tx = mgr.next_tx
        /\ turn.txs = mgr.txs /\ turn.next_tx = mgr.next_tx
    BY <1>0 DEF ManagerFields
  <2>2. EndProcess("answer lost") \/ mgr' = drain \/ mgr' = turn \/ mgr' = NoManager("pid file")
    BY <1>10 DEF Answer
  <2> HIDE DEF drain, turn
  <2> QED BY <2>1, <2>2, EndRecords, RecordsStay, NoManagerRecords, RecordsBegin
<1>11. ReloadWait => Kept
  BY <1>0 DEF ReloadWait, ManagerFields
<1>12. ReloadApply => Kept
  BY <1>0 DEF ReloadApply, ManagerFields
<1>13. Drain => Kept
  BY <1>0 DEF Drain, ManagerFields
<1>14. Drained \/ Late => RecordsStep
  BY EndRecords DEF Drained, Late
<1> QED BY <1>1, <1>2, <1>3, <1>4, <1>5, <1>6, <1>7, <1>8, <1>9, <1>10, <1>11, <1>12, <1>13, <1>14, RecordsStay DEF Step

LEMMA NextRecords ==
  ASSUME EndIInv, TxsInv, [Next]_vars
  PROVE  RecordsStep
<1>0. DOMAIN mgr = ManagerFields
  BY DEF EndIInv, ShapeInv
<1> DEFINE up == [NoManager("none") EXCEPT !.pc = "load"]
<1>1. up.txs = << >> /\ up.next_tx = 1
  BY NoManagerRecords, NoManagerIs DEF ManagerFields
<1> HIDE DEF up
<1>2. CASE Step
  BY <1>2, StepRecords
<1>3. CASE Crash
  BY <1>3, NoManagerRecords, RecordsBegin DEF Crash
<1>4. CASE Boot
  BY <1>1, <1>4, RecordsBegin DEF Boot, up
<1>5. CASE Signal \/ Edit
  BY <1>0, <1>5, RecordsStay DEF Signal, Edit, ManagerFields
<1>6. ASSUME NEW c \in Clients, run(c) PROVE RecordsStep
  <2>1. CASE UserStep(c)
    <3>1. mgr'.txs = mgr.txs /\ mgr'.next_tx = mgr.next_tx
      BY <1>0, <2>1 DEF UserStep, Keeps, ManagerFields
    <3> QED BY <3>1, RecordsStay
  <2>2. CASE Launches(c)
    BY <1>1, <2>2, RecordsBegin DEF Launches, up
  <2>3. CASE Kills(c)
    BY <2>3, NoManagerRecords, RecordsBegin DEF Kills
  <2>4. CASE Lifts(c)
    BY <2>4, RecordsStay DEF Lifts
  <2> QED BY <1>6, <2>1, <2>2, <2>3, <2>4, CommandMoves DEF EndIInv
<1>7. ASSUME NEW c \in Clients, Begin(c) \/ Interrupt(c) PROVE RecordsStep
  BY <1>7, RecordsStay DEF Begin, Interrupt
<1>8. CASE UNCHANGED vars
  BY <1>8, RecordsStay DEF vars
<1> QED BY <1>2, <1>3, <1>4, <1>5, <1>6, <1>7, <1>8 DEF Next

(***************************************************************************)
(* All together.                                                           *)
(***************************************************************************)
DaemonIInv == EndIInv /\ MixInv /\ NamedInv /\ TableInv /\ TxsInv

LEMMA DaemonBegins == Init => DaemonIInv
<1> SUFFICES ASSUME Init PROVE DaemonIInv
  OBVIOUS
<1>1. mgr = NoManager("none") /\ cli = [c \in Clients |-> NoUser] /\ reg = Empty
  BY DEF Init
<1>2. NamedInv
  BY <1>1, SilentSpeaks DEF NamedInv
<1>3. TableInv
  BY <1>1, EmptyIsFine, NoManagerRecords DEF TableInv
<1>4. TxsInv
  BY <1>1, NoManagerRecords DEF TxsInv, TxsOK
<1> QED BY <1>2, <1>3, <1>4, EndBegins DEF DaemonIInv

LEMMA DaemonStep == DaemonIInv /\ [Next]_vars => DaemonIInv'
BY EndStep, NamedStep, NextTable, NextRecords DEF DaemonIInv, TableStep, RecordsStep

\* Besides what EndInductive says: the requests name services, the table of
\* services is sound, with identities that are distinct and aliases that
\* lead somewhere, and the transactions are numbered upwards.
THEOREM DaemonInductive == Spec => []DaemonIInv
<1> QED BY DaemonBegins, DaemonStep, PTL DEF Spec

\* Transactions say the truth to the end, and what is up keeps its
\* descriptor and identity, whatever is loaded on demand or reloaded
\* (prune_transactions, ensure_service_loaded, reload).
THEOREM RecordsAreKept == Spec => RecordsKept
<1>1. DaemonIInv /\ [Next]_vars =>
        /\ [mgr.pc # "down" /\ mgr'.pc # "down" =>
              \A id \in DOMAIN mgr.txs :
                IF id \in DOMAIN mgr'.txs
                THEN /\ mgr'.txs[id].op = mgr.txs[id].op /\ mgr'.txs[id].name = mgr.txs[id].name
                     /\ mgr.txs[id].state # "pending" => mgr'.txs[id] = mgr.txs[id]
                ELSE mgr.txs[id].state # "pending"]_vars
        /\ [mgr'.pc # "down" =>
              \A n \in Loaded(reg) :
                ~ Stopped(reg.services[n]) => n \in Loaded(reg') /\ SameSpec(reg.services[n], reg'.services[n])]_vars
  BY NextTable, NextRecords DEF DaemonIInv, TableStep, RecordsStep, Honest, UpStays
<1>2. Spec => TransactionsAreHonest /\ RunningKeepsItsSpec
  BY <1>1, DaemonInductive, PTL DEF Spec, TransactionsAreHonest, RunningKeepsItsSpec
<1> QED BY <1>2 DEF RecordsKept

-----------------------------------------------------------------------------
(***************************************************************************)
(* What the answers say: nobody reads RELOADED that was not said.          *)
(***************************************************************************)
RespOK(r) == response_parse(response_as_line(r)).tag = "RELOADED" => r.tag = "RELOADED"

\* An answer that says something else.
Other(r) == r.tag # "RELOADED" /\ RespOK(r)

LEMMA ParsedTag ==
  ASSUME NEW words, words[1] # "OK" \/ words[2] # "RELOADED"
  PROVE  response_parse(words).tag # "RELOADED"
<1>1. \A tag, values : Reply(tag, values).tag = tag
  BY DEF Reply
<1>2. Error(words[2]).tag = "ERR" /\ Broken.tag = "broken"
  BY DEF Error, Broken, Reply
<1> QED BY <1>1, <1>2 DEF response_parse

LEMMA ErrorIsOther == \A message : Other(Error(message))
<1> SUFFICES ASSUME NEW message PROVE Other(Error(message))
  OBVIOUS
<1>1. Error(message).tag = "ERR" /\ Error(message).values = <<message>>
  BY DEF Error, Reply
<1>2. response_as_line(Error(message))[1] = "ERR"
  <2>1. (<<"ERR">> \o <<message>>)[1] = "ERR"
    OBVIOUS
  <2> QED BY <1>1, <2>1 DEF response_as_line
<1> QED BY <1>1, <1>2, ParsedTag DEF Other, RespOK

LEMMA ReplyIsOther ==
  ASSUME NEW tag, tag \notin {"ERR", "RELOADED"}, NEW T, NEW values \in Seq(T)
  PROVE  Other(Reply(tag, values))
<1> DEFINE r == Reply(tag, values)
<1>1. r.tag = tag /\ r.values = values
  BY DEF Reply
<1> HIDE DEF r
<1>2. response_as_line(r)[2] # "RELOADED"
  <2>1. CASE tag \in Bare
    BY <1>1, <2>1 DEF response_as_line
  <2>2. CASE tag \notin Bare
    <3> DEFINE V == {<<Fields[tag][i], values[i]>> : i \in 1 .. Len(values)}
               rest == [i \in 1 .. Len(values) |-> <<Fields[tag][i], values[i]>>]
    <3>1. Len(values) \in Nat
      OBVIOUS
    <3>2. rest \in Seq(V)
      BY <3>1
    <3> HIDE DEF rest, V
    <3>3. (<<"OK", tag>> \o rest)[2] = tag
      <4>1. <<"OK", tag>> \in Seq({"OK", tag}) /\ Len(<<"OK", tag>>) = 2
        OBVIOUS
      <4> QED BY <3>2, <4>1
    <3> QED BY <1>1, <2>2, <3>3 DEF response_as_line, rest
  <2> QED BY <2>1, <2>2
<1> QED BY <1>1, <1>2, ParsedTag DEF Other, RespOK, r

LEMMA RepliesAreOther ==
  /\ \A tag : tag \notin {"ERR", "RELOADED"} =>
       /\ Other(Reply(tag, << >>))
       /\ \A x : Other(Reply(tag, <<x>>))
       /\ \A x, y : Other(Reply(tag, <<x, y>>))
       /\ \A x, y, z : Other(Reply(tag, <<x, y, z>>))
       /\ \A x, y, z, w : Other(Reply(tag, <<x, y, z, w>>))
<1> SUFFICES ASSUME NEW tag, tag \notin {"ERR", "RELOADED"}
             PROVE  /\ Other(Reply(tag, << >>))
                    /\ \A x : Other(Reply(tag, <<x>>))
                    /\ \A x, y : Other(Reply(tag, <<x, y>>))
                    /\ \A x, y, z : Other(Reply(tag, <<x, y, z>>))
                    /\ \A x, y, z, w : Other(Reply(tag, <<x, y, z, w>>))
  OBVIOUS
<1>1. << >> \in Seq({})
  OBVIOUS
<1>2. \A x : <<x>> \in Seq({x})
  OBVIOUS
<1>3. \A x, y : <<x, y>> \in Seq({x, y})
  OBVIOUS
<1>4. \A x, y, z : <<x, y, z>> \in Seq({x, y, z})
  OBVIOUS
<1>5. \A x, y, z, w : <<x, y, z, w>> \in Seq({x, y, z, w})
  OBVIOUS
<1> QED BY <1>1, <1>2, <1>3, <1>4, <1>5, ReplyIsOther

\* A request that does not wait is answered by something else.
LEMMA HandledSays ==
  ASSUME NEW m, DOMAIN m = ManagerFields, NEW q, NEW e \in Handled(m, q)
  PROVE  e.m.pc = "wait" \/ Other(e.m.resp)
<1>1. ASSUME NEW r, NEW resp, Other(resp) PROVE Other(Effect(r, Answered(m, resp)).m.resp)
  <2>1. Answered(m, resp).resp = resp
    BY DEF Answered, ManagerFields
  <2> QED BY <1>1, <2>1, EffectIs
<1>2. \A r, message : Other(Effect(r, Answered(m, Error(message))).m.resp)
  BY <1>1, ErrorIsOther
<1>3. \A r, tag : tag \notin {"ERR", "RELOADED"} =>
        /\ Other(Effect(r, Answered(m, Reply(tag, << >>))).m.resp)
        /\ \A x : Other(Effect(r, Answered(m, Reply(tag, <<x>>))).m.resp)
        /\ \A x, y : Other(Effect(r, Answered(m, Reply(tag, <<x, y>>))).m.resp)
        /\ \A x, y, z : Other(Effect(r, Answered(m, Reply(tag, <<x, y, z>>))).m.resp)
        /\ \A x, y, z, w : Other(Effect(r, Answered(m, Reply(tag, <<x, y, z, w>>))).m.resp)
  BY <1>1, RepliesAreOther
<1>4. ASSUME NEW r, NEW op, NEW n PROVE Other(Effect(r, accepted_transaction(m, op, n)).m.resp)
  <2>1. accepted_transaction(m, op, n).resp = Reply("ACCEPTED", <<ToString(m.next_tx), op, n>>)
    BY DEF accepted_transaction, ManagerFields
  <2>2. Other(Reply("ACCEPTED", <<ToString(m.next_tx), op, n>>))
    BY RepliesAreOther
  <2> QED BY <2>1, <2>2, EffectIs
<1>5. ASSUME NEW s, NEW f \in ServiceStatus(m, s) PROVE Other(f.m.resp)
  <2> DEFINE found == ensure_service_loaded(reg, disk, Written(s))
             st == found.reg.services[found.name].st
             gen == ToString(found.reg.services[found.name].gen)
  <2>1. f = Effect(found.reg, Answered(m, IF found.ok THEN Reply("SERVICE", <<found.name, st, gen>>)
                                          ELSE Error("not loaded")))
    BY <1>5 DEF ServiceStatus
  <2> HIDE DEF found, st, gen
  <2>2. Other(Effect(found.reg, Answered(m, Reply("SERVICE", <<found.name, st, gen>>))).m.resp)
    BY <1>3
  <2>3. Other(Effect(found.reg, Answered(m, Error("not loaded"))).m.resp)
    BY <1>2
  <2> QED BY <2>1, <2>2, <2>3
<1>6. ASSUME NEW arg, NEW f \in ResetFailed(m, arg) PROVE Other(f.m.resp)
  <2>1. \/ f = Effect(reg, Answered(m, Error("unknown")))
        \/ \E who : f = Effect(reset_failed(reg, who), Answered(m, Reply("RESET_FAILED", << >>)))
    BY <1>6 DEF ResetFailed
  <2>2. ASSUME NEW who, f = Effect(reset_failed(reg, who), Answered(m, Reply("RESET_FAILED", << >>)))
        PROVE  Other(f.m.resp)
    <3> DEFINE r == reset_failed(reg, who)
    <3> HIDE DEF r
    <3>1. Other(Effect(r, Answered(m, Reply("RESET_FAILED", << >>))).m.resp)
      BY <1>3
    <3> QED BY <2>2, <3>1 DEF r
  <2>3. Other(Effect(reg, Answered(m, Error("unknown"))).m.resp)
    BY <1>2
  <2> QED BY <2>1, <2>2, <2>3
<1>7. ASSUME NEW action, NEW f \in Shutdown(m, action) PROVE Other(f.m.resp)
  <2> DEFINE x == [m EXCEPT !.resp = Reply("STOPPING", << >>), !.then = "drain",
                            !.action = IF action = "stop" THEN "none" ELSE action]
  <2>1. x.resp = Reply("STOPPING", << >>)
    BY DEF ManagerFields
  <2>2. f = Effect(reg, Answered(m, Error("not pid 1"))) \/ f = Effect(stop_all(reg), x)
    BY <1>7 DEF Shutdown
  <2> HIDE DEF x
  <2>3. Effect(stop_all(reg), x).m = x
    BY EffectIs
  <2>4. Other(Reply("STOPPING", << >>)) /\ Other(Effect(reg, Answered(m, Error("not pid 1"))).m.resp)
    BY <1>2, RepliesAreOther
  <2> QED BY <2>1, <2>2, <2>3, <2>4
<1>8. ASSUME NEW f \in BeginReload(m) PROVE f.m.pc = "wait" \/ Other(f.m.resp)
  <2> DEFINE specs == load_service_specs(disk)
             stopping == {n \in Loaded(reg) : Changed(reg, specs, n) /\ ~ Stopped(reg.services[n])}
             r == [Stopping(reg, stopping) EXCEPT !.jobs = @ \ stopping]
             x == [m EXCEPT !.pc = "wait", !.specs = specs, !.stopping = stopping, !.waits = 0]
  <2>1. x.pc = "wait"
    BY DEF ManagerFields
  <2>2. f = Effect(reg, Answered(m, Error("not readable"))) \/ f = Effect(r, x)
    BY <1>8 DEF BeginReload
  <2> HIDE DEF x, r
  <2>3. Effect(r, x).m = x /\ Other(Effect(reg, Answered(m, Error("not readable"))).m.resp)
    BY <1>2, EffectIs
  <2> QED BY <2>1, <2>2, <2>3
<1>9. ASSUME NEW s, NEW op, NEW f \in Operation(m, s, op) PROVE Other(f.m.resp)
  <2>1. \/ \E r, message : f = Effect(r, Answered(m, Error(message)))
        \/ \E r, n : f = Effect(r, accepted_transaction(m, op, n))
    BY <1>9 DEF Operation
  <2>2. ASSUME NEW r, NEW message, f = Effect(r, Answered(m, Error(message))) PROVE Other(f.m.resp)
    BY <1>2, <2>2
  <2>3. ASSUME NEW r, NEW n, f = Effect(r, accepted_transaction(m, op, n)) PROVE Other(f.m.resp)
    BY <1>4, <2>3
  <2> QED BY <2>1, <2>2, <2>3
<1>10. ASSUME NEW id PROVE Other(Effect(reg, Answered(m, transaction_response(m.txs, id))).m.resp)
  <2>1. Other(transaction_response(m.txs, id))
    BY RepliesAreOther DEF transaction_response
  <2> QED BY <1>1, <2>1
<1> QED BY <1>2, <1>3, <1>5, <1>6, <1>7, <1>8, <1>9, <1>10
        DEF Handled, StartService, StopService, RestartService, IsolateService, ReloadService

-----------------------------------------------------------------------------
(***************************************************************************)
(* Masking, from the mark to the answer of the reload.                     *)
(***************************************************************************)
LateAt == {"marked", "probe again", "reloaded"}

\* A command that has marked its name, which nobody has unmasked since; and
\* one that was told of the reload, and will report success.
Holds(k) == k.cmd = "mask_service" /\ k.held /\ k.at \in LateAt
Told(k) == Holds(k) /\ k.at = "reloaded" /\ k.ans.tag = "RELOADED"

(***************************************************************************)
(* The four ways in which a command changes what is known of the masks.    *)
(***************************************************************************)
Plainly(c) ==
  /\ sealed' = sealed /\ ~ Told(cli'[c])
  /\ Holds(cli'[c]) => Holds(cli[c]) /\ cli'[c].arg = cli[c].arg
  /\ \/ disk' = disk
     \/ OneName(cli[c].cmd) /\ disk' \in {enable(disk, Name(c)), disable(disk, Name(c))}

Marks(c) ==
  /\ OneName(cli[c].cmd) /\ disk' = mask(disk, Name(c)) /\ sealed' = sealed
  /\ ~ Told(cli'[c]) /\ cli'[c].arg = cli[c].arg

Seals(c) ==
  /\ disk' = disk /\ cli'[c] = NoUser
  /\ sealed' = sealed \/ (Told(cli[c]) /\ sealed' = sealed \cup {Name(c).n})

Clears(c) ==
  /\ OneName(cli[c].cmd) /\ disk' = unmask(disk, Name(c)) /\ sealed' = sealed \ {Name(c).n}
  /\ ~ Holds(cli'[c])
  /\ \A d \in Clients : Holds(cli'[d]) => cli'[d].arg = cli[d].arg /\ Name(d).n # Name(c).n

LEMMA NoUserHoldsNothing == ~ Holds(NoUser)
BY DEF Holds, NoUser

LEMMA AskHolds ==
  ASSUME ShapeInv, NEW c \in Clients, NEW k, DOMAIN k = UserFields,
         NEW tag, NEW arg, NEW at, Ask(c, k, tag, arg, at)
  PROVE  /\ ~ Told(cli'[c])
         /\ k.cmd # "mask_service" \/ at \notin LateAt => ~ Holds(cli'[c])
         /\ cli'[c].cmd = k.cmd /\ cli'[c].arg = k.arg /\ cli'[c].held = k.held
<1> DEFINE asked == [k EXCEPT !.conn = "queued", !.at = at, !.ans = Down,
                              !.line = request_as_line(Request(tag, arg))]
           told == [k EXCEPT !.conn = "answered", !.at = at, !.ans = Down]
<1>1. /\ asked.cmd = k.cmd /\ asked.arg = k.arg /\ asked.held = k.held /\ asked.at = at /\ asked.ans = Down
      /\ told.cmd = k.cmd /\ told.arg = k.arg /\ told.held = k.held /\ told.at = at /\ told.ans = Down
  BY DEF UserFields
<1>2. cli' = [cli EXCEPT ![c] = asked] \/ cli' = [cli EXCEPT ![c] = told]
  BY DEF Ask
<1> HIDE DEF asked, told
<1>3. cli'[c] = asked \/ cli'[c] = told
  BY <1>2 DEF ShapeInv
<1>4. Down.tag = "down"
  BY DEF Down, Reply
<1> QED BY <1>1, <1>3, <1>4 DEF Told, Holds

LEMMA SingleIsPlain ==
  ASSUME ShapeInv, NEW c \in Clients, NEW cmd, cmd # "mask_service", NEW tag, Single(c, cmd, tag)
  PROVE  Plainly(c)
<1>1. DOMAIN cli[c] = UserFields
  BY DEF ShapeInv
<1>2. cli[c].cmd = cmd /\ sealed' = sealed /\ disk' = disk
  BY DEF Single, Now, Same
<1>3. Return(c) => ~ Holds(cli'[c])
  BY NoUserHoldsNothing DEF Return, ShapeInv
<1>4. Ask(c, cli[c], tag, cli[c].arg, "asked") => ~ Holds(cli'[c])
  BY <1>1, <1>2, AskHolds
<1>5. ~ Holds(cli'[c])
  BY <1>3, <1>4 DEF Single
<1> QED BY <1>2, <1>5 DEF Plainly, Told

LEMMA CommandMasks ==
  ASSUME ShapeInv, NEW c \in Clients, run(c)
  PROVE  Plainly(c) \/ Marks(c) \/ Seals(c) \/ Clears(c)
<1>0. DOMAIN cli[c] = UserFields
  BY DEF ShapeInv
<1>1. Return(c) => ~ Holds(cli'[c])
  BY NoUserHoldsNothing DEF Return, ShapeInv
<1>2. \A tag, arg, at : Ask(c, cli[c], tag, arg, at) =>
        /\ ~ Told(cli'[c])
        /\ cli[c].cmd # "mask_service" \/ at \notin LateAt => ~ Holds(cli'[c])
        /\ cli'[c].cmd = cli[c].cmd /\ cli'[c].arg = cli[c].arg /\ cli'[c].held = cli[c].held
  BY <1>0, AskHolds
<1>3. \A tag, arg, at : Ask(c, [cli[c] EXCEPT !.tries = @ + 1], tag, arg, at) =>
        (cli[c].cmd # "mask_service" => ~ Holds(cli'[c]))
  <2> DEFINE k == [cli[c] EXCEPT !.tries = @ + 1]
  <2>1. DOMAIN k = UserFields /\ k.cmd = cli[c].cmd
    BY <1>0 DEF UserFields
  <2> HIDE DEF k
  <2> QED BY <2>1, AskHolds DEF k
<1>4. \A at : current_status(c, at) =>
        /\ ~ Told(cli'[c])
        /\ cli[c].cmd # "mask_service" \/ at \notin LateAt => ~ Holds(cli'[c])
        /\ cli'[c].cmd = cli[c].cmd /\ cli'[c].arg = cli[c].arg /\ cli'[c].held = cli[c].held
  BY <1>2 DEF current_status
<1>5. \A at : Goto(c, at) => (at \notin LateAt \/ cli[c].cmd # "mask_service" => ~ Holds(cli'[c]))
  BY <1>0 DEF Goto, ShapeInv, UserFields, Holds
<1>6. \A cmd : Become(c, cmd) => ~ Holds(cli'[c])
  BY <1>0 DEF Become, ShapeInv, UserFields, Holds, LateAt
<1>7. \A cmd, at : at \notin LateAt /\ ReturnTo(c, cmd, at) => ~ Holds(cli'[c])
  BY <1>0 DEF ReturnTo, ShapeInv, UserFields, Holds
<1>8. \A ret : cli' = [cli EXCEPT ![c] = [cli[c] EXCEPT !.cmd = "stop_service", !.at = "begin",
                                                       !.conn = "none", !.ret = ret]]
               => ~ Holds(cli'[c])
  BY <1>0 DEF ShapeInv, UserFields, Holds, LateAt
<1>9. ~ Holds(cli'[c]) /\ disk' = disk /\ sealed' = sealed => Plainly(c)
  BY DEF Plainly, Told
<1>10. start_service(c) => Plainly(c)
  <2>1. start_service(c) => cli[c].cmd = "start_service" /\ disk' = disk /\ sealed' = sealed
    BY DEF start_service, Now, Same
  <2> QED BY <1>1, <1>2, <1>4, <1>5, <1>6, <1>9, <2>1 DEF start_service
<1>11. stop_daemon(c) => Plainly(c)
  <2>1. stop_daemon(c) => cli[c].cmd = "stop_daemon" /\ disk' = disk /\ sealed' = sealed
    BY DEF stop_daemon, Now, Same
  <2> QED BY <1>1, <1>2, <1>3, <1>5, <1>9, <2>1 DEF stop_daemon
<1>12. stop_service(c) => Plainly(c)
  <2>1. stop_service(c) => cli[c].cmd = "stop_service" /\ disk' = disk /\ sealed' = sealed
    BY DEF stop_service, Now, Same
  <2>2. StopReturns(c) => ~ Holds(cli'[c])
    BY <1>1, <1>7 DEF StopReturns, LateAt
  <2> QED BY <1>1, <1>2, <1>3, <1>5, <1>9, <2>1, <2>2 DEF stop_service
<1>13. start_daemon(c) => Plainly(c)
  <2>1. start_daemon(c) => cli[c].cmd = "start_daemon" /\ disk' = disk /\ sealed' = sealed
    BY DEF start_daemon, Now, Same
  <2> DEFINE Up == IF Got(c, "STATUS") /\ cli[c].arg # << >>
                   THEN ReturnTo(c, "start_service", "go") ELSE Return(c)
  <2>2. Up => ~ Holds(cli'[c])
    BY <1>1, <1>7 DEF LateAt
  <2>3. cli' = [cli EXCEPT ![c].at = "ready", ![c].conn = "none"] => ~ Holds(cli'[c])
    BY <1>0 DEF ShapeInv, UserFields, Holds, LateAt
  <2>4. cli' = [Disconnected EXCEPT ![c] = NoUser] => ~ Holds(cli'[c])
    BY NoUserHoldsNothing DEF Disconnected
  <2> HIDE DEF Up
  <2>5. start_daemon(c) =>
        \/ current_status(c, "probe") \/ Up \/ Return(c)
        \/ cli' = [cli EXCEPT ![c].at = "ready", ![c].conn = "none"]
        \/ Ask(c, [cli[c] EXCEPT !.tries = @ + 1], "STATUS", << >>, "polled")
        \/ cli' = [Disconnected EXCEPT ![c] = NoUser] \/ Goto(c, "ready")
    BY DEF start_daemon, Up
  <2> QED BY <1>1, <1>3, <1>4, <1>5, <1>9, <2>1, <2>2, <2>3, <2>4, <2>5
<1>14. enable_service(c) => Plainly(c)
  <2>1. enable_service(c) => /\ cli[c].cmd = "enable_service" /\ sealed' = sealed
                             /\ disk' = disk \/ disk' = enable(disk, Name(c))
    BY DEF enable_service, Now, Same
  <2>2. enable_service(c) => ~ Holds(cli'[c])
    BY <1>1, <1>2, <1>4, <1>6, <2>1 DEF enable_service
  <2> QED BY <2>1, <2>2 DEF Plainly, Told, OneName
<1>15. disable_service(c) => Plainly(c)
  <2>1. disable_service(c) => /\ cli[c].cmd = "disable_service" /\ sealed' = sealed
                              /\ disk' = disk \/ disk' = disable(disk, Name(c))
    BY DEF disable_service, Now, Same
  <2>2. disable_service(c) => ~ Holds(cli'[c])
    BY <1>1, <1>2, <1>4, <1>5, <1>8, <2>1 DEF disable_service
  <2> QED BY <2>1, <2>2 DEF Plainly, Told, OneName
<1>16. follow_events(c) => Plainly(c)
  <2>1. follow_events(c) => cli[c].cmd = "follow_events" /\ disk' = disk /\ sealed' = sealed
    BY DEF follow_events, Now, Same
  <2> QED BY <1>1, <1>2, <1>9, <2>1 DEF follow_events
<1>17. ASSUME mask_service(c) PROVE Plainly(c) \/ Marks(c) \/ Seals(c)
  <2> DEFINE Holding == Holds(cli'[c]) => Holds(cli[c]) /\ cli'[c].arg = cli[c].arg
  <2>1. cli[c].cmd = "mask_service"
    BY <1>17 DEF mask_service, Now
  <2>2. disk' = disk /\ sealed' = sealed /\ ~ Told(cli'[c]) /\ Holding => Plainly(c)
    BY DEF Plainly
  <2>3. ~ Holds(cli'[c]) => ~ Told(cli'[c]) /\ Holding
    BY DEF Told
  <2>4. CASE cli[c].at \in {"begin", "probe", "looked"}
    <3>1. disk' = disk /\ sealed' = sealed
      BY <1>17, <2>4 DEF mask_service, Now, Same
    <3>2. ~ Holds(cli'[c])
      <4>1. \/ current_status(c, "probe") \/ Ask(c, cli[c], "SERVICE_STATUS", cli[c].arg, "looked")
            \/ Goto(c, "mark") \/ Return(c)
            \/ cli' = [cli EXCEPT ![c] = [cli[c] EXCEPT !.cmd = "stop_service", !.at = "begin",
                                                        !.conn = "none", !.ret = "mask_service"]]
        BY <1>17, <2>4 DEF mask_service, Now
      <4>2. "probe" \notin LateAt /\ "looked" \notin LateAt /\ "mark" \notin LateAt
        BY DEF LateAt
      <4> QED BY <1>1, <1>2, <1>4, <1>5, <1>8, <4>1, <4>2
    <3> QED BY <2>2, <2>3, <3>1, <3>2
  <2>5. CASE cli[c].at = "mark"
    <3> DEFINE marked == [cli[c] EXCEPT !.at = "marked", !.conn = "none", !.held = TRUE]
    <3>1. marked.at = "marked" /\ marked.arg = cli[c].arg
      BY <1>0 DEF UserFields
    <3>2. disk' = mask(disk, Name(c)) /\ sealed' = sealed /\ cli' = [cli EXCEPT ![c] = marked]
      BY <1>17, <2>5 DEF mask_service, Now
    <3> HIDE DEF marked
    <3>3. cli'[c] = marked
      BY <3>2 DEF ShapeInv
    <3> QED BY <2>1, <3>1, <3>2, <3>3 DEF Marks, Told, OneName
  <2>6. CASE cli[c].at \in {"marked", "probe again"}
    <3>1. disk' = disk /\ sealed' = sealed
      BY <1>17, <2>6 DEF mask_service, Now, Same
    <3>2. Return(c) \/ (\E at : current_status(c, at)) \/ \E tag, arg, at : Ask(c, cli[c], tag, arg, at)
      BY <1>17, <2>6 DEF mask_service, Now
    <3>3. ~ Told(cli'[c]) /\ Holding
      <4>1. cli'[c].cmd = cli[c].cmd /\ cli'[c].arg = cli[c].arg /\ cli'[c].held = cli[c].held
            => Holding
        BY <2>6 DEF Holds, LateAt
      <4>2. CASE Return(c)
        BY <1>1, <2>3, <4>2
      <4>3. CASE \E at : current_status(c, at)
        BY <1>4, <4>1, <4>3
      <4>4. CASE \E tag, arg, at : Ask(c, cli[c], tag, arg, at)
        BY <1>2, <4>1, <4>4
      <4> QED BY <3>2, <4>2, <4>3, <4>4
    <3> QED BY <2>2, <3>1, <3>3
  <2>7. CASE cli[c].at = "reloaded"
    <3>1. /\ disk' = disk /\ Return(c)
          /\ sealed' = IF Got(c, "RELOADED") /\ cli[c].held THEN sealed \cup {Name(c).n} ELSE sealed
      BY <1>17, <2>7 DEF mask_service, Now
    <3>2. cli'[c] = NoUser
      BY <3>1 DEF Return, ShapeInv
    <3> QED BY <2>1, <2>7, <3>1, <3>2 DEF Seals, Told, Holds, LateAt, Got
  <2>8. cli[c].at \in {"begin", "probe", "looked", "mark", "marked", "probe again", "reloaded"}
    BY <1>17 DEF mask_service, Now
  <2> QED BY <2>4, <2>5, <2>6, <2>7, <2>8
<1>18. ASSUME unmask_service(c) PROVE Plainly(c) \/ Clears(c)
  <2>1. cli[c].cmd = "unmask_service"
    BY <1>18 DEF unmask_service, Now
  <2>2. CASE cli[c].at = "begin"
    <3> DEFINE next == [d \in Clients |->
                          IF d = c THEN [cli[c] EXCEPT !.at = "cleared"]
                          ELSE IF cli[d].cmd = "mask_service" /\ Name(d).n = Name(c).n
                          THEN [cli[d] EXCEPT !.held = FALSE] ELSE cli[d]]
    <3>1. disk' = unmask(disk, Name(c)) /\ sealed' = sealed \ {Name(c).n} /\ cli' = next
      BY <1>18, <2>2 DEF unmask_service, Now
    <3>2. next[c].cmd = "unmask_service" /\ next[c].arg = cli[c].arg
      BY <1>0, <2>1 DEF UserFields
    <3>3. ASSUME NEW d \in Clients
          PROVE  next[d].arg = cli[d].arg /\ (Holds(next[d]) => Name(d).n # Name(c).n)
      <4>1. CASE d = c
        BY <3>2, <4>1 DEF Holds
      <4>2. CASE d # c /\ cli[d].cmd = "mask_service" /\ Name(d).n = Name(c).n
        <5>1. next[d] = [cli[d] EXCEPT !.held = FALSE]
          BY <4>2
        <5> HIDE DEF next
        <5>2. next[d].held = FALSE /\ next[d].arg = cli[d].arg
          BY <5>1 DEF ShapeInv, UserFields
        <5> QED BY <5>2 DEF Holds
      <4>3. CASE d # c /\ ~ (cli[d].cmd = "mask_service" /\ Name(d).n = Name(c).n)
        <5>1. next[d] = cli[d]
          BY <4>3
        <5> HIDE DEF next
        <5> QED BY <4>3, <5>1 DEF Holds
      <4> QED BY <4>1, <4>2, <4>3
    <3> HIDE DEF next
    <3>4. ~ Holds(cli'[c])
      BY <3>1, <3>2 DEF Holds
    <3> QED BY <2>1, <3>1, <3>3, <3>4 DEF Clears, OneName
  <2>3. CASE cli[c].at # "begin"
    <3>1. disk' = disk /\ sealed' = sealed
      BY <1>18, <2>3 DEF unmask_service, Now, Same
    <3>2. ~ Holds(cli'[c])
      BY <1>1, <1>2, <1>4, <1>18, <2>1, <2>3 DEF unmask_service, Now
    <3> QED BY <1>9, <3>1, <3>2
  <2> QED BY <2>2, <2>3
<1>19. \/ service_request(c) \/ daemon_status(c) \/ isolate_service(c) \/ service_status(c)
       \/ restart_service(c) \/ reset_failed_of(c) \/ list_services(c) \/ reload_services(c)
       \/ reload_service_of(c) \/ is_active(c) \/ is_failed(c) \/ transaction_status(c)
       => Plainly(c)
  BY SingleIsPlain
     DEF service_request, daemon_status, isolate_service, service_status, restart_service,
         reset_failed_of, list_services, reload_services, reload_service_of, is_active,
         is_failed, transaction_status
<1> QED BY <1>10, <1>11, <1>12, <1>13, <1>14, <1>15, <1>16, <1>17, <1>18, <1>19 DEF run

-----------------------------------------------------------------------------
(***************************************************************************)
(* The names that are masked, and what the users know of them: a sealed    *)
(* name is masked and not loaded; a user that holds a mask finds it on the *)
(* disk; and one that was told of the reload, or is served with it, does   *)
(* not find the name in the table.                                         *)
(***************************************************************************)
SealsInv ==
  /\ sealed \subseteq disk.masked /\ sealed \cap Loaded(reg) = {}
  /\ mgr.pc = "wait" => sealed \cap DOMAIN mgr.specs = {}

HoldsInv == \A c \in Clients : Holds(cli[c]) => Name(c).n \in disk.masked

ToldInv ==
  \A c \in Clients :
    Told(cli[c]) => /\ Name(c).n \notin Loaded(reg)
                    /\ mgr.pc = "wait" => Name(c).n \notin DOMAIN mgr.specs

ServedInv ==
  /\ mgr.pc = "wait" =>
       LET c == mgr.client[1]
       IN  Holds(cli[c]) /\ cli[c].at = "reloaded" => Name(c).n \notin DOMAIN mgr.specs
  /\ mgr.pc = "answer" => RespOK(mgr.resp)
  /\ mgr.pc = "answer" /\ mgr.resp.tag = "RELOADED" =>
       LET c == mgr.client[1]
       IN  Holds(cli[c]) /\ cli[c].at = "reloaded" => Name(c).n \notin Loaded(reg)

MaskInv == SealsInv /\ HoldsInv /\ ToldInv /\ ServedInv

DiskFields == {"files", "masked", "enabled", "log", "pid"}

DiskInv ==
  /\ DOMAIN disk = DiskFields
  /\ disk.masked \subseteq Names /\ disk.enabled \subseteq Names /\ disk.pid \in BOOLEAN
  /\ sealed \subseteq Names

(***************************************************************************)
(* What a step does to the users it is not a step of.                      *)
(***************************************************************************)
Follower(d) ==
  /\ cli'[d].arg = cli[d].arg
  /\ Holds(cli'[d]) => Holds(cli[d]) /\ cli'[d].at = cli[d].at
  /\ Told(cli'[d]) => Told(cli[d])

LEMMA DownSaysNothing == Down.tag # "RELOADED" /\ response_parse(<< >>).tag # "RELOADED"
<1>1. Len(<< >>) = 0
  OBVIOUS
<1> QED BY <1>1 DEF Down, Reply, response_parse, Broken

LEMMA FollowsItsAnswer ==
  ASSUME NEW d \in Clients, \A f \in UserFields \ {"conn", "ans"} : cli'[d][f] = cli[d][f],
         cli'[d].ans = cli[d].ans \/ cli'[d].ans.tag # "RELOADED"
  PROVE  Follower(d)
<1>1. /\ cli'[d].cmd = cli[d].cmd /\ cli'[d].arg = cli[d].arg /\ cli'[d].held = cli[d].held
      /\ cli'[d].at = cli[d].at
  BY DEF UserFields
<1> QED BY <1>1 DEF Follower, Told, Holds

LEMMA CutOffSays ==
  ASSUME ShapeInv, NEW d \in Clients
  PROVE  Disconnected[d].ans = cli[d].ans \/ Disconnected[d].ans.tag # "RELOADED"
<1>1. \/ Disconnected[d] = [cli[d] EXCEPT !.conn = "answered", !.ans = Down]
      \/ Disconnected[d] = [cli[d] EXCEPT !.conn = "answered", !.ans = response_parse(<< >>)]
      \/ Disconnected[d] = cli[d]
  BY DEF Disconnected
<1> DEFINE silent == response_parse(<< >>)
<1>2. silent.tag # "RELOADED"
  BY DownSaysNothing
<1> HIDE DEF silent
<1> QED BY <1>1, <1>2, DownSaysNothing DEF ShapeInv, UserFields, silent

LEMMA OthersFollow ==
  ASSUME ShapeInv, NEW c \in Clients, UserStep(c) \/ Launches(c) \/ Kills(c) \/ Lifts(c),
         NEW d \in Clients \ {c}
  PROVE  Follower(d)
<1>1. CASE UserStep(c) \/ Launches(c)
  <2>1. cli'[d] = cli[d]
    BY <1>1 DEF UserStep, Launches, OnlyUser
  <2> QED BY <2>1 DEF Follower
<1>2. CASE Kills(c)
  <2>1. cli'[d] = Disconnected[d]
    BY <1>2 DEF Kills, Disconnected
  <2> QED BY <2>1, CutOff, CutOffSays, FollowsItsAnswer
<1>3. CASE Lifts(c)
  <2>1. /\ cli'[d].cmd = cli[d].cmd /\ cli'[d].arg = cli[d].arg /\ cli'[d].ans = cli[d].ans
        /\ cli'[d].at = cli[d].at /\ (cli'[d].held => cli[d].held)
    BY <1>3 DEF Lifts, UserFields
  <2> QED BY <2>1 DEF Follower, Told, Holds
<1> QED BY <1>1, <1>2, <1>3

(***************************************************************************)
(* The disk under the operations on the markers.                           *)
(***************************************************************************)
LEMMA MarkersAre ==
  ASSUME DiskInv, NEW w, w.n \in Names
  PROVE  /\ \A d \in {enable(disk, w), disable(disk, w)} :
              /\ DOMAIN d = DiskFields /\ d.masked = disk.masked /\ d.enabled \subseteq Names
              /\ d.pid = disk.pid
         /\ \A d \in {mask(disk, w), unmask(disk, w)} :
              /\ DOMAIN d = DiskFields /\ d.masked \subseteq Names /\ d.enabled = disk.enabled
              /\ d.pid = disk.pid
         /\ mask(disk, w).masked = disk.masked \cup {w.n}
         /\ unmask(disk, w).masked = disk.masked \ {w.n}
BY DEF DiskInv, DiskFields, enable, disable, mask, unmask

LEMMA NameIsOne ==
  ASSUME NamedInv, NEW c \in Clients, OneName(cli[c].cmd)
  PROVE  Name(c).n \in Names
<1>1. Called(cli[c].cmd, cli[c].arg, cli[c].ret)
  BY DEF NamedInv, Speaks
<1>2. cli[c].arg \in Seq(STRING) /\ cli[c].arg # << >> /\ ~ NoName(cli[c].cmd, cli[c].ret)
  BY <1>1 DEF Called, OneName, NoName
<1>3. 1 \in 1 .. Len(cli[c].arg)
  BY <1>2
<1> QED BY <1>1, <1>2, <1>3 DEF Called, Name

(***************************************************************************)
(* The steps of the users.                                                 *)
(***************************************************************************)
MaskStep(c) == Plainly(c) \/ Marks(c) \/ Seals(c) \/ Clears(c)

\* A request that is being served stays so.
Serving ==
  mgr'.pc \in {"wait", "answer"} =>
    /\ mgr'.pc = mgr.pc /\ mgr'.client = mgr.client
    /\ mgr'.specs = mgr.specs /\ mgr'.resp = mgr.resp

LEMMA UserDisk ==
  ASSUME DiskInv, NamedInv, MaskInv, NEW c \in Clients, MaskStep(c)
  PROVE  /\ DiskInv'
         /\ Plainly(c) => disk'.masked = disk.masked
         /\ Marks(c) => disk'.masked = disk.masked \cup {Name(c).n} /\ Name(c).n \in Names
         /\ Clears(c) => disk'.masked = disk.masked \ {Name(c).n}
<1>1. CASE Plainly(c)
  <2>1. CASE disk' = disk
    BY <1>1, <2>1, NameIsOne, MarkersAre DEF DiskInv, Plainly, Marks, Clears
  <2>2. CASE disk' # disk
    <3>1. Name(c).n \in Names /\ disk' \in {enable(disk, Name(c)), disable(disk, Name(c))} /\ sealed' = sealed
      BY <1>1, <2>2, NameIsOne DEF Plainly
    <3> HIDE DEF Name
    <3>2. /\ DOMAIN disk' = DiskFields /\ disk'.masked = disk.masked /\ disk'.enabled \subseteq Names
          /\ disk'.pid = disk.pid
      BY <3>1, MarkersAre
    <3> QED BY <3>1, <3>2, MarkersAre DEF DiskInv, Marks, Clears
  <2> QED BY <2>1, <2>2
<1>2. CASE ~ Plainly(c) /\ Seals(c)
  <2>1. disk' = disk /\ (sealed' = sealed \/ (Told(cli[c]) /\ sealed' = sealed \cup {Name(c).n}))
    BY <1>2 DEF Seals
  <2>2. Told(cli[c]) => Name(c).n \in disk.masked
    BY DEF MaskInv, HoldsInv, Told
  <2> QED BY <1>2, <2>1, <2>2, NameIsOne, MarkersAre DEF DiskInv, Marks, Clears
<1>3. CASE ~ Plainly(c) /\ ~ Seals(c) /\ Marks(c)
  <2>1. Name(c).n \in Names /\ disk' = mask(disk, Name(c)) /\ sealed' = sealed
    BY <1>3, NameIsOne DEF Marks
  <2> QED BY <1>3, <2>1, MarkersAre DEF DiskInv, Clears
<1>4. CASE ~ Plainly(c) /\ ~ Seals(c) /\ ~ Marks(c) /\ Clears(c)
  <2>1. Name(c).n \in Names /\ disk' = unmask(disk, Name(c)) /\ sealed' = sealed \ {Name(c).n}
    BY <1>4, NameIsOne DEF Clears
  <2> QED BY <1>4, <2>1, MarkersAre DEF DiskInv
<1> QED BY <1>1, <1>2, <1>3, <1>4 DEF MaskStep

LEMMA UserMasks ==
  ASSUME EndIInv, DiskInv, NamedInv, MaskInv, NEW c \in Clients, MaskStep(c), Serving,
         \A d \in Clients \ {c} : Follower(d), Loaded(reg') \subseteq Loaded(reg),
         mgr'.pc \in {"wait", "answer"} => c # mgr.client[1] \/ ~ Holds(cli'[c])
  PROVE  MaskInv'
<1> USE UserDisk
<1>1. \A d \in Clients : cli'[d].arg = cli[d].arg => Name(d)' = Name(d)
  BY DEF Name
<1>2. \A d \in Clients \ {c} : Name(d)' = Name(d)
  BY <1>1 DEF Follower
<1>3. ~ Holds(NoUser) /\ ~ Told(NoUser)
  BY NoUserHoldsNothing DEF Told
<1>4. ~ Told(cli'[c])
  BY <1>3 DEF MaskStep, Plainly, Marks, Seals, Clears, Told
<1>5. HoldsInv'
  <2>1. ASSUME NEW d \in Clients, Holds(cli'[d]) PROVE Name(d)'.n \in disk'.masked
    <3>1. CASE Plainly(c)
      <4>1. disk'.masked = disk.masked
        BY <3>1
      <4>2. Name(d)' = Name(d) /\ Holds(cli[d])
        BY <1>1, <1>2, <2>1, <3>1 DEF Plainly, Follower
      <4> QED BY <4>1, <4>2 DEF MaskInv, HoldsInv
    <3>2. CASE Marks(c)
      <4>1. disk'.masked = disk.masked \cup {Name(c).n}
        BY <3>2
      <4>2. Name(d)' = Name(d) /\ (Holds(cli[d]) \/ d = c)
        BY <1>1, <1>2, <2>1, <3>2 DEF Marks, Follower
      <4> QED BY <4>1, <4>2 DEF MaskInv, HoldsInv
    <3>3. CASE Seals(c)
      <4>1. disk' = disk /\ d # c
        BY <1>3, <2>1, <3>3 DEF Seals
      <4>2. Name(d)' = Name(d) /\ Holds(cli[d])
        BY <1>2, <2>1, <4>1 DEF Follower
      <4> QED BY <4>1, <4>2 DEF MaskInv, HoldsInv
    <3>4. CASE Clears(c)
      <4>1. disk'.masked = disk.masked \ {Name(c).n}
        BY <3>4
      <4>2. d # c /\ Name(d).n # Name(c).n
        BY <2>1, <3>4 DEF Clears
      <4>3. Name(d)' = Name(d) /\ Holds(cli[d])
        BY <1>2, <2>1, <4>2 DEF Follower
      <4> QED BY <4>1, <4>2, <4>3 DEF MaskInv, HoldsInv
    <3> QED BY <3>1, <3>2, <3>3, <3>4 DEF MaskStep
  <2> QED BY <2>1 DEF HoldsInv
<1>6. SealsInv'
  <2>1. sealed' \cap Loaded(reg') = {} /\ (mgr'.pc = "wait" => sealed' \cap DOMAIN mgr'.specs = {})
    <3>1. sealed' \subseteq sealed \/ (Told(cli[c]) /\ sealed' = sealed \cup {Name(c).n})
      BY DEF MaskStep, Plainly, Marks, Seals, Clears
    <3> QED BY <3>1 DEF MaskInv, SealsInv, ToldInv, Serving
  <2>2. sealed' \subseteq disk'.masked
    <3>1. CASE Plainly(c)
      BY <3>1 DEF Plainly, MaskInv, SealsInv
    <3>2. CASE Marks(c)
      BY <3>2 DEF Marks, MaskInv, SealsInv
    <3>3. CASE Seals(c)
      BY <3>3 DEF Seals, MaskInv, SealsInv, HoldsInv, Told
    <3>4. CASE Clears(c)
      BY <3>4 DEF Clears, MaskInv, SealsInv
    <3> QED BY <3>1, <3>2, <3>3, <3>4 DEF MaskStep
  <2> QED BY <2>1, <2>2 DEF SealsInv
<1>7. ToldInv'
  <2>1. ASSUME NEW d \in Clients, Told(cli'[d])
        PROVE  /\ Name(d)'.n \notin Loaded(reg')
               /\ mgr'.pc = "wait" => Name(d)'.n \notin DOMAIN mgr'.specs
    <3>1. d # c /\ Told(cli[d]) /\ Name(d)' = Name(d)
      BY <1>2, <1>4, <2>1 DEF Follower
    <3> QED BY <3>1 DEF MaskInv, ToldInv, Serving
  <2> QED BY <2>1 DEF ToldInv
<1>8. ServedInv'
  <2>1. CASE mgr'.pc \notin {"wait", "answer"}
    BY <2>1 DEF ServedInv
  <2>2. CASE mgr'.pc \in {"wait", "answer"}
    <3>1. mgr'.pc = mgr.pc /\ mgr'.client = mgr.client /\ mgr'.specs = mgr.specs /\ mgr'.resp = mgr.resp
      BY <2>2 DEF Serving
    <3>2. mgr.client[1] \in Clients
      BY <2>2, <3>1 DEF EndIInv, QueueInv
    <3>3. ASSUME NEW d \in Clients, d = mgr.client[1], Holds(cli'[d])
          PROVE  Holds(cli[d]) /\ cli'[d].at = cli[d].at /\ cli'[d].arg = cli[d].arg
      BY <2>2, <3>3 DEF Follower
    <3>4. ASSUME NEW d \in Clients, d = mgr.client[1], Holds(cli'[d]), cli'[d].at = "reloaded"
          PROVE  /\ mgr.pc = "wait" => Written(cli'[d].arg[1]).n \notin DOMAIN mgr.specs
                 /\ mgr.pc = "answer" /\ mgr.resp.tag = "RELOADED" => Written(cli'[d].arg[1]).n \notin Loaded(reg')
      <4>1. Holds(cli[d]) /\ cli[d].at = "reloaded" /\ cli'[d].arg = cli[d].arg
        BY <3>3, <3>4
      <4> QED BY <3>4, <4>1 DEF MaskInv, ServedInv, Name
    <3>5. mgr.pc = "answer" => RespOK(mgr.resp)
      BY DEF MaskInv, ServedInv
    <3> QED BY <3>1, <3>2, <3>4, <3>5 DEF ServedInv, Name
  <2> QED BY <2>1, <2>2
<1> QED BY <1>5, <1>6, <1>7, <1>8 DEF MaskInv

(***************************************************************************)
(* The steps of the manager and of the world.                              *)
(***************************************************************************)

\* Only an answer RELOADED tells a user of a reload.
Tells(c) ==
  \/ cli'[c].ans = cli[c].ans \/ cli'[c].ans.tag # "RELOADED"
  \/ /\ mgr.pc = "answer" /\ c = mgr.client[1] /\ mgr.resp.tag = "RELOADED"
     /\ Loaded(reg') \subseteq Loaded(reg) /\ mgr'.pc # "wait"

\* What a reload waits with has no masked name, and stays.
Waits ==
  mgr'.pc = "wait" =>
    \/ mgr.pc = "wait" /\ mgr'.specs = mgr.specs /\ mgr'.client = mgr.client
    \/ DOMAIN mgr'.specs \cap disk.masked = {}

\* Only a reload that was done is answered RELOADED.
Answers ==
  mgr'.pc = "answer" =>
    \/ Other(mgr'.resp)
    \/ mgr.pc = "answer" /\ mgr'.resp = mgr.resp /\ mgr'.client = mgr.client /\ reg' = reg
    \/ /\ mgr.pc = "wait" /\ mgr'.client = mgr.client /\ RespOK(mgr'.resp)
       /\ Loaded(reg') \cap disk.masked \subseteq DOMAIN mgr.specs

LEMMA ManagerMasks ==
  ASSUME EndIInv', MaskInv, TableStep, UsersKept, sealed' = sealed, disk'.masked = disk.masked,
         \A c \in Clients : Tells(c), Waits, Answers
  PROVE  MaskInv'
<1>1. ASSUME NEW c \in Clients
      PROVE  /\ Name(c)' = Name(c) /\ cli'[c].at = cli[c].at /\ (Holds(cli'[c]) <=> Holds(cli[c]))
             /\ Told(cli'[c]) => Holds(cli[c]) /\ cli[c].at = "reloaded" /\ cli'[c].ans.tag = "RELOADED"
             /\ Told(cli'[c]) /\ cli'[c].ans = cli[c].ans => Told(cli[c])
  <2>1. /\ cli'[c].cmd = cli[c].cmd /\ cli'[c].arg = cli[c].arg /\ cli'[c].held = cli[c].held
        /\ cli'[c].at = cli[c].at
    BY DEF UsersKept, UserFields
  <2> QED BY <2>1 DEF Name, Told, Holds
<1>2. /\ Loaded(reg') \cap disk.masked \subseteq Loaded(reg) \cup (IF mgr.pc = "wait" THEN DOMAIN mgr.specs ELSE {})
      /\ mgr'.pc = "wait" => DOMAIN mgr'.specs \cap disk.masked = {} \/ (mgr.pc = "wait" /\ mgr'.specs = mgr.specs)
  BY DEF TableStep, Waits
<1>3. SealsInv'
  BY <1>2 DEF MaskInv, SealsInv
<1>4. HoldsInv'
  BY <1>1 DEF MaskInv, HoldsInv
<1>5. ToldInv'
  <2>1. ASSUME NEW c \in Clients, Told(cli'[c])
        PROVE  /\ Name(c).n \notin Loaded(reg')
               /\ mgr'.pc = "wait" => Name(c).n \notin DOMAIN mgr'.specs
    <3>1. Holds(cli[c]) /\ cli[c].at = "reloaded" /\ cli'[c].ans.tag = "RELOADED"
      BY <1>1, <2>1
    <3>2. Name(c).n \in disk.masked
      BY <3>1 DEF MaskInv, HoldsInv
    <3>3. CASE Told(cli[c])
      BY <1>2, <3>2, <3>3 DEF MaskInv, ToldInv
    <3>4. CASE ~ Told(cli[c])
      <4>1. /\ mgr.pc = "answer" /\ c = mgr.client[1] /\ mgr.resp.tag = "RELOADED"
            /\ Loaded(reg') \subseteq Loaded(reg) /\ mgr'.pc # "wait"
        BY <1>1, <2>1, <3>1, <3>4 DEF Tells
      <4> QED BY <3>1, <4>1 DEF MaskInv, ServedInv
    <3> QED BY <3>3, <3>4
  <2> QED BY <1>1, <2>1 DEF ToldInv
<1>6. ServedInv'
  <2>1. CASE mgr'.pc = "wait"
    <3>1. ASSUME NEW c \in Clients, c = mgr'.client[1], Holds(cli[c]), cli[c].at = "reloaded"
          PROVE  Name(c).n \notin DOMAIN mgr'.specs
      <4>1. Name(c).n \in disk.masked
        BY <3>1 DEF MaskInv, HoldsInv
      <4> QED BY <2>1, <3>1, <4>1 DEF Waits, MaskInv, ServedInv
    <3>2. mgr'.client[1] \in Clients
      BY <2>1 DEF EndIInv, QueueInv
    <3> QED BY <1>1, <2>1, <3>1, <3>2 DEF ServedInv
  <2>2. CASE mgr'.pc = "answer"
    <3>1. mgr'.client[1] \in Clients
      BY <2>2 DEF EndIInv, QueueInv
    <3>2. RespOK(mgr'.resp)
      BY <2>2 DEF Answers, Other, MaskInv, ServedInv
    <3>3. ASSUME NEW c \in Clients, c = mgr'.client[1], Holds(cli[c]), cli[c].at = "reloaded",
                 mgr'.resp.tag = "RELOADED"
          PROVE  Name(c).n \notin Loaded(reg')
      <4>1. Name(c).n \in disk.masked
        BY <3>3 DEF MaskInv, HoldsInv
      <4>2. CASE mgr.pc = "answer" /\ mgr'.resp = mgr.resp /\ mgr'.client = mgr.client /\ reg' = reg
        BY <3>3, <4>2 DEF MaskInv, ServedInv
      <4>3. CASE /\ mgr.pc = "wait" /\ mgr'.client = mgr.client
                 /\ Loaded(reg') \cap disk.masked \subseteq DOMAIN mgr.specs
        BY <3>3, <4>1, <4>3 DEF MaskInv, ServedInv
      <4> QED BY <2>2, <3>3, <4>2, <4>3 DEF Answers, Other
    <3> QED BY <1>1, <2>2, <3>1, <3>2, <3>3 DEF ServedInv
  <2>3. CASE mgr'.pc \notin {"wait", "answer"}
    BY <2>3 DEF ServedInv
  <2> QED BY <2>1, <2>2, <2>3
<1> QED BY <1>3, <1>4, <1>5, <1>6 DEF MaskInv

\* The manager writes its log and its pid file, and the markers it is asked to.
DiskStep ==
  /\ sealed' = sealed /\ DOMAIN disk' = DiskFields
  /\ disk'.masked = disk.masked /\ disk'.enabled \subseteq Names /\ disk'.pid \in BOOLEAN

LEMMA StepDisk ==
  ASSUME EndIInv, NamedInv, TableInv, DiskInv, Step \/ Crash \/ Boot \/ Signal \/ Edit
  PROVE  DiskStep
<1>1. disk' = disk /\ sealed' = sealed => DiskStep
  BY DEF DiskInv, DiskStep
<1>2. ASSUME NEW log, disk' = [disk EXCEPT !.log = log], sealed' = sealed PROVE DiskStep
  BY <1>2 DEF DiskInv, DiskStep, DiskFields
<1>3. ASSUME NEW pid \in BOOLEAN, disk' = [disk EXCEPT !.pid = pid], sealed' = sealed PROVE DiskStep
  BY <1>3 DEF DiskInv, DiskStep, DiskFields
<1>4. ASSUME NEW dir, NEW name, NEW entry, disk' = [disk EXCEPT !.files[dir][name] = entry], sealed' = sealed
      PROVE  DiskStep
  BY <1>4 DEF DiskInv, DiskStep, DiskFields
<1>5. ASSUME Accept PROVE DiskStep
  <2> DEFINE c == mgr.backlog[1]
             q == request_parse(cli[c].line)
             w == Canonical(q.arg[1])
  <2>1. c \in Clients
    BY <1>5, QueueMoves DEF Accept
  <2>2. q.tag \in NameTags => Written(q.arg[1]).n \in Names
    BY <2>1 DEF NamedInv, Speaks, LineOK
  <2>3. q.tag \in NameTags => w.n \in Names
    <3> DEFINE s == q.arg[1]
    <3> HIDE DEF q
    <3>1. RegOK(reg) /\ Loaded(reg) \subseteq Names
      BY DEF TableInv, RegOK
    <3>2. w = Written(s) \/ \E m \in Loaded(reg) : w = Plain(m)
      BY <3>1, CanonicalIs DEF Canonical
    <3>3. \A m : Plain(m).n = m
      BY DEF Plain
    <3> HIDE DEF w
    <3> QED BY <2>2, <3>1, <3>2, <3>3
  <2>4. disk' \in {disk, enable(disk, w), disable(disk, w)} /\ (disk' = disk \/ q.tag \in NameTags)
    BY <1>5 DEF Accept, Serve, Marked, NameTags
  <2>5. sealed' = sealed
    BY <1>5 DEF Accept, Quiet
  <2> HIDE DEF w, q
  <2>6. CASE disk' # disk
    <3>1. w.n \in Names /\ disk' \in {enable(disk, w), disable(disk, w)}
      BY <2>3, <2>4, <2>6
    <3>2. /\ DOMAIN disk' = DiskFields /\ disk'.masked = disk.masked /\ disk'.enabled \subseteq Names
          /\ disk'.pid = disk.pid
      BY <3>1, MarkersAre
    <3> QED BY <2>5, <3>2 DEF DiskStep, DiskInv
  <2> QED BY <1>1, <2>5, <2>6
<1>6. \A why : EndProcess(why) /\ Quiet => DiskStep
  BY <1>3 DEF EndProcess, Quiet
<1>7. Load \/ Idle \/ Drained \/ Late \/ Answer => DiskStep
  BY <1>1, <1>2, <1>6 DEF Load, Idle, LoopEnd, Drained, Late, Answer, Quiet
<1>8. Bring \/ Turn \/ open_event_subscription \/ ReloadWait \/ ReloadApply \/ Drain => DiskStep
  BY <1>1 DEF Bring, Turn, open_event_subscription, Subscribe, ReloadWait, ReloadApply, Drain, Quiet
<1>9. bind_listener \/ ObserveOne \/ ObserveEnd => DiskStep
  BY <1>2, <1>3 DEF bind_listener, ObserveOne, ObserveEnd, Quiet
<1>10. ASSUME Crash PROVE DiskStep
  <2>1. sealed' = sealed /\ (disk' = disk \/ \E log : disk' = [disk EXCEPT !.log = log])
    BY <1>10 DEF Crash
  <2> QED BY <1>1, <1>2, <2>1
<1>11. ASSUME Edit PROVE DiskStep
  <2>1. /\ sealed' = sealed
        /\ \/ \E dir, name, entry : disk' = [disk EXCEPT !.files[dir][name] = entry]
           \/ disk' = [disk EXCEPT !.pid = FALSE]
    BY <1>11 DEF Edit
  <2> QED BY <1>3, <1>4, <2>1
<1>12. Boot \/ Signal => DiskStep
  BY <1>1 DEF Boot, Signal
<1> QED BY <1>5, <1>7, <1>8, <1>9, <1>10, <1>11, <1>12 DEF Step

LEMMA StepTells ==
  ASSUME EndIInv, MaskInv, Step \/ Crash \/ Boot \/ Signal \/ Edit, NEW c \in Clients
  PROVE  Tells(c)
<1>0. ShapeInv /\ DOMAIN mgr = ManagerFields
  BY DEF EndIInv, ShapeInv
<1>1. cli' = cli => Tells(c)
  BY DEF Tells
<1>2. cli' = Disconnected => Tells(c)
  BY <1>0, CutOffSays DEF Tells
<1>3. ASSUME NEW d \in Clients, NEW conn, cli' = [cli EXCEPT ![d].conn = conn] PROVE Tells(c)
  BY <1>0, <1>3 DEF Tells, ShapeInv, UserFields
<1>4. ASSUME Accept PROVE Tells(c)
  <2>1. mgr.backlog[1] \in Clients
    BY <1>4, QueueMoves DEF Accept
  <2>2. \E conn : cli' = [cli EXCEPT ![mgr.backlog[1]].conn = conn]
    BY <1>4 DEF Accept, Serve
  <2> QED BY <1>3, <2>1, <2>2
<1>5. ASSUME open_event_subscription PROVE Tells(c)
  <2>1. mgr.backlog[1] \in Clients
    BY <1>5, QueueMoves DEF open_event_subscription
  <2>2. \E conn : cli' = [cli EXCEPT ![mgr.backlog[1]].conn = conn]
    BY <1>5 DEF open_event_subscription, Subscribe
  <2> QED BY <1>3, <2>1, <2>2
<1>6. ASSUME ObserveEnd PROVE Tells(c)
  <2>1. cli'[c] \in {[cli[c] EXCEPT !.conn = "answered", !.ans = Down], cli[c]}
    BY <1>6 DEF ObserveEnd
  <2> QED BY <1>0, <2>1, DownSaysNothing DEF Tells, ShapeInv, UserFields
<1>7. ASSUME Answer PROVE Tells(c)
  <2> DEFINE d == mgr.client[1]
             says == response_parse(response_as_line(mgr.resp))
             told == [cli EXCEPT ![d].conn = "answered", ![d].ans = says]
             m == [mgr EXCEPT !.client = << >>, !.resp = Down]
             end == NoManager("pid file")
  <2>1. d \in Clients /\ mgr.pc = "answer"
    BY <1>7 DEF Answer, EndIInv, QueueInv
  <2>2. says.tag = "RELOADED" => mgr.resp.tag = "RELOADED"
    BY <2>1 DEF MaskInv, ServedInv, RespOK
  <2>3. /\ [m EXCEPT !.pc = "observe", !.loud = TRUE, !.waits = 0].pc = "observe"
        /\ [m EXCEPT !.pc = "turn"].pc = "turn" /\ end.pc = "down"
    BY <1>0, NoManagerIs DEF ManagerFields
  <2>4. \/ cli' = Disconnected
        \/ cli' = told /\ reg' = reg /\ mgr'.pc \in {"observe", "turn"}
        \/ /\ cli' = [e \in Clients |-> IF e = d THEN told[d] ELSE Disconnected[e]]
           /\ reg' = Empty /\ mgr'.pc = "down"
    <3>1. \/ cli' = Disconnected
          \/ cli' = told /\ reg' = reg /\ mgr' = [m EXCEPT !.pc = "observe", !.loud = TRUE, !.waits = 0]
          \/ cli' = told /\ reg' = reg /\ mgr' = [m EXCEPT !.pc = "turn"]
          \/ /\ cli' = [e \in Clients |-> IF e = d THEN told[d] ELSE Disconnected[e]]
             /\ reg' = Empty /\ mgr' = end
      BY <1>7 DEF Answer, EndProcess
    <3> HIDE DEF m, told, end
    <3> QED BY <2>3, <3>1
  <2>5. told[d].ans = says /\ (c # d => told[c] = cli[c])
    BY <1>0, <2>1 DEF ShapeInv, UserFields
  <2>6. Loaded(Empty) = {}
    BY EmptyIsFine
  <2> HIDE DEF told, says
  <2>7. CASE c = d
    <3>1. cli'[c] = Disconnected[c] \/ (cli'[c].ans = says /\ Loaded(reg') \subseteq Loaded(reg) /\ mgr'.pc # "wait")
      BY <2>4, <2>5, <2>6, <2>7
    <3>2. says.tag = "RELOADED" \/ says.tag # "RELOADED"
      OBVIOUS
    <3> QED BY <1>0, <2>1, <2>2, <2>7, <3>1, CutOffSays DEF Tells
  <2>8. CASE c # d
    <3>1. cli'[c] = Disconnected[c] \/ cli'[c] = cli[c]
      BY <2>4, <2>5, <2>8
    <3> QED BY <1>0, <3>1, CutOffSays DEF Tells
  <2> QED BY <2>7, <2>8
<1>8. Load \/ Idle \/ Drained \/ Late => Tells(c)
  BY <1>1, <1>2 DEF Load, Idle, LoopEnd, Drained, Late, EndProcess
<1>9. Bring \/ bind_listener \/ Turn \/ ObserveOne \/ ReloadWait \/ ReloadApply \/ Drain => Tells(c)
  BY <1>1 DEF Bring, bind_listener, Turn, ObserveOne, ReloadWait, ReloadApply, Drain
<1>10. Crash \/ Boot \/ Signal \/ Edit => Tells(c)
  BY <1>1, <1>2 DEF Crash, Boot, Signal, Edit
<1> QED BY <1>4, <1>5, <1>6, <1>7, <1>8, <1>9, <1>10 DEF Step

LEMMA StepServes ==
  ASSUME EndIInv, LimitsOK, TableInv, Step \/ Crash \/ Boot \/ Signal \/ Edit
  PROVE  Waits /\ Answers
<1>0. DOMAIN mgr = ManagerFields
  BY DEF EndIInv, ShapeInv
<1>1. mgr'.pc \notin {"wait", "answer"} => Waits /\ Answers
  BY DEF Waits, Answers
<1>2. ASSUME NEW why, EndProcess(why) PROVE Waits /\ Answers
  <2>1. mgr'.pc = "down"
    BY <1>2, NoManagerIs DEF EndProcess, ManagerFields
  <2> QED BY <1>1, <2>1
<1>3. ASSUME Load PROVE Waits /\ Answers
  <2>1. mgr'.pc = "observe" \/ EndProcess("refused")
    BY <1>0, <1>3 DEF Load, ManagerFields
  <2> QED BY <1>1, <1>2, <2>1
<1>4. ASSUME Bring \/ bind_listener \/ Turn \/ ObserveOne \/ open_event_subscription \/ Drain
      PROVE  Waits /\ Answers
  <2>1. mgr'.pc \in {"observe", "turn"}
    BY <1>0, <1>4 DEF Bring, bind_listener, Turn, ObserveOne, open_event_subscription, Subscribe, Drain, ManagerFields
  <2> QED BY <1>1, <2>1
<1>5. ASSUME ObserveEnd PROVE Waits /\ Answers
  <2>1. mgr'.pc = mgr.then /\ mgr.pc = "observe"
    BY <1>0, <1>5 DEF ObserveEnd, ManagerFields
  <2> QED BY <1>1, <2>1 DEF EndIInv, RunningInv
<1>6. ASSUME Idle PROVE Waits /\ Answers
  <2>1. mgr'.pc = "turn" \/ EndProcess("pid file")
    BY <1>0, <1>6 DEF Idle, LoopEnd, ManagerFields
  <2> QED BY <1>1, <1>2, <2>1
<1>7. ASSUME Accept PROVE Waits /\ Answers
  <2> DEFINE c == mgr.backlog[1]
             q == request_parse(cli[c].line)
             m == [mgr EXCEPT !.pc = "answer", !.backlog = Tail(@), !.client = <<c>>, !.then = "turn"]
  <2>1. PICK e \in Handled(m, q) : reg' = e.reg /\ mgr' = e.m
    BY <1>7 DEF Accept, Serve
  <2>2. DOMAIN m = ManagerFields /\ m.pc = "answer"
    BY <1>0 DEF ManagerFields
  <2> HIDE DEF m, q, c
  <2>3. mgr'.pc = "wait" => DOMAIN mgr'.specs \cap disk.masked = {}
    BY <2>1, <2>2, HandledWaits, SpecsAre
  <2>4. mgr'.pc = "wait" \/ Other(mgr'.resp)
    BY <2>1, <2>2, HandledSays
  <2> QED BY <2>3, <2>4 DEF Waits, Answers
<1>8. ASSUME Answer PROVE Waits /\ Answers
  <2> DEFINE m == [mgr EXCEPT !.client = << >>, !.resp = Down]
             drain == [m EXCEPT !.pc = "observe", !.loud = TRUE, !.waits = 0]
             turn == [m EXCEPT !.pc = "turn"]
             end == NoManager("pid file")
  <2>1. drain.pc = "observe" /\ turn.pc = "turn" /\ end.pc = "down"
    BY <1>0, NoManagerIs DEF ManagerFields
  <2>2. EndProcess("answer lost") \/ mgr' = drain \/ mgr' = turn \/ mgr' = end
    BY <1>8 DEF Answer
  <2> HIDE DEF drain, turn, end
  <2> QED BY <1>1, <1>2, <2>1, <2>2
<1>9. ASSUME ReloadWait PROVE Waits /\ Answers
  <2> DEFINE late == [mgr EXCEPT !.pc = "answer", !.resp = Error("timeout"), !.waits = 0,
                                 !.specs = << >>, !.stopping = {}]
             on == [mgr EXCEPT !.waits = @ + 1]
  <2>1. late.pc = "answer" /\ late.resp = Error("timeout")
        /\ on.pc = mgr.pc /\ on.specs = mgr.specs /\ on.client = mgr.client
    BY <1>0 DEF ManagerFields
  <2>2. mgr.pc = "wait" /\ (mgr' = on \/ mgr' = late)
    BY <1>9 DEF ReloadWait
  <2> HIDE DEF on, late
  <2> QED BY <2>1, <2>2, ErrorIsOther DEF Waits, Answers
<1>10. ASSUME ReloadApply PROVE Waits /\ Answers
  <2>1. PICK o \in Reconfigured :
          /\ reg' = o.reg
          /\ mgr' = [mgr EXCEPT !.pc = "answer", !.specs = << >>, !.stopping = {}, !.waits = 0,
                                !.resp = IF o.ok THEN Reply("RELOADED", << >>) ELSE Error("refused")]
    BY <1>10 DEF ReloadApply
  <2>2. mgr.pc = "wait"
    BY <1>10 DEF ReloadApply
  <2>3. o.ok => Loaded(o.reg) \cap disk.masked \subseteq DOMAIN mgr.specs
    BY <2>1, <2>2, ReconfiguredIs DEF TableInv, LimitsOK
  <2> DEFINE says == IF o.ok THEN Reply("RELOADED", << >>) ELSE Error("refused")
  <2>4. (o.ok /\ says.tag = "RELOADED") \/ (~ o.ok /\ Other(says))
    BY ErrorIsOther DEF Reply
  <2> HIDE DEF says
  <2>5. mgr'.pc = "answer" /\ mgr'.client = mgr.client /\ mgr'.resp = says
    BY <1>0, <2>1 DEF ManagerFields, says
  <2>6. RespOK(says) \/ Other(says)
    BY <2>4 DEF RespOK
  <2> QED BY <2>1, <2>2, <2>3, <2>4, <2>5, <2>6 DEF Waits, Answers
<1>11. Drained \/ Late => Waits /\ Answers
  BY <1>2 DEF Drained, Late
<1>12. ASSUME Crash \/ Boot PROVE Waits /\ Answers
  <2>1. mgr'.pc \in {"down", "load"}
    BY <1>12, NoManagerIs DEF Crash, Boot, ManagerFields
  <2> QED BY <1>1, <2>1
<1>13. ASSUME Signal \/ Edit PROVE Waits /\ Answers
  <2>1. /\ mgr'.pc = mgr.pc /\ mgr'.specs = mgr.specs /\ mgr'.client = mgr.client /\ mgr'.resp = mgr.resp
        /\ reg' = reg
    BY <1>0, <1>13 DEF Signal, Edit, ManagerFields
  <2> QED BY <2>1 DEF Waits, Answers
<1> QED BY <1>3, <1>4, <1>5, <1>6, <1>7, <1>8, <1>9, <1>10, <1>11, <1>12, <1>13 DEF Step

MaskedInv == DiskInv /\ MaskInv

LEMMA NextMasks ==
  ASSUME EndIInv, EndIInv', MixInv, NamedInv, TableInv, TableStep, MaskedInv, [Next]_vars
  PROVE  MaskedInv'
<1> USE DEF MaskedInv
<1>0. ShapeInv /\ DOMAIN mgr = ManagerFields /\ LimitsOK
  BY Limits DEF EndIInv, ShapeInv
<1>1. CASE Step \/ Crash \/ Boot \/ Signal \/ Edit
  <2>1. DiskStep /\ UsersKept /\ Waits /\ Answers /\ \A c \in Clients : Tells(c)
    BY <1>0, <1>1, StepDisk, StepKeepsUsers, StepServes, StepTells
  <2>2. MaskInv'
    BY <2>1, ManagerMasks DEF DiskStep
  <2>3. DiskInv'
    BY <2>1 DEF DiskStep, DiskInv
  <2> QED BY <2>2, <2>3
<1>2. ASSUME NEW c \in Clients, run(c) PROVE MaskedInv'
  <2>1. UserStep(c) \/ Launches(c) \/ Kills(c) \/ Lifts(c)
    BY <1>0, <1>2, CommandMoves
  <2>2. MaskStep(c)
    BY <1>0, <1>2, CommandMasks DEF MaskStep
  <2>3. Serving
    <3>1. CASE UserStep(c)
      BY <1>0, <3>1 DEF UserStep, Keeps, Serving, ManagerFields
    <3>2. CASE Launches(c) \/ Kills(c)
      BY <3>2, NoManagerIs DEF Launches, Kills, Serving, ManagerFields
    <3>3. CASE Lifts(c)
      BY <3>3 DEF Lifts, Serving
    <3> QED BY <2>1, <3>1, <3>2, <3>3
  <2>4. Loaded(reg') \subseteq Loaded(reg)
    BY <1>2, UsersLeaveTable, EmptyIsFine DEF Kills
  <2>5. mgr'.pc \in {"wait", "answer"} => c # mgr.client[1]
    <3>1. Free(c)
      BY <2>1 DEF UserStep, Launches, Kills, Lifts
    <3> QED BY <2>3, <3>1 DEF Serving, Free, EndIInv, QueueInv
  <2>6. \A d \in Clients \ {c} : Follower(d)
    BY <1>0, <2>1, OthersFollow
  <2> QED BY <2>2, <2>3, <2>4, <2>5, <2>6, UserDisk, UserMasks
<1>3. ASSUME NEW c \in Clients, Begin(c) \/ Interrupt(c) PROVE MaskedInv'
  <2>1. \E k : cli' = [cli EXCEPT ![c] = k] /\ ~ Holds(k)
    <3>1. ASSUME Begin(c) PROVE \E k : cli' = [cli EXCEPT ![c] = k] /\ ~ Holds(k)
      <4>1. PICK i \in DOMAIN mix.commands :
              cli' = [cli EXCEPT ![c] = [NoUser EXCEPT !.cmd = mix.commands[i].cmd, !.arg = mix.commands[i].arg,
                                                       !.ret = mix.commands[i].req, !.held = mix.commands[i].now]]
        BY <3>1 DEF Begin
      <4> DEFINE k == [NoUser EXCEPT !.cmd = mix.commands[i].cmd, !.arg = mix.commands[i].arg,
                                     !.ret = mix.commands[i].req, !.held = mix.commands[i].now]
      <4>2. k.at = "begin"
        BY DEF NoUser
      <4> HIDE DEF k
      <4> QED BY <4>1, <4>2 DEF k, Holds, LateAt
    <3>2. ASSUME Interrupt(c) PROVE \E k : cli' = [cli EXCEPT ![c] = k] /\ ~ Holds(k)
      <4> DEFINE k == [NoUser EXCEPT !.cmd = "gone", !.conn = "gone", !.line = cli[c].line]
      <4>1. k.cmd = "gone"
        BY DEF NoUser
      <4>2. cli' = [cli EXCEPT ![c] = k]
        BY <3>2 DEF Interrupt
      <4> HIDE DEF k
      <4> QED BY <4>1, <4>2 DEF Holds
    <3> QED BY <1>3, <3>1, <3>2
  <2>2. ~ Holds(cli'[c]) /\ \A d \in Clients \ {c} : cli'[d] = cli[d]
    BY <1>0, <2>1 DEF ShapeInv
  <2>3. disk' = disk /\ sealed' = sealed /\ reg' = reg /\ mgr' = mgr
    BY <1>3 DEF Begin, Interrupt
  <2>4. MaskStep(c) /\ Serving /\ \A d \in Clients \ {c} : Follower(d)
    BY <2>2, <2>3 DEF MaskStep, Plainly, Serving, Follower, Told
  <2> QED BY <2>2, <2>3, <2>4, UserDisk, UserMasks
<1>4. CASE UNCHANGED vars
  BY <1>4 DEF vars, MaskInv, SealsInv, HoldsInv, ToldInv, ServedInv, DiskInv, Name
<1> QED BY <1>1, <1>2, <1>3, <1>4 DEF Next

-----------------------------------------------------------------------------
(***************************************************************************)
(* The event log.  Every line was written when the next number was some k; *)
(* a whole line has that number, and half a line has it, a smaller one, or *)
(* none.  The numbers are counted from the line b on; what is left of the  *)
(* lines before was never whole.                                           *)
(***************************************************************************)
Lines == [seq : {NoSeq} \cup 0 .. MaxSequence, whole : BOOLEAN]

Fits(line, k) == line.seq <= k /\ (line.whole => line.seq = k)
After(line, k) == IF line.seq = k THEN saturating_succ(k) ELSE k

Counted(log, k, b, nxt) ==
  /\ nxt[Len(log) + 1] = k
  /\ \A i \in 1 .. b - 1 : ~ log[i].whole /\ log[i].seq <= nxt[b]
  /\ \A i \in b .. Len(log) : Fits(log[i], nxt[i]) /\ nxt[i + 1] = After(log[i], nxt[i])
  /\ \A i, j \in b .. Len(log) + 1 : i <= j => nxt[i] <= nxt[j]

Numbered(log, k) ==
  /\ log \in Seq(Lines) /\ k \in 0 .. MaxSequence
  /\ \E b \in 1 .. Len(log) + 1 :
       \E nxt \in [b .. Len(log) + 1 -> 0 .. MaxSequence] : Counted(log, k, b, nxt)

LEMMA SuccIs ==
  ASSUME NEW k \in 0 .. MaxSequence
  PROVE  saturating_succ(k) \in 0 .. MaxSequence /\ k <= saturating_succ(k)
         /\ (k = MaxSequence \/ saturating_succ(k) = k + 1)
BY EventLogAssumption DEF saturating_succ

LEMMA AfterIs ==
  ASSUME NEW line, NEW k \in 0 .. MaxSequence
  PROVE  After(line, k) \in 0 .. MaxSequence /\ k <= After(line, k)
BY SuccIs, EventLogAssumption DEF After

LEMMA NumberedAppend ==
  ASSUME NEW log, NEW k, Numbered(log, k), NEW line \in Lines, Fits(line, k)
  PROVE  Numbered(Append(log, line), After(line, k))
<1> DEFINE n == Len(log)
           new == Append(log, line)
           a == After(line, k)
<1>1. log \in Seq(Lines) /\ k \in 0 .. MaxSequence /\ n \in Nat /\ MaxSequence \in Nat
  BY EventLogAssumption DEF Numbered
<1>2. PICK b \in 1 .. n + 1 : \E nxt \in [b .. n + 1 -> 0 .. MaxSequence] : Counted(log, k, b, nxt)
  BY DEF Numbered
<1>3. PICK nxt \in [b .. n + 1 -> 0 .. MaxSequence] : Counted(log, k, b, nxt)
  BY <1>2
<1>4. a \in 0 .. MaxSequence /\ k <= a
  BY <1>1, AfterIs
<1>5. /\ new \in Seq(Lines) /\ Len(new) = n + 1 /\ new[n + 1] = line
      /\ \A i \in 1 .. n : new[i] = log[i]
  BY <1>1
<1> DEFINE nx == [i \in b .. n + 2 |-> IF i <= n + 1 THEN nxt[i] ELSE a]
<1> HIDE DEF new, n
<1>6. /\ nx \in [b .. n + 2 -> 0 .. MaxSequence] /\ nx[n + 2] = a
      /\ \A i \in b .. n + 1 : nx[i] = nxt[i]
  BY <1>1, <1>4
<1> HIDE DEF nx
<1>7. nxt[n + 1] = k /\ n + 1 \in b .. n + 1
  BY <1>1, <1>3 DEF Counted, n
<1>8. \A i \in 1 .. b - 1 : ~ new[i].whole /\ new[i].seq <= nx[b]
  <2>1. \A i \in 1 .. b - 1 : i \in 1 .. n /\ ~ log[i].whole /\ log[i].seq <= nxt[b]
    BY <1>1, <1>3 DEF Counted
  <2>2. b \in b .. n + 1
    BY <1>1
  <2> QED BY <1>5, <1>6, <2>1, <2>2
<1>9. \A i \in b .. n + 1 : Fits(new[i], nx[i]) /\ nx[i + 1] = After(new[i], nx[i])
  <2>1. ASSUME NEW i \in b .. n PROVE Fits(new[i], nx[i]) /\ nx[i + 1] = After(new[i], nx[i])
    <3>1. Fits(log[i], nxt[i]) /\ nxt[i + 1] = After(log[i], nxt[i])
      BY <1>3 DEF Counted, n
    <3>2. i \in 1 .. n /\ i \in b .. n + 1 /\ i + 1 \in b .. n + 1
      BY <1>1
    <3> QED BY <1>5, <1>6, <3>1, <3>2
  <2>2. Fits(new[n + 1], nx[n + 1]) /\ nx[n + 2] = After(new[n + 1], nx[n + 1])
    BY <1>5, <1>6, <1>7
  <2>3. \A i \in b .. n + 1 : i \in b .. n \/ (i = n + 1 /\ i + 1 = n + 2)
    BY <1>1
  <2> QED BY <2>1, <2>2, <2>3
<1>10. \A i, j \in b .. n + 2 : i <= j => nx[i] <= nx[j]
  <2> SUFFICES ASSUME NEW i \in b .. n + 2, NEW j \in b .. n + 2, i <= j PROVE nx[i] <= nx[j]
    OBVIOUS
  <2>1. \A x, y \in b .. n + 1 : x <= y => nxt[x] <= nxt[y]
    BY <1>3 DEF Counted, n
  <2>2. CASE j <= n + 1
    BY <1>1, <1>6, <2>1, <2>2
  <2>3. CASE j = n + 2 /\ i <= n + 1
    <3>1. i \in b .. n + 1 /\ nxt[i] <= k /\ nxt[i] \in 0 .. MaxSequence
      BY <1>1, <1>7, <2>1, <2>3
    <3> QED BY <1>1, <1>4, <1>6, <2>3, <3>1
  <2>4. CASE j = n + 2 /\ i = n + 2
    BY <1>1, <1>4, <1>6, <2>4
  <2> QED BY <1>1, <2>2, <2>3, <2>4
<1>11. Counted(new, a, b, nx)
  <2>1. Len(new) + 1 = n + 2
    BY <1>1, <1>5
  <2> HIDE DEF a
  <2> QED BY <1>5, <1>6, <1>8, <1>9, <1>10, <2>1 DEF Counted
<1>12. b \in 1 .. Len(new) + 1 /\ nx \in [b .. Len(new) + 1 -> 0 .. MaxSequence]
  <2>1. Len(new) + 1 = n + 2
    BY <1>1, <1>5
  <2> QED BY <1>1, <1>6, <2>1
<1> QED BY <1>4, <1>5, <1>11, <1>12 DEF Numbered, new

\* The last lines of a log.
LEMMA NumberedCompact ==
  ASSUME NEW log, NEW k, Numbered(log, k)
  PROVE  Numbered(compact_if_needed(log, MaxEvents), k)
<1> DEFINE n == Len(log)
           d == n - MaxEvents
           new == SubSeq(log, d + 1, n)
<1>1. log \in Seq(Lines) /\ k \in 0 .. MaxSequence /\ n \in Nat /\ MaxSequence \in Nat /\ MaxEvents \in Nat
  BY EventLogAssumption, DaemonAssumption DEF Numbered
<1>2. CASE n <= MaxEvents
  <2>1. compact_if_needed(log, MaxEvents) = log
    BY <1>1, <1>2 DEF compact_if_needed
  <2> QED BY <2>1
<1>3. CASE n > MaxEvents
  <2>1. compact_if_needed(log, MaxEvents) = new
    BY <1>1, <1>3 DEF compact_if_needed
  <2>2. d \in 1 .. n /\ n - d \in Nat
    BY <1>1, <1>3
  <2>3. new \in Seq(Lines) /\ Len(new) = n - d /\ \A i \in 1 .. n - d : new[i] = log[d + i]
    BY <1>1, <2>2
  <2> HIDE DEF n, d, new
  <2>4. PICK b \in 1 .. n + 1 : \E nxt \in [b .. n + 1 -> 0 .. MaxSequence] : Counted(log, k, b, nxt)
    BY DEF Numbered, n
  <2>5. PICK nxt \in [b .. n + 1 -> 0 .. MaxSequence] : Counted(log, k, b, nxt)
    BY <2>4
  <2> DEFINE c == IF b > d THEN b - d ELSE 1
             nx == [i \in c .. n - d + 1 |-> nxt[d + i]]
  <2>6. c \in 1 .. n - d + 1 /\ d + c \in b .. n + 1 /\ (b > d => d + c = b) /\ (b <= d => c = 1)
    BY <1>1, <2>2
  <2> HIDE DEF c
  <2>7. \A i \in c .. n - d + 1 : d + i \in b .. n + 1
    BY <1>1, <2>2, <2>6
  <2>8. nx \in [c .. n - d + 1 -> 0 .. MaxSequence] /\ \A i \in c .. n - d + 1 : nx[i] = nxt[d + i]
    BY <2>7
  <2> HIDE DEF nx
  <2>9. Counted(new, k, c, nx)
    <3>1. nx[Len(new) + 1] = k
      <4>1. nxt[n + 1] = k
        BY <2>5 DEF Counted, n
      <4>2. n - d + 1 \in c .. n - d + 1 /\ d + (n - d + 1) = n + 1
        BY <1>1, <2>2, <2>6
      <4> QED BY <2>3, <2>8, <4>1, <4>2
    <3>2. ASSUME NEW i \in 1 .. c - 1 PROVE ~ new[i].whole /\ new[i].seq <= nx[c]
      <4>1. b > d /\ d + c = b /\ i \in 1 .. n - d /\ d + i \in 1 .. b - 1 /\ c \in c .. n - d + 1
        BY <1>1, <2>2, <2>6
      <4>2. ~ log[d + i].whole /\ log[d + i].seq <= nxt[b]
        BY <2>5, <4>1 DEF Counted
      <4> QED BY <2>3, <2>8, <4>1, <4>2
    <3>3. ASSUME NEW i \in c .. n - d PROVE Fits(new[i], nx[i]) /\ nx[i + 1] = After(new[i], nx[i])
      <4>1. i \in 1 .. n - d /\ i \in c .. n - d + 1 /\ i + 1 \in c .. n - d + 1 /\ d + (i + 1) = (d + i) + 1
        BY <1>1, <2>2, <2>6
      <4>2. d + i \in b .. n
        BY <1>1, <2>2, <2>7, <4>1
      <4>3. Fits(log[d + i], nxt[d + i]) /\ nxt[(d + i) + 1] = After(log[d + i], nxt[d + i])
        BY <2>5, <4>2 DEF Counted, n
      <4> QED BY <2>3, <2>8, <4>1, <4>3
    <3>4. ASSUME NEW i \in c .. n - d + 1, NEW j \in c .. n - d + 1, i <= j PROVE nx[i] <= nx[j]
      <4>1. d + i \in b .. n + 1 /\ d + j \in b .. n + 1 /\ d + i <= d + j
        BY <1>1, <2>2, <2>6, <2>7, <3>4
      <4>2. nxt[d + i] <= nxt[d + j]
        BY <2>5, <4>1 DEF Counted, n
      <4> QED BY <2>8, <4>2
    <3> QED BY <2>3, <3>1, <3>2, <3>3, <3>4 DEF Counted
  <2>10. c \in 1 .. Len(new) + 1 /\ nx \in [c .. Len(new) + 1 -> 0 .. MaxSequence]
    BY <2>3, <2>6, <2>8
  <2> QED BY <1>1, <2>1, <2>3, <2>9, <2>10 DEF Numbered
<1> QED BY <1>1, <1>2, <1>3

LEMMA GreatestIs ==
  ASSUME NEW N \in Nat, NEW S, S \subseteq 0 .. N, S # {}
  PROVE  Max(S) \in S /\ \A y \in S : y <= Max(S)
<1> DEFINE R == {N - x : x \in S}
<1>1. R \subseteq Nat /\ R # {}
  <2>1. \A x \in S : x \in 0 .. N /\ N - x \in Nat
    OBVIOUS
  <2>2. PICK x \in S : TRUE
    OBVIOUS
  <2>3. N - x \in R
    OBVIOUS
  <2> QED BY <2>1, <2>3
<1>2. IsWellFoundedOn(OpToRel(<, Nat), Nat)
  BY NatLessThanWellFounded
<1> HIDE DEF R
<1>3. PICK r \in R : \A y \in R : <<y, r>> \notin OpToRel(<, Nat)
  BY <1>1, <1>2, WFMin
<1>4. \A y \in R : ~ (y < r)
  BY <1>1, <1>3 DEF OpToRel
<1>5. PICK x \in S : r = N - x
  BY <1>3 DEF R
<1>6. \A y \in S : N - y \in R
  BY DEF R
<1>7. \A y \in S : x >= y
  BY <1>1, <1>4, <1>5, <1>6
<1>8. Max(S) \in S /\ \A y \in S : Max(S) >= y
  BY <1>5, <1>7 DEF Max
<1>9. \A y \in S : y \in 0 .. N
  OBVIOUS
<1> HIDE DEF Max
<1> QED BY <1>8, <1>9

LEMMA GreatestIsIt ==
  ASSUME NEW N \in Nat, NEW S, S \subseteq 0 .. N, NEW x \in S, \A y \in S : y <= x
  PROVE  Max(S) = x
<1>1. Max(S) \in S /\ \A y \in S : y <= Max(S)
  BY GreatestIs
<1>2. \A y \in S : y \in 0 .. N
  OBVIOUS
<1> DEFINE m == Max(S)
<1>3. m \in 0 .. N /\ x \in 0 .. N /\ m <= x /\ x <= m
  BY <1>1, <1>2
<1> HIDE DEF m
<1>4. m = x
  BY <1>3
<1> QED BY <1>4 DEF m

\* A manager that opens the log goes on with the number that was next.
LEMMA NumberedOpen ==
  ASSUME NEW log, NEW k, Numbered(log, k)
  PROVE  Numbered(log, OpenSequence(log))
<1> DEFINE n == Len(log)
           open == OpenSequence(log)
           seqs == {event_sequence(log[i]) : i \in 1 .. n} \ {NoSeq}
<1>1. log \in Seq(Lines) /\ k \in 0 .. MaxSequence /\ n \in Nat /\ MaxSequence \in Nat
  BY EventLogAssumption DEF Numbered
<1>2. \A i \in 1 .. n : log[i] \in Lines
  BY <1>1
<1>3. \A i \in 1 .. n : log[i].seq \in {NoSeq} \cup 0 .. MaxSequence
  BY <1>2 DEF Lines
<1>4. open = IF seqs = {} THEN 0 ELSE saturating_succ(Max(seqs))
  BY DEF OpenSequence
<1>5. seqs \subseteq 0 .. MaxSequence
  BY <1>3 DEF event_sequence
<1>6. \A i \in 1 .. n : log[i].seq # NoSeq => log[i].seq \in seqs
  BY DEF event_sequence
<1>7. \A x \in seqs : \E i \in 1 .. n : x = log[i].seq
  BY DEF event_sequence
<1> HIDE DEF seqs, open, n
<1>8. PICK b \in 1 .. n + 1 : \E nxt \in [b .. n + 1 -> 0 .. MaxSequence] : Counted(log, k, b, nxt)
  BY DEF Numbered, n
<1>9. PICK nxt \in [b .. n + 1 -> 0 .. MaxSequence] : Counted(log, k, b, nxt)
  BY <1>8
<1>10. /\ nxt[n + 1] = k
       /\ \A i \in 1 .. b - 1 : ~ log[i].whole /\ log[i].seq <= nxt[b]
       /\ \A i \in b .. n : Fits(log[i], nxt[i]) /\ nxt[i + 1] = After(log[i], nxt[i])
       /\ \A i, j \in b .. n + 1 : i <= j => nxt[i] <= nxt[j]
  BY <1>9 DEF Counted, n
<1> DEFINE hits == {i \in b .. n : log[i].seq = nxt[i]}
<1>11. CASE hits # {}
  <2>1. hits \subseteq 0 .. n
    BY <1>1
  <2>2. PICK h \in hits : \A i \in hits : i <= h
    BY <1>1, <1>11, <2>1, GreatestIs
  <2>3. h \in b .. n /\ h \in b .. n + 1 /\ h \in 1 .. n /\ h + 1 \in b .. n + 1 /\ log[h].seq = nxt[h] /\ nxt[h] \in 0 .. MaxSequence
    BY <1>1
  <2>4. nxt[h + 1] = saturating_succ(nxt[h])
    BY <1>10, <2>3 DEF After
  <2>5. \A i \in h + 1 .. n : i \in b .. n /\ i \in b .. n + 1 /\ i + 1 \in b .. n + 1 /\ log[i].seq # nxt[i]
    <3> SUFFICES ASSUME NEW i \in h + 1 .. n PROVE i \in b .. n /\ i \in b .. n + 1 /\ i + 1 \in b .. n + 1 /\ log[i].seq # nxt[i]
      OBVIOUS
    <3>1. i \in b .. n /\ i \in b .. n + 1 /\ i + 1 \in b .. n + 1 /\ ~ (i <= h)
      BY <1>1, <2>3
    <3>2. i \notin hits
      BY <2>2, <3>1
    <3>3. log[i].seq # nxt[i]
      BY <3>1, <3>2
    <3> QED BY <3>1, <3>3
  <2>6. \A i \in h + 1 .. n + 1 : nxt[i] = nxt[h + 1]
    <3> DEFINE T == {x \in 0 .. n - h : nxt[h + 1 + x] = nxt[h + 1]}
    <3>1. n - h \in Nat
      BY <1>1, <2>3
    <3>2. 0 \in T
      BY <1>1, <2>3
    <3>3. ASSUME NEW x \in 1 .. n - h, x - 1 \in T PROVE x \in T
      <4>1. h + x \in h + 1 .. n /\ h + 1 + (x - 1) = h + x /\ h + 1 + x = (h + x) + 1 /\ x \in 0 .. n - h
        BY <1>1, <2>3
      <4>2. h + x \in b .. n /\ log[h + x].seq # nxt[h + x]
        BY <2>5, <4>1
      <4>3. nxt[(h + x) + 1] = nxt[h + x]
        BY <1>10, <4>2 DEF After
      <4>4. nxt[h + x] = nxt[h + 1]
        BY <3>3, <4>1
      <4> QED BY <4>1, <4>3, <4>4
    <3>4. ASSUME NEW x \in 0 .. n - h PROVE x \in T
      <4>1. \A i \in 1 .. x : i \in 1 .. n - h
        BY <3>1
      <4>2. x \in Nat
        OBVIOUS
      <4> HIDE DEF T
      <4>3. \A i \in 1 .. x : i - 1 \in T => i \in T
        BY <3>3, <4>1
      <4> QED BY <3>2, <4>2, <4>3, Climb
    <3> SUFFICES ASSUME NEW i \in h + 1 .. n + 1 PROVE nxt[i] = nxt[h + 1]
      OBVIOUS
    <3>5. i - (h + 1) \in 0 .. n - h /\ h + 1 + (i - (h + 1)) = i
      BY <1>1, <2>3
    <3>6. i - (h + 1) \in T
      BY <3>4, <3>5
    <3> QED BY <3>5, <3>6
  <2>7. k = saturating_succ(nxt[h])
    <3>1. n + 1 \in h + 1 .. n + 1
      BY <1>1, <2>3
    <3> QED BY <1>10, <2>4, <2>6, <3>1
  <2>8. \A i \in 1 .. n : log[i].seq <= nxt[h]
    <3> SUFFICES ASSUME NEW i \in 1 .. n PROVE log[i].seq <= nxt[h]
      OBVIOUS
    <3>0. log[i].seq \in {NoSeq} \cup 0 .. MaxSequence /\ NoSeq = -1
      BY <1>3 DEF NoSeq
    <3>1. CASE i < b
      <4>1. i \in 1 .. b - 1 /\ b \in b .. n + 1 /\ b <= h /\ nxt[b] \in 0 .. MaxSequence
        BY <1>1, <2>3, <3>1
      <4>2. log[i].seq <= nxt[b] /\ nxt[b] <= nxt[h]
        BY <1>10, <2>3, <4>1
      <4> DEFINE x == log[i].seq
                 y == nxt[b]
                 z == nxt[h]
      <4>3. x \in {-1} \cup 0 .. MaxSequence /\ y \in 0 .. MaxSequence /\ z \in 0 .. MaxSequence /\ x <= y /\ y <= z
        BY <2>3, <3>0, <4>1, <4>2
      <4> HIDE DEF x, y, z
      <4>4. x <= z
        BY <1>1, <4>3
      <4> QED BY <4>4 DEF x, z
    <3>2. CASE i \in b .. h
      <4>1. i \in b .. n /\ i \in b .. n + 1 /\ nxt[i] \in 0 .. MaxSequence /\ i <= h
        BY <1>1, <2>3, <3>2
      <4>2. log[i].seq <= nxt[i] /\ nxt[i] <= nxt[h]
        BY <1>10, <2>3, <4>1 DEF Fits
      <4> DEFINE x == log[i].seq
                 y == nxt[i]
                 z == nxt[h]
      <4>3. x \in {-1} \cup 0 .. MaxSequence /\ y \in 0 .. MaxSequence /\ z \in 0 .. MaxSequence /\ x <= y /\ y <= z
        BY <2>3, <3>0, <4>1, <4>2
      <4> HIDE DEF x, y, z
      <4>4. x <= z
        BY <1>1, <4>3
      <4> QED BY <4>4 DEF x, z
    <3>3. CASE i > h
      <4>1. i \in h + 1 .. n /\ i \in h + 1 .. n + 1
        BY <1>1, <2>3, <3>3
      <4>2. i \in b .. n /\ log[i].seq # nxt[i] /\ nxt[i] = saturating_succ(nxt[h])
        BY <2>4, <2>5, <2>6, <4>1
      <4>3. log[i].seq <= nxt[i]
        BY <1>10, <4>2 DEF Fits
      <4> DEFINE t == saturating_succ(nxt[h])
      <4>4. t \in 0 .. MaxSequence /\ (nxt[h] = MaxSequence \/ t = nxt[h] + 1)
        BY <2>3, SuccIs
      <4> DEFINE x == log[i].seq
                 z == nxt[h]
      <4>5. x <= t /\ x # t /\ x \in {-1} \cup 0 .. MaxSequence /\ z \in 0 .. MaxSequence /\ (z = MaxSequence \/ t = z + 1)
        BY <2>3, <3>0, <4>2, <4>3, <4>4
      <4> HIDE DEF t, x, z
      <4>6. x <= z
        BY <1>1, <4>4, <4>5
      <4> QED BY <4>6 DEF x, z
    <3>4. i < b \/ i \in b .. h \/ i > h
      BY <1>1, <2>3
    <3> QED BY <3>1, <3>2, <3>3, <3>4
  <2>9. nxt[h] \in seqs
    <3>1. log[h].seq # NoSeq
      BY <1>1, <2>3 DEF NoSeq
    <3> QED BY <1>6, <2>3, <3>1
  <2>10. \A x \in seqs : x <= nxt[h]
    BY <1>7, <2>8
  <2>11. Max(seqs) = nxt[h]
    BY <1>1, <1>5, <2>9, <2>10, GreatestIsIt
  <2>12. open = k
    BY <1>4, <2>7, <2>9, <2>11
  <2> QED BY <2>12 DEF open
<1>12. CASE hits = {}
  <2>1. open \in 0 .. MaxSequence /\ \A i \in 1 .. n : log[i].seq <= open
    <3>1. CASE seqs = {}
      <4>1. open = 0 /\ \A i \in 1 .. n : log[i].seq = -1
        BY <1>4, <1>6, <3>1 DEF NoSeq
      <4> QED BY <1>1, <4>1
    <3>2. CASE seqs # {}
      <4> DEFINE m == Max(seqs)
      <4>1. m \in seqs /\ \A y \in seqs : y <= m
        BY <1>1, <1>5, <3>2, GreatestIs
      <4>2. open = saturating_succ(m)
        BY <1>4, <3>2
      <4> HIDE DEF m
      <4>3. m \in 0 .. MaxSequence
        BY <1>5, <4>1
      <4>4. open \in 0 .. MaxSequence /\ m <= open
        BY <4>2, <4>3, SuccIs
      <4>5. ASSUME NEW i \in 1 .. n PROVE log[i].seq <= open
        <5> DEFINE x == log[i].seq
        <5>1. x = -1 \/ (x <= m /\ x \in 0 .. MaxSequence)
          BY <1>3, <1>6, <4>1 DEF NoSeq
        <5> HIDE DEF x
        <5>2. x <= open
          BY <1>1, <4>3, <4>4, <5>1
        <5> QED BY <5>2 DEF x
      <4> QED BY <4>4, <4>5
    <3> QED BY <3>1, <3>2
  <2>2. \A i \in 1 .. n : ~ log[i].whole
    <3> SUFFICES ASSUME NEW i \in 1 .. n PROVE ~ log[i].whole
      OBVIOUS
    <3>1. CASE i < b
      <4>1. i \in 1 .. b - 1
        BY <1>1, <3>1
      <4> QED BY <1>10, <4>1
    <3>2. CASE i >= b
      <4>1. i \in b .. n
        BY <1>1, <3>2
      <4>2. log[i].seq # nxt[i]
        BY <1>12, <4>1
      <4> QED BY <1>10, <4>1, <4>2 DEF Fits
    <3> QED BY <1>1, <3>1, <3>2
  <2> DEFINE c == n + 1
             nx == [i \in c .. n + 1 |-> open]
  <2>3. nx \in [c .. n + 1 -> 0 .. MaxSequence] /\ nx[n + 1] = open /\ (\A i \in c .. n + 1 : nx[i] = open)
        /\ c \in 1 .. n + 1
    BY <1>1, <2>1
  <2> HIDE DEF nx
  <2>4. Counted(log, open, c, nx)
    <3>1. \A i \in 1 .. c - 1 : ~ log[i].whole /\ log[i].seq <= nx[c]
      BY <1>1, <2>1, <2>2, <2>3
    <3>2. c .. n = {}
      BY <1>1
    <3>3. \A i, j \in c .. n + 1 : i <= j => nx[i] <= nx[j]
      BY <1>1, <2>1, <2>3
    <3> HIDE DEF c
    <3> QED BY <2>3, <3>1, <3>2, <3>3 DEF Counted, n
  <2> QED BY <1>1, <2>1, <2>3, <2>4 DEF Numbered, open, n
<1> QED BY <1>11, <1>12

\* Whole lines are in order, and the next number is above theirs.
LEMMA NumberedOrder ==
  ASSUME NEW log, NEW k, Numbered(log, k)
  PROVE  NumberedInOrder(log, k)
<1> DEFINE n == Len(log)
           Before(x, y) == x < y \/ y = MaxSequence
<1>1. log \in Seq(Lines) /\ k \in 0 .. MaxSequence /\ n \in Nat /\ MaxSequence \in Nat
  BY EventLogAssumption DEF Numbered
<1>2. PICK b \in 1 .. n + 1 : \E nxt \in [b .. n + 1 -> 0 .. MaxSequence] : Counted(log, k, b, nxt)
  BY DEF Numbered
<1>3. PICK nxt \in [b .. n + 1 -> 0 .. MaxSequence] : Counted(log, k, b, nxt)
  BY <1>2
<1> HIDE DEF n
<1>4. /\ nxt[n + 1] = k
      /\ \A i \in 1 .. b - 1 : ~ log[i].whole /\ log[i].seq <= nxt[b]
      /\ \A i \in b .. n : Fits(log[i], nxt[i]) /\ nxt[i + 1] = After(log[i], nxt[i])
      /\ \A i, j \in b .. n + 1 : i <= j => nxt[i] <= nxt[j]
  BY <1>3 DEF Counted, n
<1>5. ASSUME NEW i \in 1 .. n, log[i].whole, NEW j \in i + 1 .. n + 1
      PROVE  i \in b .. n /\ log[i].seq = nxt[i] /\ Before(log[i].seq, nxt[j])
  <2>1. i \in b .. n
    <3>1. i \notin 1 .. b - 1
      BY <1>4, <1>5
    <3> QED BY <1>1, <3>1
  <2>2. log[i].seq = nxt[i] /\ nxt[i + 1] = saturating_succ(nxt[i])
    BY <1>4, <1>5, <2>1 DEF Fits, After
  <2>3. i + 1 \in b .. n + 1 /\ j \in b .. n + 1 /\ i + 1 <= j /\ i \in b .. n + 1
    BY <1>1, <2>1
  <2> DEFINE s == saturating_succ(nxt[i])
  <2>4. s <= nxt[j]
    BY <1>4, <2>2, <2>3
  <2>5. s \in 0 .. MaxSequence /\ (nxt[i] = MaxSequence \/ s = nxt[i] + 1) /\ nxt[i] <= s
    BY <2>3, SuccIs
  <2>6. nxt[i] \in 0 .. MaxSequence /\ nxt[j] \in 0 .. MaxSequence
    BY <2>3
  <2> HIDE DEF s
  <2>7. nxt[i] < nxt[j] \/ nxt[j] = MaxSequence
    BY <1>1, <2>4, <2>5, <2>6
  <2> QED BY <2>1, <2>2, <2>7
<1>6. ASSUME NEW i \in 1 .. n, log[i].whole PROVE Before(log[i].seq, k)
  <2>1. n + 1 \in i + 1 .. n + 1
    BY <1>1
  <2> QED BY <1>4, <1>5, <1>6, <2>1
<1>7. ASSUME NEW i \in 1 .. n, NEW j \in 1 .. n, log[i].whole, log[j].whole, i < j
      PROVE  Before(log[i].seq, log[j].seq)
  <2>1. j \in i + 1 .. n + 1 /\ n + 1 \in j + 1 .. n + 1
    BY <1>1, <1>7
  <2>2. log[j].seq = nxt[j]
    BY <1>5, <1>7, <2>1
  <2> QED BY <1>5, <1>7, <2>1, <2>2
<1> QED BY <1>6, <1>7 DEF NumberedInOrder, n

-----------------------------------------------------------------------------
\* What an earlier manager left when it ended by itself is numbered.
LEMMA NumberedLeft ==
  ASSUME NEW log, LeftLog(log)
  PROVE  \E k \in 0 .. MaxSequence : Numbered(log, k)
<1> DEFINE n == Len(log)
           k == IF n = 0 THEN 0 ELSE saturating_succ(log[n].seq)
           nxt == [i \in 1 .. n + 1 |-> IF i = n + 1 THEN k ELSE log[i].seq]
<1>1. MaxSequence \in Nat /\ n \in Nat /\ log \in Seq([seq : 0 .. MaxSequence, whole : {TRUE}])
  BY EventLogAssumption DEF LeftLog
<1>2. \A i \in 1 .. n : log[i] \in [seq : 0 .. MaxSequence, whole : {TRUE}]
  BY <1>1, ElementOfSeq
<1>3. \A i \in 1 .. n : log[i].seq \in 0 .. MaxSequence /\ log[i].whole = TRUE /\ log[i] \in Lines
  BY <1>2 DEF Lines
<1>4. log \in Seq(Lines)
  <2>1. log \in [1 .. n -> Lines]
    BY <1>1, <1>3
  <2> QED BY <1>1, <2>1, SeqDef
<1>5. k \in 0 .. MaxSequence
  <2>1. CASE n = 0
    BY <1>1, <2>1
  <2>2. CASE n # 0
    <3>1. n \in 1 .. n
      BY <1>1, <2>2
    <3> QED BY <1>3, <2>2, <3>1, SuccIs
  <2> QED BY <2>1, <2>2
<1>6. n # 0 => k = saturating_succ(log[n].seq)
  OBVIOUS
<1> HIDE DEF k, n
<1>7. /\ nxt \in [1 .. n + 1 -> 0 .. MaxSequence] /\ nxt[n + 1] = k
      /\ \A i \in 1 .. n : nxt[i] = log[i].seq
  BY <1>1, <1>3, <1>5
<1> HIDE DEF nxt
<1>8. \A i \in 1 .. n : nxt[i + 1] = saturating_succ(nxt[i]) /\ nxt[i + 1] = After(log[i], nxt[i]) /\ Fits(log[i], nxt[i])
  <2> SUFFICES ASSUME NEW i \in 1 .. n
               PROVE  nxt[i + 1] = saturating_succ(nxt[i]) /\ nxt[i + 1] = After(log[i], nxt[i]) /\ Fits(log[i], nxt[i])
    OBVIOUS
  <2>1. nxt[i] = log[i].seq /\ log[i].seq \in 0 .. MaxSequence
    BY <1>3, <1>7
  <2>2. nxt[i + 1] = saturating_succ(log[i].seq)
    <3>1. CASE i = n
      BY <1>1, <1>6, <1>7, <3>1
    <3>2. CASE i < n
      <4>1. i + 1 \in 2 .. n /\ i + 1 \in 1 .. n /\ (i + 1) - 1 = i
        BY <1>1, <3>2
      <4>2. log[i + 1].seq = saturating_succ(log[(i + 1) - 1].seq)
        BY <4>1 DEF LeftLog, n
      <4> QED BY <1>7, <4>1, <4>2
    <3> QED BY <1>1, <3>1, <3>2
  <2> DEFINE x == log[i].seq
  <2>3. nxt[i] <= nxt[i] /\ log[i].seq <= nxt[i]
    <3>1. x \in 0 .. MaxSequence /\ nxt[i] = x
      BY <2>1
    <3> HIDE DEF x
    <3>2. x <= x
      BY <1>1, <3>1
    <3> QED BY <3>1, <3>2 DEF x
  <2> QED BY <2>1, <2>2, <2>3 DEF After, Fits
<1>9. ASSUME NEW i \in 1 .. n + 1, NEW j \in 1 .. n + 1, i <= j PROVE nxt[i] <= nxt[j]
  <2> DEFINE T == {x \in 0 .. j - i : nxt[i] <= nxt[i + x]}
  <2>1. j - i \in Nat /\ nxt[i] \in 0 .. MaxSequence
    BY <1>1, <1>7, <1>9
  <2>2. 0 \in T
    BY <1>1, <2>1
  <2>3. ASSUME NEW x \in 1 .. j - i, x - 1 \in T PROVE x \in T
    <3>1. i + (x - 1) \in 1 .. n /\ i + x = (i + (x - 1)) + 1 /\ i + (x - 1) \in 1 .. n + 1 /\ i + x \in 1 .. n + 1 /\ x \in 0 .. j - i
      BY <1>1, <1>9
    <3>2. nxt[i + x] = saturating_succ(nxt[i + (x - 1)])
      BY <1>8, <3>1
    <3> DEFINE p == nxt[i + (x - 1)]
               s == saturating_succ(p)
    <3>3. p \in 0 .. MaxSequence /\ nxt[i] <= p
      BY <1>7, <2>3, <3>1
    <3> HIDE DEF p
    <3>4. s \in 0 .. MaxSequence /\ p <= s
      BY <3>3, SuccIs
    <3> HIDE DEF s
    <3>5. nxt[i] <= s
      BY <1>1, <2>1, <3>3, <3>4
    <3>6. nxt[i + x] = s
      BY <3>2 DEF s, p
    <3> QED BY <3>1, <3>5, <3>6
  <2>4. j - i \in T
    <3> HIDE DEF T
    <3> QED BY <2>1, <2>2, <2>3, Climb
  <2>5. i + (j - i) = j
    BY <1>1
  <2> QED BY <2>4, <2>5
<1>10. Counted(log, k, 1, nxt)
  <2>1. 1 .. 1 - 1 = {}
    OBVIOUS
  <2> QED BY <1>7, <1>8, <1>9, <2>1 DEF Counted, n
<1>11. 1 \in 1 .. n + 1
  BY <1>1
<1> QED BY <1>4, <1>5, <1>7, <1>10, <1>11 DEF Numbered, n

(***************************************************************************)
(* The log under the steps of the system: it is numbered also while        *)
(* nobody writes it, and a manager that writes it has the next number.     *)
(***************************************************************************)
LogInv ==
  /\ mgr.seq \in 0 .. MaxSequence
  /\ \E k \in 0 .. MaxSequence : Numbered(disk.log, k)
  /\ mgr.pc \notin {"down", "load"} => Numbered(disk.log, mgr.seq)

LEMMA LogStays ==
  ASSUME LogInv, disk'.log = disk.log, mgr'.seq = mgr.seq,
         mgr'.pc \notin {"down", "load"} => mgr.pc \notin {"down", "load"}
  PROVE  LogInv'
BY DEF LogInv

LEMMA LogCloses ==
  ASSUME LogInv, disk'.log = disk.log, mgr'.seq = 0, mgr'.pc \in {"down", "load"}
  PROVE  LogInv'
BY EventLogAssumption DEF LogInv

\* Half a line fits: what is left of its number is not above it.
LEMMA TornFits ==
  ASSUME NEW k \in 0 .. MaxSequence, NEW line \in TornLines(k)
  PROVE  line \in Lines /\ Fits(line, k)
<1>1. MaxSequence \in Nat /\ Base \in Nat /\ Base >= 2
  BY EventLogAssumption
<1>2. PICK p \in {NoSeq, k} \cup (IF k >= Base THEN {k \div Base} ELSE {}) : line = [seq |-> p, whole |-> FALSE]
  BY DEF TornLines
<1>3. p \in {NoSeq} \cup 0 .. MaxSequence /\ p <= k
  <2> DEFINE d == k \div Base
  <2>1. d \in Nat /\ d <= k
    <3>1. k = (Base * d) + (k % Base) /\ k % Base \in 0 .. Base - 1 /\ d \in Int
      BY <1>1
    <3> DEFINE r == k % Base
    <3> HIDE DEF r, d
    <3>2. ASSUME NEW x \in Int, NEW y \in 0 .. Base - 1, k = (Base * x) + y PROVE x >= 0
      <4>1. CASE x <= -1
        <5>1. Base * x <= Base * (-1)
          BY <1>1, <4>1
        <5> QED BY <1>1, <3>2, <5>1
      <4> QED BY <4>1
    <3>3. ASSUME NEW x \in Nat, NEW y \in 0 .. Base - 1, k = (Base * x) + y PROVE x <= k
      <4>1. x * 1 <= x * Base
        BY <1>1
      <4> QED BY <1>1, <3>3, <4>1
    <3>4. r \in 0 .. Base - 1 /\ k = (Base * d) + r
      BY <3>1 DEF r
    <3> QED BY <3>1, <3>2, <3>3, <3>4
  <2> HIDE DEF d
  <2>2. p \in {NoSeq, k, d}
    BY <1>2 DEF d
  <2> QED BY <1>1, <2>1, <2>2 DEF NoSeq
<1>4. line \in Lines
  BY <1>2, <1>3 DEF Lines
<1> QED BY <1>2, <1>3, <1>4 DEF Fits

LEMMA EndLog ==
  ASSUME LogInv, DiskInv, NEW why, EndProcess(why)
  PROVE  LogInv'
<1>1. DOMAIN NoManager(why) = ManagerFields /\ NoManager(why).pc = "down" /\ NoManager(why).seq = 0
  BY NoManagerIs DEF NoManager
<1> DEFINE n == NoManager(why)
<1> HIDE DEF n
<1>2. mgr' = [n EXCEPT !.power = IF why = "stopped" THEN mgr.action ELSE "none"]
      /\ disk' = [disk EXCEPT !.pid = FALSE]
  BY DEF EndProcess, n
<1>3. mgr'.pc = "down" /\ mgr'.seq = 0
  BY <1>1, <1>2 DEF n, ManagerFields
<1>4. disk'.log = disk.log
  BY <1>2 DEF DiskInv, DiskFields
<1> QED BY <1>3, <1>4, LogCloses

LEMMA StepLog ==
  ASSUME EndIInv, DiskInv, LogInv, NamedInv, TableInv, Step
  PROVE  LogInv'
<1> DEFINE SeqKept == mgr'.seq = mgr.seq /\ (mgr'.pc \notin {"down", "load"} => mgr.pc \notin {"down", "load"})
           Kept == SeqKept /\ disk'.log = disk.log
<1>0. DOMAIN mgr = ManagerFields /\ DOMAIN disk = DiskFields
  BY DEF EndIInv, ShapeInv, DiskInv
<1>1. ASSUME Load PROVE LogInv'
  <2>1. CASE EndProcess("refused")
    BY <2>1, EndLog
  <2>2. CASE ~ EndProcess("refused")
    <3>1. disk' = [disk EXCEPT !.log = compact_if_needed(@, MaxEvents)]
          /\ mgr' = [mgr EXCEPT !.pc = "observe", !.then = "bring", !.seq = OpenSequence(disk.log)]
      BY <1>1, <2>2 DEF Load
    <3>2. disk'.log = compact_if_needed(disk.log, MaxEvents) /\ mgr'.seq = OpenSequence(disk.log)
      BY <1>0, <3>1 DEF ManagerFields, DiskFields
    <3>3. PICK k \in 0 .. MaxSequence : Numbered(disk.log, k)
      BY DEF LogInv
    <3>4. Numbered(disk'.log, mgr'.seq)
      BY <3>2, <3>3, NumberedOpen, NumberedCompact
    <3> QED BY <3>4 DEF LogInv, Numbered
  <2> QED BY <2>1, <2>2
<1>2. ASSUME ObserveOne PROVE LogInv'
  <2>1. mgr.pc = "observe" /\ disk' = [disk EXCEPT !.log = append(@, WholeLine(mgr.seq))]
        /\ mgr'.seq = saturating_succ(mgr.seq)
    BY <1>0, <1>2 DEF ObserveOne, ManagerFields
  <2>2. disk'.log = Append(disk.log, WholeLine(mgr.seq))
    BY <1>0, <2>1 DEF append, DiskFields
  <2>3. Numbered(disk.log, mgr.seq) /\ mgr.seq \in 0 .. MaxSequence
    BY <2>1 DEF LogInv
  <2>4. /\ WholeLine(mgr.seq) \in Lines /\ Fits(WholeLine(mgr.seq), mgr.seq)
        /\ After(WholeLine(mgr.seq), mgr.seq) = saturating_succ(mgr.seq)
    BY <2>3, EventLogAssumption DEF WholeLine, Lines, Fits, After
  <2>5. Numbered(Append(disk.log, WholeLine(mgr.seq)), After(WholeLine(mgr.seq), mgr.seq))
    BY <2>3, <2>4, NumberedAppend
  <2>6. Numbered(disk'.log, mgr'.seq)
    BY <2>1, <2>2, <2>4, <2>5
  <2> QED BY <2>6 DEF LogInv, Numbered
<1>3. ASSUME ObserveEnd PROVE LogInv'
  <2>1. mgr.pc = "observe" /\ disk' = [disk EXCEPT !.log = compact_if_needed(@, MaxEvents)]
        /\ mgr'.seq = mgr.seq
    BY <1>0, <1>3 DEF ObserveEnd, ManagerFields
  <2>2. disk'.log = compact_if_needed(disk.log, MaxEvents) /\ Numbered(disk.log, mgr.seq)
    BY <1>0, <2>1 DEF LogInv, DiskFields
  <2>3. Numbered(disk'.log, mgr'.seq)
    BY <2>1, <2>2, NumberedCompact
  <2> QED BY <2>3 DEF LogInv, Numbered
<1>4. Bring \/ Turn \/ open_event_subscription \/ ReloadWait \/ ReloadApply \/ Drain \/ bind_listener => Kept
  <2>1. Bring => Kept
    BY <1>0 DEF Bring, ManagerFields
  <2>2. bind_listener => Kept
    BY <1>0 DEF bind_listener, ManagerFields, DiskFields
  <2>3. Turn => Kept
    BY <1>0 DEF Turn, ManagerFields
  <2>4. open_event_subscription => Kept
    BY <1>0 DEF open_event_subscription, Subscribe, ManagerFields
  <2>5. ReloadWait => Kept
    BY <1>0 DEF ReloadWait, ManagerFields
  <2>6. ReloadApply => Kept
    BY <1>0 DEF ReloadApply, ManagerFields
  <2>7. Drain => Kept
    BY <1>0 DEF Drain, ManagerFields
  <2> QED BY <2>1, <2>2, <2>3, <2>4, <2>5, <2>6, <2>7
<1>5. ASSUME Idle PROVE LogInv'
  <2>1. EndProcess("pid file") \/ Kept
    BY <1>0, <1>5 DEF Idle, LoopEnd, ManagerFields
  <2> QED BY <2>1, EndLog, LogStays
<1>6. ASSUME Accept PROVE LogInv'
  <2> DEFINE c == mgr.backlog[1]
             q == request_parse(cli[c].line)
             m == [mgr EXCEPT !.pc = "answer", !.backlog = Tail(@), !.client = <<c>>, !.then = "turn"]
             w == Canonical(q.arg[1])
  <2>1. PICK e \in Handled(m, q) : mgr' = e.m
    BY <1>6 DEF Accept, Serve
  <2>2. DOMAIN m = ManagerFields /\ m.seq = mgr.seq /\ mgr.pc = "accept"
    BY <1>0, <1>6 DEF Accept, ManagerFields
  <2>3. disk' \in {disk, enable(disk, w), disable(disk, w)}
    BY <1>6 DEF Accept, Serve, Marked
  <2> HIDE DEF m, q, w
  <2>4. HandledFrom(m, e)
    BY <2>1, <2>2, HandledKeeps
  <2>5. mgr'.seq = mgr.seq
    BY <2>1, <2>2, <2>4 DEF HandledFrom, HandlerFields, ManagerFields
  <2>6. disk'.log = disk.log
    BY <1>0, <2>3 DEF enable, disable, DiskFields
  <2> QED BY <2>2, <2>5, <2>6, LogStays
<1>7. ASSUME Answer PROVE LogInv'
  <2> DEFINE m == [mgr EXCEPT !.client = << >>, !.resp = Down]
             drain == [m EXCEPT !.pc = "observe", !.loud = TRUE, !.waits = 0]
             turn == [m EXCEPT !.pc = "turn"]
             end == NoManager("pid file")
  <2>1. drain.seq = mgr.seq /\ turn.seq = mgr.seq /\ end.seq = 0 /\ end.pc = "down"
    BY <1>0 DEF ManagerFields, NoManager
  <2>2. EndProcess("answer lost") \/ (mgr' \in {drain, turn, end} /\ disk' = disk)
    BY <1>7 DEF Answer
  <2>3. mgr.pc = "answer"
    BY <1>7 DEF Answer
  <2> HIDE DEF drain, turn, end
  <2> QED BY <2>1, <2>2, <2>3, EndLog, LogStays, LogCloses
<1>8. Drained \/ Late => LogInv'
  BY EndLog DEF Drained, Late
<1> QED BY <1>1, <1>2, <1>3, <1>4, <1>5, <1>6, <1>7, <1>8, LogStays DEF Step

LEMMA NextLog ==
  ASSUME EndIInv, NamedInv, MixInv, TableInv, DiskInv, LogInv, [Next]_vars
  PROVE  LogInv'
<1>0. ShapeInv /\ DOMAIN mgr = ManagerFields /\ DOMAIN disk = DiskFields
  BY DEF EndIInv, ShapeInv, DiskInv
<1> DEFINE up == [NoManager("none") EXCEPT !.pc = "load"]
           end == NoManager("killed")
<1>1. up.pc = "load" /\ up.seq = 0 /\ end.pc = "down" /\ end.seq = 0
  BY DEF NoManager
<1> HIDE DEF up, end
<1>2. CASE Step
  BY <1>2, StepLog
<1>3. CASE Crash
  <2>1. mgr' = end /\ mgr.pc # "down"
    BY <1>3 DEF Crash, end
  <2>2. CASE disk' = disk
    BY <1>1, <2>1, <2>2, LogCloses
  <2>3. ASSUME mgr.pc = "observe", NEW line \in TornLines(mgr.seq), disk' = [disk EXCEPT !.log = append(@, line)]
        PROVE  LogInv'
    <3>1. disk'.log = Append(disk.log, line)
      BY <1>0, <2>3 DEF append, DiskFields
    <3>2. Numbered(disk.log, mgr.seq) /\ mgr.seq \in 0 .. MaxSequence
      BY <2>3 DEF LogInv
    <3>3. line \in Lines /\ Fits(line, mgr.seq)
      BY <2>3, <3>2, TornFits
    <3>4. Numbered(disk'.log, After(line, mgr.seq)) /\ After(line, mgr.seq) \in 0 .. MaxSequence
      BY <3>1, <3>2, <3>3, NumberedAppend, AfterIs
    <3> QED BY <1>1, <2>1, <3>4, EventLogAssumption DEF LogInv
  <2> QED BY <1>3, <2>2, <2>3 DEF Crash
<1>4. CASE Boot
  BY <1>1, <1>4, LogCloses DEF Boot, up
<1>5. CASE Signal
  <2>1. mgr'.seq = mgr.seq /\ mgr'.pc = mgr.pc /\ disk' = disk
    BY <1>0, <1>5 DEF Signal, ManagerFields
  <2> QED BY <2>1, LogStays
<1>6. CASE Edit
  <2>1. mgr' = mgr
    BY <1>6 DEF Edit
  <2>2. disk'.log = disk.log
    BY <1>0, <1>6 DEF Edit, DiskFields
  <2> QED BY <2>1, <2>2, LogStays
<1>7. ASSUME NEW c \in Clients, run(c) PROVE LogInv'
  <2>1. UserStep(c) \/ Launches(c) \/ Kills(c) \/ Lifts(c)
    BY <1>0, <1>7, CommandMoves
  <2>2. MaskStep(c)
    BY <1>0, <1>7, CommandMasks DEF MaskStep
  <2>3. disk'.log = disk.log
    BY <1>0, <2>2 DEF MaskStep, Plainly, Marks, Seals, Clears, enable, disable, mask, unmask, DiskFields
  <2>4. CASE UserStep(c)
    <3>1. mgr'.seq = mgr.seq /\ mgr'.pc = mgr.pc
      BY <1>0, <2>4 DEF UserStep, Keeps, ManagerFields
    <3> QED BY <2>3, <3>1, LogStays
  <2>5. CASE Launches(c)
    BY <1>1, <2>3, <2>5, LogCloses DEF Launches, up
  <2>6. CASE Kills(c)
    BY <1>1, <2>3, <2>6, LogCloses DEF Kills, end
  <2>7. CASE Lifts(c)
    BY <2>3, <2>7, LogStays DEF Lifts
  <2> QED BY <2>1, <2>4, <2>5, <2>6, <2>7
<1>8. ASSUME NEW c \in Clients, Begin(c) \/ Interrupt(c) PROVE LogInv'
  BY <1>8, LogStays DEF Begin, Interrupt
<1>9. CASE UNCHANGED vars
  BY <1>9, LogStays DEF vars
<1> QED BY <1>2, <1>3, <1>4, <1>5, <1>6, <1>7, <1>8, <1>9 DEF Next

-----------------------------------------------------------------------------
(***************************************************************************)
(* The places of the manager and of its connections.                       *)
(***************************************************************************)
ManagerPlaces ==
  {"down", "load", "bring", "bind", "turn", "observe", "accept", "answer", "wait", "drain", "late"}
ConnPlaces == {"none", "queued", "taken", "answered", "following", "gone"}

PlacesInv == mgr.pc \in ManagerPlaces /\ \A c \in Clients : cli[c].conn \in ConnPlaces

LEMMA StepPlaces ==
  ASSUME EndIInv, PlacesInv, Step
  PROVE  mgr'.pc \in ManagerPlaces
<1>0. DOMAIN mgr = ManagerFields
  BY DEF EndIInv, ShapeInv
<1>1. ASSUME NEW why, EndProcess(why) PROVE mgr'.pc \in ManagerPlaces
  BY <1>1, NoManagerIs DEF EndProcess, ManagerFields, ManagerPlaces
<1>2. Load \/ Idle \/ Drained \/ Late => mgr'.pc \in ManagerPlaces
  <2>1. Load => EndProcess("refused") \/ mgr'.pc = "observe"
    BY <1>0 DEF Load, ManagerFields
  <2>2. Idle => EndProcess("pid file") \/ mgr'.pc = "turn"
    BY <1>0 DEF Idle, LoopEnd, ManagerFields
  <2> QED BY <1>1, <2>1, <2>2 DEF Drained, Late, ManagerPlaces
<1>3. Bring \/ bind_listener \/ Turn \/ ObserveOne \/ open_event_subscription \/ Drain => mgr'.pc \in {"observe", "turn"}
  <2>1. Bring => mgr'.pc = "observe"
    BY <1>0 DEF Bring, ManagerFields
  <2>2. bind_listener => mgr'.pc = "turn"
    BY <1>0 DEF bind_listener, ManagerFields
  <2>3. Turn => mgr'.pc = "observe"
    BY <1>0 DEF Turn, ManagerFields
  <2>4. ObserveOne => mgr'.pc = "observe"
    BY <1>0 DEF ObserveOne, ManagerFields
  <2>5. open_event_subscription => mgr'.pc = "turn"
    BY <1>0 DEF open_event_subscription, Subscribe, ManagerFields
  <2>6. Drain => mgr'.pc = "observe"
    BY <1>0 DEF Drain, ManagerFields
  <2> QED BY <2>1, <2>2, <2>3, <2>4, <2>5, <2>6
<1>4. ASSUME ObserveEnd PROVE mgr'.pc \in ManagerPlaces
  <2>1. mgr'.pc = mgr.then /\ mgr.pc = "observe"
    BY <1>0, <1>4 DEF ObserveEnd, ManagerFields
  <2> QED BY <2>1 DEF EndIInv, RunningInv, ManagerPlaces
<1>5. ASSUME Accept PROVE mgr'.pc \in ManagerPlaces
  <2> DEFINE c == mgr.backlog[1]
             q == request_parse(cli[c].line)
             m == [mgr EXCEPT !.pc = "answer", !.backlog = Tail(@), !.client = <<c>>, !.then = "turn"]
  <2>1. PICK e \in Handled(m, q) : mgr' = e.m
    BY <1>5 DEF Accept, Serve
  <2>2. DOMAIN m = ManagerFields /\ m.pc = "answer"
    BY <1>0 DEF ManagerFields
  <2> HIDE DEF m, q
  <2> QED BY <2>1, <2>2, HandledKeeps DEF HandledFrom, ManagerPlaces
<1>6. ASSUME Answer PROVE mgr'.pc \in ManagerPlaces
  <2> DEFINE m == [mgr EXCEPT !.client = << >>, !.resp = Down]
             drain == [m EXCEPT !.pc = "observe", !.loud = TRUE, !.waits = 0]
             turn == [m EXCEPT !.pc = "turn"]
             end == NoManager("pid file")
  <2>1. drain.pc = "observe" /\ turn.pc = "turn" /\ end.pc = "down"
    BY <1>0 DEF ManagerFields, NoManager
  <2>2. EndProcess("answer lost") \/ mgr' \in {drain, turn, end}
    BY <1>6 DEF Answer
  <2> HIDE DEF drain, turn, end
  <2> QED BY <1>1, <2>1, <2>2 DEF ManagerPlaces
<1>7. ReloadWait \/ ReloadApply => mgr'.pc \in {"wait", "answer"}
  <2>1. ReloadWait => mgr'.pc \in {"wait", "answer"}
    BY <1>0 DEF ReloadWait, ManagerFields
  <2>2. ReloadApply => mgr'.pc = "answer"
    BY <1>0 DEF ReloadApply, ManagerFields
  <2> QED BY <2>1, <2>2
<1> QED BY <1>2, <1>3, <1>4, <1>5, <1>6, <1>7 DEF Step, ManagerPlaces

LEMMA StepConns ==
  ASSUME EndIInv, PlacesInv, Step \/ Crash \/ Boot \/ Signal \/ Edit, NEW c \in Clients
  PROVE  cli'[c].conn \in ConnPlaces
<1>0. ShapeInv /\ DOMAIN mgr = ManagerFields /\ cli[c].conn \in ConnPlaces
  BY DEF EndIInv, ShapeInv, PlacesInv
<1>1. Disconnected[c].conn \in ConnPlaces
  BY <1>0, DisconnectedIs DEF ConnPlaces
<1>2. cli' = cli \/ cli' = Disconnected => cli'[c].conn \in ConnPlaces
  BY <1>0, <1>1
<1>3. ASSUME NEW d \in Clients, NEW conn \in ConnPlaces \cup {cli[d].conn}, cli' = [cli EXCEPT ![d].conn = conn]
      PROVE  cli'[c].conn \in ConnPlaces
  BY <1>0, <1>3 DEF ShapeInv, UserFields, PlacesInv
<1>4. ASSUME Accept PROVE cli'[c].conn \in ConnPlaces
  <2>1. mgr.backlog[1] \in Clients
    BY <1>4, QueueMoves DEF Accept
  <2>2. cli' = [cli EXCEPT ![mgr.backlog[1]].conn = IF @ = "queued" THEN "taken" ELSE @]
    BY <1>4 DEF Accept, Serve
  <2> QED BY <1>0, <2>1, <2>2 DEF ShapeInv, UserFields, ConnPlaces
<1>5. ASSUME open_event_subscription PROVE cli'[c].conn \in ConnPlaces
  <2>1. mgr.backlog[1] \in Clients
    BY <1>5, QueueMoves DEF open_event_subscription
  <2> DEFINE gone == cli[mgr.backlog[1]].conn # "queued"
  <2>2. cli' = [cli EXCEPT ![mgr.backlog[1]].conn = IF gone THEN @ ELSE "following"]
    BY <1>5 DEF open_event_subscription, Subscribe
  <2> HIDE DEF gone
  <2> QED BY <1>0, <2>1, <2>2 DEF ShapeInv, UserFields, ConnPlaces
<1>6. ASSUME ObserveEnd PROVE cli'[c].conn \in ConnPlaces
  <2>1. cli'[c] \in {[cli[c] EXCEPT !.conn = "answered", !.ans = Down], cli[c]}
    BY <1>6 DEF ObserveEnd
  <2> QED BY <1>0, <2>1 DEF ShapeInv, UserFields, ConnPlaces
<1>7. ASSUME Answer PROVE cli'[c].conn \in ConnPlaces
  <2> DEFINE d == mgr.client[1]
             says == response_parse(response_as_line(mgr.resp))
             told == [cli EXCEPT ![d].conn = "answered", ![d].ans = says]
  <2>1. d \in Clients /\ mgr.pc = "answer"
    BY <1>7 DEF Answer, EndIInv, QueueInv
  <2>2. \/ cli' = Disconnected \/ cli' = told
        \/ cli' = [e \in Clients |-> IF e = d THEN told[d] ELSE Disconnected[e]]
    BY <1>7 DEF Answer, EndProcess
  <2>3. told[d].conn = "answered" /\ (c # d => told[c] = cli[c])
    BY <1>0, <2>1 DEF ShapeInv, UserFields
  <2> HIDE DEF told, says
  <2> QED BY <1>0, <1>1, <2>1, <2>2, <2>3 DEF ConnPlaces
<1>8. Load \/ Idle \/ Drained \/ Late => cli'[c].conn \in ConnPlaces
  BY <1>2 DEF Load, Idle, LoopEnd, Drained, Late, EndProcess
<1>9. Bring \/ bind_listener \/ Turn \/ ObserveOne \/ ReloadWait \/ ReloadApply \/ Drain => cli'[c].conn \in ConnPlaces
  BY <1>2 DEF Bring, bind_listener, Turn, ObserveOne, ReloadWait, ReloadApply, Drain
<1>10. Crash \/ Boot \/ Signal \/ Edit => cli'[c].conn \in ConnPlaces
  BY <1>2 DEF Crash, Boot, Signal, Edit
<1> QED BY <1>4, <1>5, <1>6, <1>7, <1>8, <1>9, <1>10 DEF Step

LEMMA NextPlaces ==
  ASSUME EndIInv, PlacesInv, [Next]_vars
  PROVE  PlacesInv'
<1>0. ShapeInv /\ DOMAIN mgr = ManagerFields
  BY DEF EndIInv, ShapeInv
<1>1. CASE Step \/ Crash \/ Boot \/ Signal \/ Edit
  <2>1. \A c \in Clients : cli'[c].conn \in ConnPlaces
    BY <1>1, StepConns
  <2>2. Crash \/ Boot => mgr'.pc \in {"down", "load"}
    BY NoManagerIs DEF Crash, Boot, ManagerFields
  <2>3. Signal \/ Edit => mgr'.pc = mgr.pc
    BY <1>0 DEF Signal, Edit, ManagerFields
  <2>4. mgr'.pc \in ManagerPlaces
    BY <1>1, <2>2, <2>3, StepPlaces DEF PlacesInv, ManagerPlaces
  <2> QED BY <2>1, <2>4 DEF PlacesInv
<1>2. ASSUME NEW c \in Clients, run(c) PROVE PlacesInv'
  <2>1. UserStep(c) \/ Launches(c) \/ Kills(c) \/ Lifts(c)
    BY <1>0, <1>2, CommandMoves
  <2>2. CASE UserStep(c)
    <3>1. mgr'.pc = mgr.pc
      BY <1>0, <2>2 DEF UserStep, Keeps, ManagerFields
    <3> QED BY <2>2, <3>1 DEF UserStep, OnlyUser, PlacesInv, ConnPlaces
  <2>3. CASE Launches(c)
    <3>1. mgr'.pc = "load"
      BY <2>3, NoManagerIs DEF Launches, ManagerFields
    <3> QED BY <2>3, <3>1 DEF Launches, OnlyUser, PlacesInv, ConnPlaces, ManagerPlaces
  <2>4. CASE Kills(c)
    <3>1. mgr'.pc = "down"
      BY <2>4, NoManagerIs DEF Kills
    <3>2. \A d \in Clients : cli'[d] = NoUser \/ cli'[d] = Disconnected[d]
      BY <2>4 DEF Kills, Disconnected
    <3>3. NoUser.conn = "none" /\ \A d \in Clients : Disconnected[d].conn \in {cli[d].conn, "answered"}
      BY <1>0, DisconnectedIs DEF NoUser
    <3> QED BY <3>1, <3>2, <3>3 DEF PlacesInv, ConnPlaces, ManagerPlaces
  <2>5. CASE Lifts(c)
    <3>1. \A d \in Clients : cli'[d].conn = cli[d].conn
      BY <2>5 DEF Lifts, UserFields
    <3> QED BY <2>5, <3>1 DEF Lifts, PlacesInv
  <2> QED BY <2>1, <2>2, <2>3, <2>4, <2>5
<1>3. ASSUME NEW c \in Clients, Begin(c) PROVE PlacesInv'
  <2>1. PICK i \in DOMAIN mix.commands :
          cli' = [cli EXCEPT ![c] = [NoUser EXCEPT !.cmd = mix.commands[i].cmd, !.arg = mix.commands[i].arg,
                                                   !.ret = mix.commands[i].req, !.held = mix.commands[i].now]]
    BY <1>3 DEF Begin
  <2> DEFINE k == [NoUser EXCEPT !.cmd = mix.commands[i].cmd, !.arg = mix.commands[i].arg,
                                 !.ret = mix.commands[i].req, !.held = mix.commands[i].now]
  <2>2. k.conn = "none"
    BY DEF NoUser
  <2>3. cli' = [cli EXCEPT ![c] = k] /\ mgr' = mgr
    BY <1>3, <2>1 DEF Begin
  <2> HIDE DEF k
  <2> QED BY <1>0, <2>2, <2>3 DEF ShapeInv, PlacesInv, ConnPlaces
<1>4. ASSUME NEW c \in Clients, Interrupt(c) PROVE PlacesInv'
  <2> DEFINE k == [NoUser EXCEPT !.cmd = "gone", !.conn = "gone", !.line = cli[c].line]
  <2>1. k.conn = "gone"
    BY DEF NoUser
  <2>2. cli' = [cli EXCEPT ![c] = k] /\ mgr' = mgr
    BY <1>4 DEF Interrupt
  <2> HIDE DEF k
  <2> QED BY <1>0, <2>1, <2>2 DEF ShapeInv, PlacesInv, ConnPlaces
<1>5. CASE UNCHANGED vars
  BY <1>5 DEF vars, PlacesInv
<1> QED BY <1>1, <1>2, <1>3, <1>4, <1>5 DEF Next

(***************************************************************************)
(* The table, the markers and the log together.                            *)
(***************************************************************************)
SoundIInv == DaemonIInv /\ MaskedInv /\ LogInv /\ PlacesInv

LEMMA SoundBegins == Init => SoundIInv
<1> SUFFICES ASSUME Init PROVE SoundIInv
  OBVIOUS
<1>1. /\ mgr = NoManager("none") /\ cli = [c \in Clients |-> NoUser] /\ reg = Empty /\ sealed = {}
      /\ disk = [files |-> mix.files, masked |-> {}, enabled |-> mix.enabled, log |-> mix.log, pid |-> FALSE]
      /\ mix \in Mixes
  BY DEF Init
<1>2. mgr.pc = "down" /\ mgr.seq = 0
  BY <1>1 DEF NoManager
<1>3. /\ DOMAIN disk = DiskFields /\ disk.masked = {} /\ disk.enabled = mix.enabled /\ disk.log = mix.log
      /\ disk.pid = FALSE
  BY <1>1 DEF DiskFields
<1>4. mix.enabled \subseteq Names /\ LeftLog(mix.log)
  BY <1>1, MixesAssumption
<1>5. DiskInv
  BY <1>1, <1>3, <1>4 DEF DiskInv
<1>6. MaskInv
  <2>1. \A c \in Clients : ~ Holds(cli[c]) /\ ~ Told(cli[c])
    BY <1>1, NoUserHoldsNothing DEF Told
  <2> QED BY <1>1, <1>2, <2>1 DEF MaskInv, SealsInv, HoldsInv, ToldInv, ServedInv
<1>7. LogInv
  BY <1>2, <1>3, <1>4, NumberedLeft, EventLogAssumption DEF LogInv
<1>8. PlacesInv
  BY <1>1, <1>2 DEF PlacesInv, ManagerPlaces, ConnPlaces, NoUser
<1> QED BY <1>5, <1>6, <1>7, <1>8, DaemonBegins DEF SoundIInv, MaskedInv

LEMMA SoundStep == SoundIInv /\ [Next]_vars => SoundIInv'
<1> SUFFICES ASSUME SoundIInv, [Next]_vars PROVE SoundIInv'
  OBVIOUS
<1>1. DaemonIInv /\ MaskedInv /\ LogInv /\ PlacesInv
  BY DEF SoundIInv
<1>2. DaemonIInv'
  BY <1>1, DaemonStep
<1>3. EndIInv /\ EndIInv' /\ MixInv /\ NamedInv /\ TableInv /\ DiskInv
  BY <1>1, <1>2 DEF DaemonIInv, MaskedInv
<1>4. TableStep
  BY <1>3, NextTable
<1>5. MaskedInv'
  BY <1>1, <1>3, <1>4, NextMasks
<1>6. LogInv'
  BY <1>1, <1>3, NextLog
<1>7. PlacesInv'
  BY <1>1, <1>3, NextPlaces
<1> QED BY <1>2, <1>5, <1>6, <1>7 DEF SoundIInv

LEMMA SoundSays == SoundIInv => RegistrySound /\ EventsInOrder
<1> SUFFICES ASSUME SoundIInv PROVE RegistrySound /\ EventsInOrder
  OBVIOUS
<1>1. /\ EndIInv /\ TableInv /\ TxsInv /\ DiskInv /\ MaskInv /\ LogInv /\ PlacesInv
  BY DEF SoundIInv, DaemonIInv, MaskedInv
<1>2. RegOK(reg)
  BY <1>1 DEF TableInv
<1>3. mgr.seq \in Nat /\ mgr.next_tx \in Nat \ {0}
  BY <1>1, EventLogAssumption DEF LogInv, TxsInv, TxsOK
<1>4. ToSet(mgr.backlog) \subseteq Clients
  BY <1>1, ElementOfSeq DEF EndIInv, QueueInv, ToSet
<1>5. TypeOK
  BY <1>1, <1>2, <1>3, <1>4 DEF TypeOK, RegOK, SvcOK, DiskInv, PlacesInv, ManagerPlaces, ConnPlaces
<1>6. OwnIdentities /\ AliasesSound
  BY <1>2 DEF RegOK, OwnIdentities, AliasesSound
<1>7. MaskHolds
  BY <1>1 DEF MaskInv, SealsInv, MaskHolds
<1>8. EventsInOrder
  BY <1>1, NumberedOrder DEF LogInv, EventsInOrder
<1> QED BY <1>5, <1>6, <1>7, <1>8 DEF RegistrySound

\* Besides what DaemonInductive says: a masked name that was sealed is on the
\* disk and not in the table, whoever masks, unmasks, reloads or asks for
\* it; and the log is numbered, whatever a crash leaves of a line.
THEOREM SoundInductive == Spec => []SoundIInv
<1> QED BY SoundBegins, SoundStep, PTL DEF Spec

\* The table of services is sound after every boot, load on demand and
\* reload: identities are distinct, aliases lead to services, and a masked
\* name stays out of it (add, reload, load_named_service_spec).
THEOREM RegistryIsSound == Spec => []RegistrySound
<1> QED BY SoundInductive, SoundSays, PTL

\* The events of the log are numbered upwards across crashes in the middle
\* of a line, restarts and compactions (EventJournal::open, append).
THEOREM LogInOrder == Spec => []EventsInOrder
<1> QED BY SoundInductive, SoundSays, PTL

-----------------------------------------------------------------------------
(***************************************************************************)
(* Followers.  What a follower is after some lines, one line after the     *)
(* other.                                                                  *)
(***************************************************************************)
FeedFields == {"on", "last", "whole"}

Feeding(g, f, s, k) == g = [i \in 0 .. k |-> IF i = 0 THEN f ELSE Feed(g[i - 1], s[i])]

LEMMA FeedIs ==
  ASSUME NEW f, NEW s, Len(s) \in Nat
  PROVE  \E g : Feeding(g, f, s, Len(s)) /\ FeedAll(f, s) = g[Len(s)]
<1> DEFINE n == Len(s)
           T == {k \in 0 .. n : \E g : Feeding(g, f, s, k)}
<1>1. 0 \in T
  <2>1. Feeding([i \in 0 .. 0 |-> f], f, s, 0)
    BY DEF Feeding
  <2> QED BY <2>1
<1>2. ASSUME NEW k \in 1 .. n, k - 1 \in T PROVE k \in T
  <2>1. PICK g : Feeding(g, f, s, k - 1)
    BY <1>2
  <2> DEFINE h == [i \in 0 .. k |-> IF i = k THEN Feed(g[k - 1], s[k]) ELSE g[i]]
  <2>2. Feeding(h, f, s, k)
    <3>1. ASSUME NEW i \in 0 .. k PROVE h[i] = IF i = 0 THEN f ELSE Feed(h[i - 1], s[i])
      <4>1. CASE i = k
        <5>1. i # 0 /\ k - 1 \in 0 .. k /\ k - 1 # k
          BY <4>1
        <5>2. h[k] = Feed(g[k - 1], s[k]) /\ h[k - 1] = g[k - 1]
          BY <5>1
        <5> QED BY <4>1, <5>1, <5>2
      <4>2. CASE i # k
        <5>1. i \in 0 .. k - 1 /\ (i # 0 => i - 1 \in 0 .. k /\ i - 1 # k)
          BY <4>2
        <5>2. h[i] = g[i] /\ (i # 0 => h[i - 1] = g[i - 1])
          BY <4>2, <5>1
        <5>3. g[i] = IF i = 0 THEN f ELSE Feed(g[i - 1], s[i])
          BY <2>1, <5>1 DEF Feeding
        <5> QED BY <5>2, <5>3
      <4> QED BY <4>1, <4>2
    <3>2. h = [i \in 0 .. k |-> h[i]]
      OBVIOUS
    <3> HIDE DEF h
    <3> QED BY <3>1, <3>2 DEF Feeding
  <2> QED BY <2>2
<1> HIDE DEF T
<1>3. n \in T
  BY <1>1, <1>2, Climb
<1> USE DEF T
<1> DEFINE c == CHOOSE g : Feeding(g, f, s, n)
<1>4. Feeding(c, f, s, n)
  BY <1>3
<1>5. FeedAll(f, s) = c[n]
  BY DEF FeedAll, Walk, Feeding
<1> QED BY <1>4, <1>5

LEMMA FeedIsOne ==
  ASSUME NEW f, NEW s, NEW k \in Nat, NEW g, Feeding(g, f, s, k), NEW h, Feeding(h, f, s, k)
  PROVE  g[k] = h[k]
<1> DEFINE T == {i \in 0 .. k : g[i] = h[i]}
<1>1. \A i \in 0 .. k : /\ g[i] = IF i = 0 THEN f ELSE Feed(g[i - 1], s[i])
                        /\ h[i] = IF i = 0 THEN f ELSE Feed(h[i - 1], s[i])
  BY DEF Feeding
<1>2. 0 \in T
  BY <1>1
<1>3. \A i \in 1 .. k : i - 1 \in T => i \in T
  BY <1>1
<1> HIDE DEF T
<1>4. k \in T
  BY <1>2, <1>3, Climb
<1> QED BY <1>4 DEF T

LEMMA FeedNothing ==
  ASSUME NEW f
  PROVE  FeedAll(f, << >>) = f
<1>1. Len(<< >>) = 0
  OBVIOUS
<1>2. PICK g : Feeding(g, f, << >>, 0) /\ FeedAll(f, << >>) = g[0]
  BY <1>1, FeedIs
<1> QED BY <1>2 DEF Feeding

LEMMA FeedAppend ==
  ASSUME NEW f, NEW S, NEW s \in Seq(S), NEW x \in S
  PROVE  FeedAll(f, Append(s, x)) = Feed(FeedAll(f, s), x)
<1> DEFINE n == Len(s)
           t == Append(s, x)
<1>1. n \in Nat /\ Len(t) = n + 1 /\ t[n + 1] = x /\ (\A i \in 1 .. n : t[i] = s[i])
  OBVIOUS
<1>2. PICK g : Feeding(g, f, s, n) /\ FeedAll(f, s) = g[n]
  BY <1>1, FeedIs
<1>3. PICK h : Feeding(h, f, t, n + 1) /\ FeedAll(f, t) = h[n + 1]
  <2>1. Len(t) \in Nat /\ Len(t) = n + 1
    BY <1>1
  <2> HIDE DEF t, n
  <2>2. \E h : Feeding(h, f, t, Len(t)) /\ FeedAll(f, t) = h[Len(t)]
    BY <2>1, FeedIs
  <2> QED BY <2>1, <2>2
<1> HIDE DEF n, t
<1> DEFINE r == [i \in 0 .. n |-> h[i]]
<1>4. \A i \in 0 .. n + 1 : h[i] = IF i = 0 THEN f ELSE Feed(h[i - 1], t[i])
  BY <1>3 DEF Feeding
<1>5. Feeding(r, f, s, n)
  <2>1. ASSUME NEW i \in 0 .. n PROVE r[i] = IF i = 0 THEN f ELSE Feed(r[i - 1], s[i])
    <3>1. i \in 0 .. n + 1 /\ (i # 0 => i - 1 \in 0 .. n /\ i \in 1 .. n)
      BY <1>1
    <3> QED BY <1>1, <1>4, <3>1
  <2>2. r = [i \in 0 .. n |-> r[i]]
    OBVIOUS
  <2> HIDE DEF r
  <2> QED BY <2>1, <2>2 DEF Feeding
<1>6. r[n] = g[n]
  BY <1>1, <1>2, <1>5, FeedIsOne
<1>7. n \in 0 .. n /\ n + 1 \in 0 .. n + 1 /\ n + 1 # 0 /\ (n + 1) - 1 = n
  BY <1>1
<1>8. h[n] = g[n] /\ h[n + 1] = Feed(h[n], x)
  BY <1>1, <1>4, <1>6, <1>7
<1> QED BY <1>2, <1>3, <1>8 DEF t

\* A follower that missed nothing and got nothing twice: the event after its
\* last one is the next.
Fed(f, next) ==
  /\ DOMAIN f = FeedFields /\ f.whole
  /\ f.last # NoSeq => f.last \in 0 .. MaxSequence /\ saturating_succ(f.last) = next

LEMMA FeedWhole ==
  ASSUME NEW k \in 0 .. MaxSequence, NEW f, Fed(f, k)
  PROVE  Fed(Feed(f, WholeLine(k)), saturating_succ(k)) /\ Feed(f, WholeLine(k)).last = k
<1> DEFINE w == f.whole /\ (f.last = NoSeq \/ k = saturating_succ(f.last))
           g == [f EXCEPT !.last = k, !.whole = w]
<1>1. Feed(f, WholeLine(k)) = g
  BY DEF Feed, WholeLine
<1>2. w
  BY DEF Fed
<1> HIDE DEF w
<1>3. DOMAIN g = FeedFields /\ g.last = k /\ g.whole
  BY <1>2 DEF Fed, FeedFields
<1> QED BY <1>1, <1>3 DEF Fed

\* A line of the log that fits: half a line may use its number up.
LEMMA FeedFits ==
  ASSUME NEW k \in 0 .. MaxSequence, NEW line \in Lines, Fits(line, k), NEW f, Fed(f, k)
  PROVE  /\ Fed(Feed(f, line), After(line, k))
         /\ f.last # NoSeq => Feed(f, line).last # NoSeq /\ f.last <= Feed(f, line).last
         /\ f.last = NoSeq /\ ~ line.whole => Feed(f, line).last = NoSeq
         /\ line.whole => Feed(f, line).last = k
<1>0. MaxSequence \in Nat /\ NoSeq = -1
  BY EventLogAssumption DEF NoSeq
<1>1. CASE line.whole
  <2>1. line = WholeLine(k) /\ line.seq = k /\ After(line, k) = saturating_succ(k)
    BY <1>1 DEF Lines, Fits, WholeLine, After
  <2>2. Fed(Feed(f, line), After(line, k)) /\ Feed(f, line).last = k
    BY <2>1, FeedWhole
  <2>3. f.last # NoSeq => f.last <= k /\ k # NoSeq
    <3>1. ASSUME f.last # NoSeq PROVE f.last <= k
      <4>1. f.last \in 0 .. MaxSequence /\ saturating_succ(f.last) = k
        BY <3>1 DEF Fed
      <4> QED BY <4>1, SuccIs
    <3> QED BY <1>0, <3>1
  <2> QED BY <1>1, <2>2, <2>3
<1>2. CASE ~ line.whole
  <2> DEFINE l == IF f.last # NoSeq /\ line.seq = f.last + 1 THEN f.last + 1 ELSE f.last
             g == [f EXCEPT !.last = l]
  <2>1. Feed(f, line) = g
    BY <1>2 DEF Feed
  <2>2. /\ f.last = NoSeq => l = NoSeq
        /\ f.last # NoSeq => l # NoSeq /\ f.last <= l /\ l \in 0 .. MaxSequence /\ saturating_succ(l) = After(line, k)
    <3>1. ASSUME f.last # NoSeq
          PROVE  l # NoSeq /\ f.last <= l /\ l \in 0 .. MaxSequence /\ saturating_succ(l) = After(line, k)
      <4> DEFINE x == f.last
      <4>1. x \in 0 .. MaxSequence /\ saturating_succ(x) = k
        BY <3>1 DEF Fed
      <4>2. line.seq \in {-1} \cup 0 .. MaxSequence /\ line.seq <= k
        BY <1>0 DEF Lines, Fits
      <4>3. l = IF line.seq = x + 1 THEN x + 1 ELSE x
        BY <3>1
      <4> HIDE DEF x, l
      <4>4. (x = MaxSequence /\ k = MaxSequence) \/ (x < MaxSequence /\ k = x + 1)
        BY <1>0, <4>1 DEF saturating_succ
      <4>5. CASE line.seq = x + 1
        <5>1. k = x + 1 /\ line.seq = k /\ l = k /\ x < MaxSequence
          BY <1>0, <4>1, <4>2, <4>3, <4>4, <4>5
        <5>2. After(line, k) = saturating_succ(l)
          BY <5>1 DEF After
        <5> QED BY <1>0, <4>1, <5>1, <5>2 DEF x
      <4>6. CASE line.seq # x + 1
        <5>1. l = x
          BY <4>3, <4>6
        <5>2. After(line, k) = k
          <6>1. CASE line.seq # k
            BY <6>1 DEF After
          <6>2. CASE line.seq = k
            <7>1. k = MaxSequence
              BY <4>4, <4>6, <6>2
            <7> QED BY <1>0, <7>1 DEF After, saturating_succ
          <6> QED BY <6>1, <6>2
        <5> QED BY <1>0, <4>1, <5>1, <5>2 DEF x
      <4> QED BY <4>5, <4>6
    <3> QED BY <3>1
  <2> HIDE DEF l
  <2>3. DOMAIN g = FeedFields /\ g.last = l /\ g.whole
    BY DEF Fed, FeedFields
  <2>4. f.last # NoSeq \/ f.last = NoSeq
    OBVIOUS
  <2> QED BY <1>2, <2>1, <2>2, <2>3, <2>4 DEF Fed
<1> QED BY <1>1, <1>2

(***************************************************************************)
(* What is in the log from `since` on, fed to a follower that begins.      *)
(***************************************************************************)
Begun == [NoFeed EXCEPT !.on = TRUE]

Picks(line, since) == event_sequence(line) # NoSeq /\ event_sequence(line) >= since

Chosen(g, log, since, k) ==
  g = [i \in 0 .. k |-> IF i = 0 THEN << >>
                        ELSE IF Picks(log[i], since) THEN Append(g[i - 1], log[i]) ELSE g[i - 1]]

LEMMA ChosenIs ==
  ASSUME NEW log, NEW since, Len(log) \in Nat
  PROVE  \E g : Chosen(g, log, since, Len(log)) /\ events_since(log, since) = g[Len(log)]
<1> DEFINE n == Len(log)
           Each(kept, line) == IF Picks(line, since) THEN Append(kept, line) ELSE kept
           T == {k \in 0 .. n : \E g : Chosen(g, log, since, k)}
<1>1. 0 \in T
  <2>1. Chosen([i \in 0 .. 0 |-> << >>], log, since, 0)
    BY DEF Chosen
  <2> QED BY <2>1
<1>2. ASSUME NEW k \in 1 .. n, k - 1 \in T PROVE k \in T
  <2>1. PICK g : Chosen(g, log, since, k - 1)
    BY <1>2
  <2> DEFINE h == [i \in 0 .. k |-> IF i = k THEN Each(g[k - 1], log[k]) ELSE g[i]]
  <2>2. Chosen(h, log, since, k)
    <3>1. ASSUME NEW i \in 0 .. k PROVE h[i] = IF i = 0 THEN << >> ELSE Each(h[i - 1], log[i])
      <4>1. CASE i = k
        <5>1. i # 0 /\ k - 1 \in 0 .. k /\ k - 1 # k
          BY <4>1
        <5>2. h[k] = Each(g[k - 1], log[k]) /\ h[k - 1] = g[k - 1]
          BY <5>1
        <5> QED BY <4>1, <5>1, <5>2
      <4>2. CASE i # k
        <5>1. i \in 0 .. k - 1 /\ (i # 0 => i - 1 \in 0 .. k /\ i - 1 # k)
          BY <4>2
        <5>2. h[i] = g[i] /\ (i # 0 => h[i - 1] = g[i - 1])
          BY <4>2, <5>1
        <5>3. g[i] = IF i = 0 THEN << >> ELSE Each(g[i - 1], log[i])
          BY <2>1, <5>1 DEF Chosen
        <5> QED BY <5>2, <5>3
      <4> QED BY <4>1, <4>2
    <3>2. h = [i \in 0 .. k |-> h[i]]
      OBVIOUS
    <3> HIDE DEF h
    <3> QED BY <3>1, <3>2 DEF Chosen
  <2> QED BY <2>2
<1> HIDE DEF T
<1>3. n \in T
  BY <1>1, <1>2, Climb
<1> USE DEF T
<1> DEFINE c == CHOOSE g : Chosen(g, log, since, n)
<1>4. Chosen(c, log, since, n)
  BY <1>3
<1>5. events_since(log, since) = c[n]
  BY DEF events_since, Walk, Chosen, Picks
<1> QED BY <1>4, <1>5

LEMMA BegunIs == Begun.on /\ Begun.last = NoSeq /\ \A k : Fed(Begun, k)
BY DEF Begun, NoFeed, Fed, FeedFields

LEMMA NumberedFeeds ==
  ASSUME NEW log, NEW k, Numbered(log, k), NEW since \in Nat
  PROVE  Fed(FeedAll(Begun, events_since(log, since)), k)
<1> DEFINE n == Len(log)
<1>0. log \in Seq(Lines) /\ k \in 0 .. MaxSequence /\ n \in Nat /\ MaxSequence \in Nat /\ NoSeq = -1
  BY EventLogAssumption DEF Numbered, NoSeq
<1>1. PICK b \in 1 .. n + 1 : \E nxt \in [b .. n + 1 -> 0 .. MaxSequence] : Counted(log, k, b, nxt)
  BY DEF Numbered
<1>2. PICK nxt \in [b .. n + 1 -> 0 .. MaxSequence] : Counted(log, k, b, nxt)
  BY <1>1
<1>3. PICK g : Chosen(g, log, since, n) /\ events_since(log, since) = g[n]
  BY <1>0, ChosenIs
<1>4. \A i \in 1 .. n : log[i] \in Lines
  BY <1>0
<1> HIDE DEF n
<1>5. /\ nxt[n + 1] = k
      /\ \A i \in 1 .. b - 1 : ~ log[i].whole
      /\ \A i \in b .. n : Fits(log[i], nxt[i]) /\ nxt[i + 1] = After(log[i], nxt[i])
  BY <1>2 DEF Counted, n
<1>6. \A i \in 0 .. n : g[i] = IF i = 0 THEN << >>
                               ELSE IF Picks(log[i], since) THEN Append(g[i - 1], log[i]) ELSE g[i - 1]
  BY <1>3 DEF Chosen
<1> DEFINE Nothing(f) == DOMAIN f = FeedFields /\ f.whole /\ f.last = NoSeq
           Good(f, i) == IF i < b THEN Nothing(f)
                         ELSE Fed(f, nxt[i + 1]) /\ (f.last # NoSeq => f.last >= since)
           T == {i \in 0 .. n : g[i] \in Seq(Lines) /\ Good(FeedAll(Begun, g[i]), i)}
<1>7. 0 \in T
  <2>1. g[0] = << >> /\ g[0] \in Seq(Lines)
    <3>1. 0 \in 0 .. n
      BY <1>0
    <3>2. g[0] = << >>
      BY <1>6, <3>1
    <3> QED BY <3>2
  <2>2. FeedAll(Begun, g[0]) = Begun
    BY <2>1, FeedNothing
  <2>3. Nothing(Begun)
    BY BegunIs DEF Fed
  <2>4. 0 < b /\ 0 \in 0 .. n
    BY <1>0
  <2> QED BY <2>1, <2>2, <2>3, <2>4
<1>8. ASSUME NEW i \in 1 .. n, i - 1 \in T PROVE i \in T
  <2> DEFINE f == FeedAll(Begun, g[i - 1])
             line == log[i]
             e == FeedAll(Begun, g[i])
  <2>1. g[i - 1] \in Seq(Lines) /\ Good(f, i - 1) /\ line \in Lines
    BY <1>4, <1>8
  <2>2. g[i] = IF Picks(line, since) THEN Append(g[i - 1], line) ELSE g[i - 1]
    BY <1>0, <1>6
  <2>3. g[i] \in Seq(Lines)
    BY <2>1, <2>2
  <2>4. e = IF Picks(line, since) THEN Feed(f, line) ELSE f
    BY <2>1, <2>2, FeedAppend
  <2>5. i < b \/ i \in b .. n
    BY <1>0
  <2> HIDE DEF f, e
  <2>6. ASSUME i < b PROVE Good(e, i)
    <3>1. i \in 1 .. b - 1 /\ i - 1 < b
      BY <1>0, <2>6
    <3>2. Nothing(f) /\ ~ line.whole
      BY <1>5, <2>1, <3>1
    <3>3. Feed(f, line) = [f EXCEPT !.last = f.last]
      BY <3>2 DEF Feed
    <3>4. Nothing(Feed(f, line))
      BY <3>2, <3>3 DEF FeedFields
    <3> QED BY <2>4, <2>6, <3>2, <3>4
  <2>7. ASSUME i \in b .. n PROVE Good(e, i)
    <3> DEFINE p == nxt[i]
    <3>1. i \in b .. n + 1 /\ ~ i < b /\ p \in 0 .. MaxSequence /\ Fits(line, p) /\ nxt[i + 1] = After(line, p)
      BY <1>0, <1>5, <2>7
    <3>2. Fed(f, p) /\ (f.last # NoSeq => f.last >= since)
      <4>1. CASE i - 1 < b
        BY <2>1, <4>1 DEF Fed
      <4>2. CASE ~ (i - 1 < b)
        <5>1. (i - 1) + 1 = i
          BY <1>0
        <5> QED BY <2>1, <4>2, <5>1
      <4> QED BY <4>1, <4>2
    <3> HIDE DEF p, line
    <3>3. CASE Picks(line, since)
      <4>1. /\ Fed(e, After(line, p))
            /\ f.last # NoSeq => e.last # NoSeq /\ f.last <= e.last
            /\ f.last = NoSeq /\ ~ line.whole => e.last = NoSeq
            /\ line.whole => e.last = p
        BY <2>1, <2>4, <3>1, <3>2, <3>3, FeedFits
      <4>2. ASSUME e.last # NoSeq PROVE e.last >= since
        <5>1. e.last \in 0 .. MaxSequence
          BY <4>1, <4>2 DEF Fed
        <5>2. CASE line.whole
          <6>1. line.seq = p /\ line.seq >= since
            BY <3>1, <3>3, <5>2 DEF Fits, Picks, event_sequence
          <6> QED BY <4>1, <5>2, <6>1
        <5>3. CASE ~ line.whole
          <6>1. f.last # NoSeq
            BY <4>1, <4>2, <5>3
          <6>2. f.last \in 0 .. MaxSequence
            BY <3>2, <6>1 DEF Fed
          <6>3. f.last <= e.last /\ f.last >= since
            BY <3>2, <4>1, <6>1
          <6> QED BY <1>0, <5>1, <6>2, <6>3
        <5> QED BY <5>2, <5>3
      <4> QED BY <3>1, <4>1, <4>2
    <3>4. CASE ~ Picks(line, since)
      <4>1. e = f
        BY <2>4, <3>4
      <4>2. f.last # NoSeq => After(line, p) = p
        <5> SUFFICES ASSUME f.last # NoSeq, line.seq = p PROVE FALSE
          BY DEF After
        <5>1. f.last \in 0 .. MaxSequence /\ p = saturating_succ(f.last) /\ f.last >= since
          BY <3>2 DEF Fed
        <5> DEFINE x == f.last
        <5>2. x <= p /\ x \in 0 .. MaxSequence /\ x >= since
          BY <5>1, SuccIs
        <5> HIDE DEF x
        <5>3. p >= since /\ p # NoSeq
          BY <1>0, <3>1, <5>2
        <5>4. line.seq >= since /\ line.seq # NoSeq
          BY <5>3
        <5> QED BY <3>4, <5>4 DEF Picks, event_sequence
      <4>3. Fed(f, After(line, p))
        BY <3>2, <4>2 DEF Fed
      <4> QED BY <3>1, <3>2, <4>1, <4>3
    <3>5. Good(e, i)
      BY <3>3, <3>4
    <3> QED BY <3>5
  <2>8. Good(e, i)
    BY <2>5, <2>6, <2>7
  <2> HIDE DEF Good
  <2> QED BY <2>3, <2>8 DEF e
<1> HIDE DEF T
<1>9. n \in T
  BY <1>0, <1>7, <1>8, Climb
<1> USE DEF T
<1>10. Good(FeedAll(Begun, g[n]), n)
  BY <1>9
<1> DEFINE f == FeedAll(Begun, g[n])
<1> HIDE DEF f
<1>11. Fed(f, k)
  BY <1>5, <1>10 DEF Fed, f
<1> QED BY <1>3, <1>11 DEF f

-----------------------------------------------------------------------------
(***************************************************************************)
(* The followers of a manager: nobody follows before it serves; between    *)
(* two turns every follower has the newest event; and while the changed    *)
(* services are observed, it will have it when the new lines are sent.     *)
(* While the manager drains, the lines go to the log only, and a follower  *)
(* keeps what it has.                                                      *)
(***************************************************************************)
Early(m) == m.pc \in {"down", "load", "bring", "bind"} \/ (m.pc = "observe" /\ m.then \in {"bring", "bind"})
Serves(m) == m.pc \in {"turn", "accept", "answer", "wait"}

FeedInv ==
  /\ \A c \in Clients : mgr.feeds[c].on => mgr.feeds[c].whole
  /\ mgr.pc # "observe" => mgr.fresh = << >> /\ ~ mgr.loud
  /\ mgr.fresh \in Seq(Lines)
  /\ Early(mgr) => \A c \in Clients : ~ mgr.feeds[c].on
  /\ Serves(mgr) => \A c \in Clients : mgr.feeds[c].on => Fed(mgr.feeds[c], mgr.seq)
  /\ mgr.pc = "observe" /\ mgr.loud =>
       \A c \in Clients : mgr.feeds[c].on => Fed(FeedAll(mgr.feeds[c], mgr.fresh), mgr.seq)
  /\ mgr.pc = "observe" /\ mgr.then = "accept" => mgr.loud

\* A manager without followers.
LEMMA NobodyFollows ==
  ASSUME \A c \in Clients : ~ mgr'.feeds[c].on, mgr'.fresh = << >>, mgr'.pc # "observe", ~ mgr'.loud
  PROVE  FeedInv'
BY DEF FeedInv

\* A step that sends nothing: a follower may have gone.
LEMMA FeedsStay ==
  ASSUME FeedInv, \A c \in Clients : mgr'.feeds[c] = mgr.feeds[c] \/ ~ mgr'.feeds[c].on,
         mgr'.fresh = mgr.fresh, mgr'.loud = mgr.loud, mgr'.seq = mgr.seq, mgr'.then = mgr.then \/ mgr'.pc # "observe",
         mgr'.pc = mgr.pc \/ (mgr.pc # "observe" /\ mgr'.pc # "observe"),
         Early(mgr') => Early(mgr), Serves(mgr') => Serves(mgr) \/ Early(mgr)
  PROVE  FeedInv'
<1>1. \A c \in Clients : mgr'.feeds[c].on => mgr'.feeds[c] = mgr.feeds[c] /\ mgr.feeds[c].on
  OBVIOUS
<1>2. CASE mgr'.pc = "observe"
  <2>1. mgr.pc = "observe" /\ mgr'.then = mgr.then /\ ~ Serves(mgr')
    BY <1>2 DEF Serves
  <2> QED BY <1>1, <1>2, <2>1 DEF FeedInv
<1>3. CASE mgr'.pc # "observe"
  <2>1. mgr.pc # "observe"
    BY <1>3
  <2> QED BY <1>1, <1>3, <2>1 DEF FeedInv
<1> QED BY <1>2, <1>3

\* The manager begins to look for changes, and will send them.
LEMMA LoudFeeds ==
  ASSUME FeedInv, Serves(mgr), mgr'.feeds = mgr.feeds, mgr'.fresh = mgr.fresh, mgr'.loud, mgr'.seq = mgr.seq,
         mgr'.pc = "observe", mgr'.then \notin {"bring", "bind"}
  PROVE  FeedInv'
<1>1. mgr.fresh = << >> /\ \A c \in Clients : mgr.feeds[c].on => Fed(mgr.feeds[c], mgr.seq) /\ mgr.feeds[c].whole
  BY DEF FeedInv, Serves
<1>2. \A c \in Clients : FeedAll(mgr.feeds[c], mgr.fresh) = mgr.feeds[c]
  BY <1>1, FeedNothing
<1>3. ~ Early(mgr') /\ ~ Serves(mgr')
  BY DEF Early, Serves
<1> QED BY <1>1, <1>2, <1>3 DEF FeedInv

\* It begins to look for changes that go to the log only.
LEMMA SilentFeeds ==
  ASSUME FeedInv, mgr.pc # "observe", mgr'.feeds = mgr.feeds, mgr'.fresh = mgr.fresh, mgr'.loud = mgr.loud,
         mgr'.pc = "observe", mgr'.then # "accept", Early(mgr') => Early(mgr)
  PROVE  FeedInv'
BY DEF FeedInv, Serves

NoManagerFeeds(n) == n.fresh = << >> /\ ~ n.loud /\ \A c \in Clients : ~ n.feeds[c].on

LEMMA NoManagerSends ==
  ASSUME NEW why
  PROVE  NoManagerFeeds(NoManager(why)) /\ ~ NoFeed.on
BY DEF NoManager, NoFeed, NoManagerFeeds

LEMMA EndFeeds ==
  ASSUME NEW why, EndProcess(why)
  PROVE  FeedInv'
<1> DEFINE n == NoManager(why)
<1>1. NoManagerFeeds(n) /\ n.pc = "down" /\ DOMAIN n = ManagerFields
  BY NoManagerSends, NoManagerIs
<1>2. mgr' = [n EXCEPT !.power = IF why = "stopped" THEN mgr.action ELSE "none"]
  BY DEF EndProcess
<1> HIDE DEF n
<1>3. mgr'.pc = "down" /\ mgr'.fresh = << >> /\ ~ mgr'.loud /\ mgr'.feeds = n.feeds
  BY <1>1, <1>2 DEF ManagerFields, NoManagerFeeds
<1>4. \A c \in Clients : ~ mgr'.feeds[c].on
  BY <1>1, <1>3 DEF NoManagerFeeds
<1> QED BY <1>3, <1>4, NobodyFollows

LEMMA ObserveOneFeeds ==
  ASSUME EndIInv, LogInv, FeedInv, ObserveOne
  PROVE  FeedInv'
<1> DEFINE line == WholeLine(mgr.seq)
<1>0. DOMAIN mgr = ManagerFields /\ mgr.seq \in 0 .. MaxSequence
  BY DEF EndIInv, ShapeInv, LogInv
<1>1. /\ mgr.pc = "observe" /\ mgr'.pc = "observe" /\ mgr'.then = mgr.then /\ mgr'.loud = mgr.loud
      /\ mgr'.feeds = mgr.feeds /\ mgr'.seq = saturating_succ(mgr.seq) /\ mgr'.fresh = Append(mgr.fresh, line)
  BY <1>0 DEF ObserveOne, ManagerFields
<1>2. line \in Lines
  BY <1>0 DEF WholeLine, Lines
<1> HIDE DEF line
<1>3. mgr.fresh \in Seq(Lines)
  BY DEF FeedInv
<1>4. mgr'.fresh \in Seq(Lines)
  BY <1>1, <1>2, <1>3
<1>5. ASSUME mgr.loud, NEW c \in Clients, mgr.feeds[c].on
      PROVE  Fed(FeedAll(mgr.feeds[c], mgr'.fresh), mgr'.seq)
  <2>1. Fed(FeedAll(mgr.feeds[c], mgr.fresh), mgr.seq)
    BY <1>1, <1>5 DEF FeedInv
  <2>2. FeedAll(mgr.feeds[c], mgr'.fresh) = Feed(FeedAll(mgr.feeds[c], mgr.fresh), line)
    BY <1>1, <1>2, <1>3, FeedAppend
  <2> QED BY <1>0, <1>1, <2>1, <2>2, FeedWhole DEF line
<1>6. (Early(mgr') <=> Early(mgr)) /\ ~ Serves(mgr')
  BY <1>1 DEF Early, Serves
<1> QED BY <1>1, <1>4, <1>5, <1>6 DEF FeedInv

LEMMA ObserveEndFeeds ==
  ASSUME EndIInv, FeedInv, ObserveEnd
  PROVE  FeedInv'
<1>0. DOMAIN mgr = ManagerFields /\ mgr.pc = "observe"
      /\ mgr.then \in {"bring", "bind", "accept", "drain", "late"} /\ ~ NoFeed.on
  BY NoManagerSends DEF EndIInv, ShapeInv, RunningInv, ObserveEnd
<1>1. PICK slow \in SUBSET {c \in Clients : mgr.feeds[c].on} :
        mgr' = [mgr EXCEPT !.pc = mgr.then, !.fresh = << >>, !.loud = FALSE,
                           !.feeds = IF mgr.loud THEN broadcast_events(mgr.feeds, slow, mgr.fresh) ELSE mgr.feeds]
  BY DEF ObserveEnd
<1> DEFINE feeds == IF mgr.loud THEN broadcast_events(mgr.feeds, slow, mgr.fresh) ELSE mgr.feeds
<1>2. \A c \in Clients : /\ mgr.loud => \/ feeds[c] = mgr.feeds[c] /\ ~ mgr.feeds[c].on
                                        \/ feeds[c] = NoFeed
                                        \/ mgr.feeds[c].on /\ feeds[c] = FeedAll(mgr.feeds[c], mgr.fresh)
                         /\ ~ mgr.loud => feeds[c] = mgr.feeds[c]
  BY DEF broadcast_events
<1> HIDE DEF feeds
<1>3. mgr'.pc = mgr.then /\ mgr'.fresh = << >> /\ ~ mgr'.loud /\ mgr'.feeds = feeds /\ mgr'.seq = mgr.seq
  BY <1>0, <1>1 DEF ManagerFields, feeds
<1>4. ASSUME NEW c \in Clients, feeds[c].on
      PROVE  mgr.feeds[c].on /\ feeds[c].whole /\ (mgr.loud => Fed(feeds[c], mgr.seq))
  <2>1. CASE mgr.loud
    <3>1. mgr.feeds[c].on /\ feeds[c] = FeedAll(mgr.feeds[c], mgr.fresh)
      BY <1>0, <1>2, <1>4, <2>1
    <3>2. Fed(feeds[c], mgr.seq)
      BY <1>0, <2>1, <3>1 DEF FeedInv
    <3> QED BY <3>1, <3>2 DEF Fed
  <2>2. CASE ~ mgr.loud
    BY <1>2, <1>4, <2>2 DEF FeedInv
  <2> QED BY <2>1, <2>2
<1>5. mgr'.pc # "observe" /\ (Serves(mgr') => mgr.then = "accept")
  BY <1>0, <1>3 DEF Serves
<1>6. Serves(mgr') => mgr.loud
  BY <1>0, <1>5 DEF FeedInv
<1>7. Early(mgr') => Early(mgr)
  BY <1>0, <1>3 DEF Early
<1>8. << >> \in Seq(Lines)
  OBVIOUS
<1> QED BY <1>3, <1>4, <1>5, <1>6, <1>7, <1>8 DEF FeedInv

\* What follows SUBSCRIBE is nothing, or a number.
LEMMA SubscribeAsks ==
  ASSUME NEW words, request_parse(words).tag = "SUBSCRIBE"
  PROVE  \/ request_parse(words).arg = << >>
         \/ Number(request_parse(words).arg[1]) \in Nat
<1> DEFINE kind == Grammar[words[1]]
           rest == Tail(words)
<1>1. Grammar["SUBSCRIBE"] = "maybe number"
  BY DEF Grammar
<1>2. request_parse(words) = Malformed \/ (TakesArgument(kind, rest) /\ request_parse(words) = Request(words[1], rest))
  BY DEF request_parse
<1> HIDE DEF kind, rest
<1>3. request_parse(words) # Malformed
  BY DEF Malformed
<1>4. TakesArgument(kind, rest) /\ words[1] = "SUBSCRIBE" /\ request_parse(words).arg = rest
  BY <1>2, <1>3 DEF Request
<1>5. kind = "maybe number"
  BY <1>1, <1>4 DEF kind
<1>6. rest = << >> \/ Numeral(rest[1])
  BY <1>4, <1>5 DEF TakesArgument
<1>7. ASSUME NEW s, Numeral(s) PROVE Number(s) \in Nat
  BY <1>7, WireAssumption DEF Numeral, Number
<1> QED BY <1>4, <1>6, <1>7

LEMMA SubscribeFeeds ==
  ASSUME EndIInv, LogInv, FeedInv, open_event_subscription
  PROVE  FeedInv'
<1> DEFINE c == mgr.backlog[1]
           q == request_parse(cli[c].line)
           lines == IF q.arg = << >> THEN << >> ELSE events_since(disk.log, Number(q.arg[1]))
           fed == FeedAll([NoFeed EXCEPT !.on = TRUE], lines)
           gone == cli[c].conn # "queued"
<1>0. DOMAIN mgr = ManagerFields /\ DOMAIN mgr.feeds = Clients /\ mgr.pc = "accept"
  BY DEF EndIInv, ShapeInv, open_event_subscription
<1>1. q.tag = "SUBSCRIBE"
  BY DEF open_event_subscription
<1>2. mgr' = [mgr EXCEPT !.pc = "turn", !.backlog = Tail(@), !.feeds[c] = IF gone THEN @ ELSE fed]
  BY DEF open_event_subscription, Subscribe
<1>3. Numbered(disk.log, mgr.seq)
  BY <1>0 DEF LogInv
<1>4. Fed(fed, mgr.seq)
  <2>1. CASE q.arg = << >>
    BY <2>1, FeedNothing, BegunIs DEF Begun
  <2>2. CASE q.arg # << >>
    <3>1. Number(q.arg[1]) \in Nat
      BY <1>1, <2>2, SubscribeAsks
    <3> QED BY <1>3, <2>2, <3>1, NumberedFeeds DEF Begun
  <2> QED BY <2>1, <2>2
<1> HIDE DEF fed, gone, q, c
<1>5. /\ mgr'.pc = "turn" /\ mgr'.fresh = mgr.fresh /\ mgr'.loud = mgr.loud /\ mgr'.seq = mgr.seq
      /\ \A d \in Clients : mgr'.feeds[d] \in {mgr.feeds[d], fed}
  BY <1>0, <1>2 DEF ManagerFields
<1>6. mgr.fresh = << >> /\ ~ mgr.loud /\ mgr.fresh \in Seq(Lines)
  BY <1>0 DEF FeedInv
<1>7. \A d \in Clients : mgr.feeds[d].on => mgr.feeds[d].whole /\ Fed(mgr.feeds[d], mgr.seq)
  BY <1>0 DEF FeedInv, Serves
<1>8. \A d \in Clients : mgr'.feeds[d].on => mgr'.feeds[d].whole /\ Fed(mgr'.feeds[d], mgr'.seq)
  BY <1>4, <1>5, <1>7 DEF Fed
<1> QED BY <1>5, <1>6, <1>8 DEF FeedInv, Early

LEMMA StepFeeds ==
  ASSUME EndIInv, LogInv, FeedInv, Step
  PROVE  FeedInv'
<1> DEFINE Going(places) == /\ mgr'.feeds = mgr.feeds /\ mgr'.fresh = mgr.fresh /\ mgr'.loud = mgr.loud
                            /\ mgr'.seq = mgr.seq /\ mgr'.pc \in places
<1>0. DOMAIN mgr = ManagerFields
  BY DEF EndIInv, ShapeInv
<1>1. ASSUME Going({"turn", "wait", "answer"}), mgr.pc \in {"bind", "turn", "accept", "answer", "wait"} PROVE FeedInv'
  <2>1. (Serves(mgr) \/ Early(mgr)) /\ ~ Early(mgr') /\ mgr.pc # "observe" /\ mgr'.pc # "observe"
    BY <1>1 DEF Serves, Early
  <2> QED BY <1>1, <2>1, FeedsStay
<1>2. ASSUME mgr.pc \in {"load", "bring", "drain"}, mgr'.pc = "observe", mgr'.feeds = mgr.feeds, mgr'.fresh = mgr.fresh,
             mgr'.loud = mgr.loud, mgr'.then # "accept", mgr.pc = "drain" => mgr'.then \in {"drain", "late"}
      PROVE  FeedInv'
  <2>1. Early(mgr') => Early(mgr)
    BY <1>2 DEF Early
  <2> QED BY <1>2, <2>1, SilentFeeds
<1>3. ASSUME mgr.pc \in {"turn", "answer"}, mgr'.feeds = mgr.feeds, mgr'.fresh = mgr.fresh, mgr'.loud, mgr'.seq = mgr.seq,
             mgr'.pc = "observe", mgr'.then \in {"drain", "accept"}
      PROVE  FeedInv'
  BY <1>3, LoudFeeds DEF Serves
<1>4. CASE Load
  <2>1. CASE EndProcess("refused")
    BY <2>1, EndFeeds
  <2>2. CASE mgr' = [mgr EXCEPT !.pc = "observe", !.then = "bring", !.seq = OpenSequence(disk.log)]
    BY <1>0, <1>2, <1>4, <2>2 DEF Load, ManagerFields
  <2> QED BY <1>4, <2>1, <2>2 DEF Load
<1>5. CASE Bring
  BY <1>0, <1>2, <1>5 DEF Bring, ManagerFields
<1>6. CASE bind_listener
  BY <1>0, <1>1, <1>6 DEF bind_listener, ManagerFields
<1>7. CASE Turn
  <2>1. mgr.pc = "turn" /\ mgr'.feeds = mgr.feeds /\ mgr'.fresh = mgr.fresh /\ mgr'.loud /\ mgr'.seq = mgr.seq
        /\ mgr'.pc = "observe" /\ mgr'.then \in {"drain", "accept"}
    BY <1>0, <1>7 DEF Turn, ManagerFields
  <2> QED BY <1>3, <2>1
<1>8. CASE Idle
  <2>1. EndProcess("pid file") \/ (mgr.pc = "accept" /\ Going({"turn"}))
    BY <1>0, <1>8 DEF Idle, LoopEnd, ManagerFields
  <2> QED BY <1>1, <2>1, EndFeeds
<1>9. CASE Accept
  <2> DEFINE c == mgr.backlog[1]
             q == request_parse(cli[c].line)
             m == [mgr EXCEPT !.pc = "answer", !.backlog = Tail(@), !.client = <<c>>, !.then = "turn"]
  <2>1. PICK e \in Handled(m, q) : mgr' = e.m
    BY <1>9 DEF Accept, Serve
  <2>2. DOMAIN m = ManagerFields /\ m.pc = "answer" /\ mgr.pc = "accept"
        /\ m.feeds = mgr.feeds /\ m.fresh = mgr.fresh /\ m.loud = mgr.loud /\ m.seq = mgr.seq
    BY <1>0, <1>9 DEF Accept, ManagerFields
  <2> HIDE DEF m, q
  <2>3. HandledFrom(m, e)
    BY <2>1, <2>2, HandledKeeps
  <2>4. Going({"answer", "wait"})
    BY <2>1, <2>2, <2>3 DEF HandledFrom, HandlerFields, ManagerFields
  <2> QED BY <1>1, <2>2, <2>4
<1>10. CASE Answer
  <2> DEFINE m == [mgr EXCEPT !.client = << >>, !.resp = Down]
             drain == [m EXCEPT !.pc = "observe", !.loud = TRUE, !.waits = 0]
             turn == [m EXCEPT !.pc = "turn"]
             end == NoManager("pid file")
  <2>1. /\ drain.feeds = mgr.feeds /\ drain.fresh = mgr.fresh /\ drain.loud /\ drain.seq = mgr.seq
        /\ drain.pc = "observe" /\ drain.then = mgr.then
        /\ turn.feeds = mgr.feeds /\ turn.fresh = mgr.fresh /\ turn.loud = mgr.loud /\ turn.seq = mgr.seq
        /\ turn.pc = "turn"
    BY <1>0 DEF ManagerFields
  <2>2. NoManagerFeeds(end) /\ end.pc = "down"
    BY NoManagerSends, NoManagerIs
  <2>3. mgr.pc = "answer"
    BY <1>10 DEF Answer
  <2>4. EndProcess("answer lost") \/ (mgr' = drain /\ mgr.then = "drain") \/ mgr' = turn \/ mgr' = end
    BY <1>10 DEF Answer
  <2> HIDE DEF drain, turn, end
  <2>5. ASSUME mgr' = end PROVE FeedInv'
    BY <2>2, <2>5, NobodyFollows DEF NoManagerFeeds
  <2>6. ASSUME mgr' = drain, mgr.then = "drain" PROVE FeedInv'
    BY <1>3, <2>1, <2>3, <2>6
  <2>7. ASSUME mgr' = turn PROVE FeedInv'
    BY <1>1, <2>1, <2>3, <2>7
  <2> QED BY <2>4, <2>5, <2>6, <2>7, EndFeeds
<1>11. CASE ReloadWait
  <2>1. mgr.pc = "wait" /\ Going({"wait", "answer"})
    BY <1>0, <1>11 DEF ReloadWait, ManagerFields
  <2> QED BY <1>1, <2>1
<1>12. CASE ReloadApply
  <2>1. mgr.pc = "wait" /\ Going({"answer"})
    BY <1>0, <1>12 DEF ReloadApply, ManagerFields
  <2> QED BY <1>1, <2>1
<1>13. CASE Drain
  BY <1>0, <1>2, <1>13 DEF Drain, ManagerFields
<1>14. CASE Drained \/ Late
  BY <1>14, EndFeeds DEF Drained, Late
<1> QED BY <1>4, <1>5, <1>6, <1>7, <1>8, <1>9, <1>10, <1>11, <1>12, <1>13, <1>14,
           ObserveOneFeeds, ObserveEndFeeds, SubscribeFeeds DEF Step

LEMMA NextFeeds ==
  ASSUME EndIInv, LogInv, FeedInv, [Next]_vars
  PROVE  FeedInv'
<1>0. ShapeInv /\ DOMAIN mgr = ManagerFields
  BY DEF EndIInv, ShapeInv
<1> DEFINE up == [NoManager("none") EXCEPT !.pc = "load"]
           end == NoManager("killed")
           none == NoManager("none")
<1>1. NoManagerFeeds(up) /\ up.pc = "load" /\ NoManagerFeeds(end) /\ end.pc = "down" /\ ~ NoFeed.on
  <2>1. NoManagerFeeds(none) /\ DOMAIN none = ManagerFields
    BY NoManagerSends, NoManagerIs
  <2> HIDE DEF none
  <2>2. up.fresh = none.fresh /\ up.loud = none.loud /\ up.feeds = none.feeds /\ up.pc = "load"
    BY <2>1 DEF ManagerFields, none
  <2>3. NoManagerFeeds(end) /\ end.pc = "down" /\ ~ NoFeed.on
    BY NoManagerSends, NoManagerIs
  <2> QED BY <2>1, <2>2, <2>3 DEF NoManagerFeeds
<1> HIDE DEF up, end
<1>2. mgr' \in {up, end} => FeedInv'
  BY <1>1, NobodyFollows DEF NoManagerFeeds
<1>3. ASSUME \A c \in Clients : mgr'.feeds[c] = mgr.feeds[c] \/ ~ mgr'.feeds[c].on,
             \A f \in {"pc", "then", "seq", "loud", "fresh"} : mgr'[f] = mgr[f]
      PROVE  FeedInv'
  <2>1. /\ mgr'.pc = mgr.pc /\ mgr'.then = mgr.then /\ mgr'.seq = mgr.seq /\ mgr'.loud = mgr.loud /\ mgr'.fresh = mgr.fresh
    BY <1>3
  <2>2. (Early(mgr') <=> Early(mgr)) /\ (Serves(mgr') <=> Serves(mgr))
    BY <2>1 DEF Early, Serves
  <2> QED BY <1>3, <2>1, <2>2, FeedsStay
<1>4. CASE Step
  BY <1>4, StepFeeds
<1>5. CASE Crash \/ Boot
  BY <1>2, <1>5 DEF Crash, Boot, up, end
<1>6. CASE Signal
  BY <1>0, <1>3, <1>6 DEF Signal, ManagerFields
<1>7. CASE mgr' = mgr
  BY <1>3, <1>7
<1>8. ASSUME NEW c \in Clients, run(c) PROVE FeedInv'
  <2>1. UserStep(c) \/ Launches(c) \/ Kills(c) \/ Lifts(c)
    BY <1>0, <1>8, CommandMoves
  <2>2. CASE UserStep(c)
    <3>1. /\ \A d \in Clients : mgr'.feeds[d] = mgr.feeds[d] \/ mgr'.feeds[d] = NoFeed
          /\ \A f \in {"pc", "then", "seq", "loud", "fresh"} : mgr'[f] = mgr[f]
      BY <1>0, <2>2 DEF UserStep, Keeps, ManagerFields
    <3> QED BY <1>1, <1>3, <3>1
  <2>3. CASE Launches(c)
    BY <1>2, <2>3 DEF Launches, up
  <2>4. CASE Kills(c)
    BY <1>2, <2>4 DEF Kills, end
  <2> QED BY <1>7, <2>1, <2>2, <2>3, <2>4 DEF Lifts
<1>9. CASE Edit \/ (\E c \in Clients : Begin(c) \/ Interrupt(c)) \/ UNCHANGED vars
  BY <1>7, <1>9 DEF Edit, Begin, Interrupt, vars
<1> QED BY <1>4, <1>5, <1>6, <1>8, <1>9 DEF Next

(***************************************************************************)
(* The table, the markers, the log and the followers together.             *)
(***************************************************************************)
DeliveryIInv == SoundIInv /\ FeedInv

LEMMA DeliveryBegins == Init => DeliveryIInv
<1> SUFFICES ASSUME Init PROVE DeliveryIInv
  OBVIOUS
<1>1. mgr = NoManager("none")
  BY DEF Init
<1>2. mgr.pc = "down" /\ mgr.fresh = << >> /\ ~ mgr.loud /\ \A c \in Clients : ~ mgr.feeds[c].on
  BY <1>1, NoManagerSends, NoManagerIs DEF NoManagerFeeds
<1>3. << >> \in Seq(Lines)
  OBVIOUS
<1>4. FeedInv
  BY <1>2, <1>3 DEF FeedInv, Serves
<1> QED BY <1>4, SoundBegins DEF DeliveryIInv

LEMMA DeliveryStep == DeliveryIInv /\ [Next]_vars => DeliveryIInv'
<1> SUFFICES ASSUME DeliveryIInv, [Next]_vars PROVE DeliveryIInv'
  OBVIOUS
<1>1. SoundIInv' /\ EndIInv /\ LogInv /\ FeedInv
  BY SoundStep DEF DeliveryIInv, SoundIInv, DaemonIInv
<1> QED BY <1>1, NextFeeds DEF DeliveryIInv

LEMMA DeliverySays == DeliveryIInv => EventsDelivered
<1> SUFFICES ASSUME DeliveryIInv PROVE EventsDelivered
  OBVIOUS
<1>1. SoundIInv /\ FeedInv
  BY DEF DeliveryIInv
<1>2. FollowersSeeAll
  BY <1>1 DEF FollowersSeeAll, FeedInv, Serves, Fed
<1> QED BY <1>1, <1>2, SoundSays DEF EventsDelivered

\* Besides what SoundInductive says: a follower has missed no line, and while
\* lines are collected to be sent it has every one before them.
THEOREM DeliveryInductive == Spec => []DeliveryIInv
<1> QED BY DeliveryBegins, DeliveryStep, PTL DEF Spec

\* Every event has its number in the log, and reaches every follower once
\* and in order: the ones a subscription asks for from the log, the later
\* ones from the manager (events_since, broadcast_events,
\* open_event_subscription).
THEOREM EventsAreDelivered == Spec => []EventsDelivered
<1> QED BY DeliveryInductive, DeliverySays, PTL
=============================================================================
