----------------------------- MODULE Fractalctl -----------------------------
(* The users of the control socket, and the system they make with the      *)
(* manager: every command of crates/fractalctl/src/main.rs is a process of *)
(* its own that sends one request after the other, reads markers and the   *)
(* event log itself, starts a manager that is down, and may be interrupted *)
(* at any time.                                                            *)
EXTENDS Daemon

(* ------------------------------ one command ---------------------------- *)

Now(c, cmd, at) == cli[c].cmd = cmd /\ cli[c].at = at /\ cli[c].conn \in {"none", "answered"}
Got(c, tag) == cli[c].ans.tag = tag
Name(c) == Written(cli[c].arg[1])

\* Connect and send; a manager that does not listen refuses at once.
Ask(c, k, tag, arg, at) ==
    IF Listening
    THEN /\ cli' = [cli EXCEPT ![c] = [k EXCEPT !.conn = "queued", !.at = at, !.ans = Down,
                                                !.line = request_as_line(Request(tag, arg))]]
         /\ mgr' = [mgr EXCEPT !.backlog = Append(@, c)]
    ELSE /\ cli' = [cli EXCEPT ![c] = [k EXCEPT !.conn = "answered", !.at = at, !.ans = Down]]
         /\ UNCHANGED mgr

current_status(c, at) == Ask(c, cli[c], "STATUS", << >>, at)

Goto(c, at) == cli' = [cli EXCEPT ![c].at = at, ![c].conn = "none"] /\ UNCHANGED mgr
Become(c, cmd) == cli' = [cli EXCEPT ![c].cmd = cmd, ![c].at = "begin", ![c].conn = "none"] /\ UNCHANGED mgr

\* The command returns; one that called another goes on after it.
Return(c) ==
    /\ cli' = [cli EXCEPT ![c] = NoUser]
    /\ mgr' = [mgr EXCEPT !.feeds[c] = IF cli[c].cmd = "follow_events" THEN NoFeed ELSE @]
ReturnTo(c, cmd, at) ==
    /\ cli' = [cli EXCEPT ![c] = [@ EXCEPT !.cmd = cmd, !.at = at, !.conn = "none", !.tries = 0]]
    /\ UNCHANGED mgr

Same == UNCHANGED <<mix, left, disk, reg, sealed>>

\* One request and its answer.
Single(c, cmd, tag) ==
    /\ \/ Now(c, cmd, "begin") /\ Ask(c, cli[c], tag, cli[c].arg, "asked")
       \/ Now(c, cmd, "asked") /\ Return(c)
    /\ Same

\* The commands that are no more than that; what they print and the code
\* they exit with is left out.  service_request is also any other client of
\* the socket, one that says nothing or nonsense included.
daemon_status(c)      == Single(c, "daemon_status", "STATUS")
isolate_service(c)    == Single(c, "isolate_service", "ISOLATE_SERVICE")
service_status(c)     == Single(c, "service_status", "SERVICE_STATUS")
restart_service(c)    == Single(c, "restart_service", "RESTART_SERVICE")
reset_failed_of(c)    == Single(c, "reset_failed", "RESET_FAILED")
list_services(c)      == Single(c, "list_services", "LIST")
reload_services(c)    == Single(c, "reload_services", "RELOAD")
reload_service_of(c)  == Single(c, "reload_service", "RELOAD_SERVICE")
is_active(c)          == Single(c, "is_active", "SERVICE_STATUS")
is_failed(c)          == Single(c, "is_failed", "SERVICE_STATUS")
transaction_status(c) == Single(c, "transaction_status", "TRANSACTION_STATUS")
service_request(c)    == Single(c, "service_request", cli[c].ret)

start_service(c) ==
    /\ \/ Now(c, "start_service", "begin") /\ current_status(c, "probe")
       \/ /\ Now(c, "start_service", "probe")
          /\ IF Got(c, "down") THEN Become(c, "start_daemon")
             ELSE IF Got(c, "STATUS") THEN Goto(c, "go") ELSE Return(c)
       \/ Now(c, "start_service", "go") /\ Ask(c, cli[c], "START_SERVICE", cli[c].arg, "asked")
       \/ Now(c, "start_service", "asked") /\ Return(c)
    /\ Same

\* Launch a manager and ask for its status until it answers, gives up, or
\* the attempts are over: then it is killed.
start_daemon(c) ==
    LET k == cli[c]
        Up == IF Got(c, "STATUS") /\ k.arg # << >> THEN ReturnTo(c, "start_service", "go") ELSE Return(c)
    IN  \/ Now(c, "start_daemon", "begin") /\ current_status(c, "probe") /\ Same
        \/ /\ Now(c, "start_daemon", "probe") /\ ~ Got(c, "down") /\ Up /\ Same
        \/ /\ Now(c, "start_daemon", "probe") /\ Got(c, "down")
           /\ IF mgr.pc = "down" /\ left.boots > 0
              THEN /\ left' = [left EXCEPT !.boots = @ - 1]
                   /\ mgr' = [NoManager("none") EXCEPT !.pc = "load"]
                   /\ cli' = [cli EXCEPT ![c].at = "ready", ![c].conn = "none"]
              ELSE Return(c) /\ UNCHANGED left
           /\ UNCHANGED <<mix, disk, reg, sealed>>
        \/ /\ Now(c, "start_daemon", "ready") /\ k.tries < Attempts
           /\ IF mgr.pc = "down" THEN Return(c)
              ELSE Ask(c, [k EXCEPT !.tries = @ + 1], "STATUS", << >>, "polled")
           /\ Same
        \/ /\ Now(c, "start_daemon", "ready") /\ k.tries = Attempts
           /\ mgr' = NoManager("killed") /\ reg' = Empty
           /\ cli' = [Disconnected EXCEPT ![c] = NoUser]
           /\ UNCHANGED <<mix, left, disk, sealed>>
        \/ /\ Now(c, "start_daemon", "polled")
           /\ IF Got(c, "down") THEN Goto(c, "ready") ELSE Up
           /\ Same

stop_daemon(c) ==
    LET k == cli[c]
    IN  /\ \/ Now(c, "stop_daemon", "begin") /\ Ask(c, k, "STOP", << >>, "asked")
           \/ Now(c, "stop_daemon", "asked") /\ Got(c, "STOPPING") /\ Goto(c, "watch")
           \/ Now(c, "stop_daemon", "asked") /\ ~ Got(c, "STOPPING") /\ Return(c)
           \/ Now(c, "stop_daemon", "watch") /\ k.tries < Attempts
              /\ Ask(c, [k EXCEPT !.tries = @ + 1], "STATUS", << >>, "seen")
           \/ Now(c, "stop_daemon", "watch") /\ k.tries = Attempts /\ Return(c)
           \/ Now(c, "stop_daemon", "seen") /\ Got(c, "STATUS") /\ Goto(c, "watch")
           \/ Now(c, "stop_daemon", "seen") /\ ~ Got(c, "STATUS") /\ Return(c)
        /\ Same

\* Ask for the stop, then for the status until the service is down.
StopsDown(a) == a.tag = "SERVICE" /\ a.values[2] \in {"defined", "exited", "failed"}

StopReturns(c) ==
    CASE cli[c].ret = "mask_service" -> ReturnTo(c, "mask_service", "mark")
      [] cli[c].ret = "disable_service" -> ReturnTo(c, "disable_service", "again")
      [] OTHER -> Return(c)

stop_service(c) ==
    LET k == cli[c]
    IN  /\ \/ Now(c, "stop_service", "begin") /\ Ask(c, k, "STOP_SERVICE", k.arg, "asked")
           \/ Now(c, "stop_service", "asked") /\ Got(c, "ACCEPTED") /\ Goto(c, "watch")
           \/ Now(c, "stop_service", "asked") /\ ~ Got(c, "ACCEPTED") /\ Return(c)
           \/ Now(c, "stop_service", "watch") /\ k.tries < Attempts
              /\ Ask(c, [k EXCEPT !.tries = @ + 1], "SERVICE_STATUS", k.arg, "seen")
           \/ Now(c, "stop_service", "watch") /\ k.tries = Attempts /\ Return(c)
           \/ Now(c, "stop_service", "seen") /\ StopsDown(k.ans) /\ StopReturns(c)
           \/ Now(c, "stop_service", "seen") /\ Got(c, "SERVICE") /\ ~ StopsDown(k.ans) /\ Goto(c, "watch")
           \/ Now(c, "stop_service", "seen") /\ ~ Got(c, "SERVICE") /\ Return(c)
        /\ Same

\* With --now, which `held` stands for here, the service is started too.
enable_service(c) ==
    LET k == cli[c]
        Then == IF k.held THEN Become(c, "start_service") ELSE Return(c)
    IN  \/ Now(c, "enable_service", "begin") /\ current_status(c, "probe") /\ Same
        \/ /\ Now(c, "enable_service", "probe") /\ ~ Got(c, "down")
           /\ IF Got(c, "STATUS") THEN Ask(c, k, "ENABLE_SERVICE", k.arg, "asked") ELSE Return(c)
           /\ Same
        \/ /\ Now(c, "enable_service", "probe") /\ Got(c, "down")
           /\ disk' = enable(disk, Name(c)) /\ Then
           /\ UNCHANGED <<mix, left, reg, sealed>>
        \/ /\ Now(c, "enable_service", "asked")
           /\ IF Got(c, "ENABLED") THEN Then ELSE Return(c)
           /\ Same

disable_service(c) ==
    LET k == cli[c]
    IN  \/ /\ Now(c, "disable_service", "begin")
           /\ current_status(c, IF k.held THEN "probe" ELSE "probe again") /\ Same
        \/ /\ Now(c, "disable_service", "probe")
           /\ IF Got(c, "STATUS")
              THEN cli' = [cli EXCEPT ![c] = [k EXCEPT !.cmd = "stop_service", !.at = "begin",
                                                       !.conn = "none", !.ret = "disable_service"]]
                   /\ UNCHANGED mgr
              ELSE IF Got(c, "down") THEN Goto(c, "again") ELSE Return(c)
           /\ Same
        \/ Now(c, "disable_service", "again") /\ current_status(c, "probe again") /\ Same
        \/ /\ Now(c, "disable_service", "probe again") /\ ~ Got(c, "down")
           /\ IF Got(c, "STATUS") THEN Ask(c, k, "DISABLE_SERVICE", k.arg, "asked") ELSE Return(c)
           /\ Same
        \/ /\ Now(c, "disable_service", "probe again") /\ Got(c, "down")
           /\ disk' = disable(disk, Name(c)) /\ Return(c)
           /\ UNCHANGED <<mix, left, reg, sealed>>
        \/ Now(c, "disable_service", "asked") /\ Return(c) /\ Same

\* Stop it if it is up, mark it, and have the descriptors loaded again.  Of
\* the errors to the first question, two are passed over: the answers here
\* do not tell them from the others.
\* `held` remembers that nobody unmasked the name since the mark.
mask_service(c) ==
    LET k == cli[c]
        up == Got(c, "SERVICE") /\ ~ StopsDown(k.ans)
    IN  \/ Now(c, "mask_service", "begin") /\ current_status(c, "probe") /\ Same
        \/ /\ Now(c, "mask_service", "probe")
           /\ IF Got(c, "STATUS") THEN Ask(c, k, "SERVICE_STATUS", k.arg, "looked")
              ELSE IF Got(c, "down") THEN Goto(c, "mark") ELSE Return(c)
           /\ Same
        \/ /\ Now(c, "mask_service", "looked")
           /\ IF up
              THEN cli' = [cli EXCEPT ![c] = [k EXCEPT !.cmd = "stop_service", !.at = "begin",
                                                       !.conn = "none", !.ret = "mask_service"]]
                   /\ UNCHANGED mgr
              ELSE \/ ~ Got(c, "broken") /\ Goto(c, "mark")
                   \/ (Got(c, "broken") \/ Got(c, "ERR")) /\ Return(c)
           /\ Same
        \/ /\ Now(c, "mask_service", "mark")
           /\ disk' = mask(disk, Name(c))
           /\ cli' = [cli EXCEPT ![c] = [k EXCEPT !.at = "marked", !.conn = "none", !.held = TRUE]]
           /\ UNCHANGED <<mix, left, reg, mgr, sealed>>
        \/ Now(c, "mask_service", "marked") /\ current_status(c, "probe again") /\ Same
        \/ /\ Now(c, "mask_service", "probe again")
           /\ IF Got(c, "STATUS") THEN Ask(c, k, "RELOAD", << >>, "reloaded") ELSE Return(c)
           /\ Same
        \/ /\ Now(c, "mask_service", "reloaded")
           /\ sealed' = IF Got(c, "RELOADED") /\ k.held THEN sealed \cup {Name(c).n} ELSE sealed
           /\ Return(c)
           /\ UNCHANGED <<mix, left, disk, reg>>

unmask_service(c) ==
    \/ /\ Now(c, "unmask_service", "begin")
       /\ disk' = unmask(disk, Name(c))
       /\ sealed' = sealed \ {Name(c).n}
       /\ cli' = [d \in Clients |->
                    IF d = c THEN [cli[c] EXCEPT !.at = "cleared"]
                    ELSE IF cli[d].cmd = "mask_service" /\ Name(d).n = Name(c).n
                    THEN [cli[d] EXCEPT !.held = FALSE] ELSE cli[d]]
       /\ UNCHANGED <<mix, left, reg, mgr>>
    \/ Now(c, "unmask_service", "cleared") /\ current_status(c, "probe") /\ Same
    \/ /\ Now(c, "unmask_service", "probe")
       /\ IF Got(c, "STATUS") THEN Ask(c, cli[c], "RELOAD", << >>, "reloaded") ELSE Return(c)
       /\ Same
    \/ Now(c, "unmask_service", "reloaded") /\ Return(c) /\ Same

\* Follow the events until the manager closes the stream.
follow_events(c) ==
    /\ \/ Now(c, "follow_events", "begin") /\ Ask(c, cli[c], "SUBSCRIBE", cli[c].arg, "following")
       \/ Now(c, "follow_events", "following") /\ Return(c)
    /\ Same

\* The shell starts one of the commands.
Begin(c) ==
    /\ c \in mix.users /\ cli[c].cmd = "idle" /\ left.commands > 0
    /\ left' = [left EXCEPT !.commands = @ - 1]
    /\ \E i \in DOMAIN mix.commands :
        LET k == mix.commands[i] IN
        cli' = [cli EXCEPT ![c] = [NoUser EXCEPT !.cmd = k.cmd, !.arg = k.arg, !.ret = k.req,
                                                 !.held = k.now]]
    /\ UNCHANGED <<mix, disk, reg, mgr, sealed>>

\* A command is interrupted while it waits for the manager.
Interrupt(c) ==
    /\ left.kills > 0 /\ cli[c].conn \in {"queued", "taken", "following"}
    /\ left' = [left EXCEPT !.kills = @ - 1]
    /\ cli' = [cli EXCEPT ![c] = [NoUser EXCEPT !.cmd = "gone", !.conn = "gone", !.line = cli[c].line]]
    /\ UNCHANGED <<mix, disk, reg, mgr, sealed>>

run(c) ==
    \/ service_request(c) \/ start_service(c) \/ start_daemon(c) \/ stop_daemon(c) \/ stop_service(c)
    \/ enable_service(c) \/ disable_service(c) \/ mask_service(c) \/ unmask_service(c)
    \/ follow_events(c) \/ daemon_status(c) \/ isolate_service(c) \/ service_status(c)
    \/ restart_service(c) \/ reset_failed_of(c) \/ list_services(c) \/ reload_services(c)
    \/ reload_service_of(c) \/ is_active(c) \/ is_failed(c) \/ transaction_status(c)

(* ------------------------------ the system ----------------------------- *)

Next ==
    \/ Step \/ Crash \/ Boot \/ Signal \/ Edit
    \/ \E c \in Clients : run(c) \/ Begin(c) \/ Interrupt(c)

CONSTANT Mixes

States == {"defined", "starting", "running", "stopping", "backoff", "exited", "failed"}

\* The arguments that are no names of services, and the commands that go
\* nowhere without a name.
NoName(cmd, req) ==
    \/ cmd \in {"follow_events", "transaction_status"}
    \/ cmd = "service_request" /\ req \in {"SUBSCRIBE", "TRANSACTION_STATUS", "SHUTDOWN"}
OneName(cmd) ==
    cmd \in {"stop_service", "enable_service", "disable_service", "mask_service", "unmask_service"}

Called(cmd, arg, req) ==
    /\ arg \in Seq(STRING) /\ (OneName(cmd) => arg # << >>)
    /\ NoName(cmd, req) \/ \A j \in 1 .. Len(arg) : Written(arg[j]).n \in Names

\* A log that an earlier manager left when it ended by itself.
LeftLog(log) ==
    /\ log \in Seq([seq : 0 .. MaxSequence, whole : {TRUE}])
    /\ \A i \in 2 .. Len(log) : log[i].seq = saturating_succ(log[i - 1].seq)

\* "idle" and "gone" are no commands: they say that a user runs none, or
\* that one was interrupted.  Names are all the names anybody uses.
ASSUME MixesAssumption ==
    \A m \in Mixes :
        /\ m.starts \in Nat /\ m.fates \subseteq States /\ m.enabled \subseteq Names
        /\ LeftLog(m.log)
        /\ \A i \in DOMAIN m.commands :
            LET k == m.commands[i]
            IN  k.cmd \notin {"idle", "gone"} /\ Called(k.cmd, k.arg, k.req)

Init ==
    /\ mix \in Mixes
    /\ left = mix.left
    /\ disk = [files |-> mix.files, masked |-> {}, enabled |-> mix.enabled, log |-> mix.log, pid |-> FALSE]
    /\ reg = Empty
    /\ mgr = NoManager("none")
    /\ cli = [c \in Clients |-> NoUser]
    /\ sealed = {}

Spec == Init /\ [][Next]_vars

\* The loop never blocks for ever, and a command with an answer goes on.
Ready(c) == cli[c].cmd \notin {"idle", "gone"} /\ cli[c].conn \in {"none", "answered"}

FairSpec ==
    /\ Spec
    /\ []<>(mgr.pc = "down") \/ []<><<Step>>_vars
    /\ \A c \in Clients : []<>(~ Ready(c)) \/ []<><<run(c)>>_vars

(* ------------------------------ properties ----------------------------- *)

\* Disk, registry, manager and clients.
TypeOK ==
    /\ disk.masked \subseteq Names /\ disk.enabled \subseteq Names /\ disk.pid \in BOOLEAN
    /\ Loaded(reg) \subseteq Names /\ reg.jobs \subseteq Names
    /\ \A n \in Loaded(reg) : reg.services[n].st \in States /\ reg.services[n].gen \in 0 .. mix.starts
    /\ mgr.seq \in Nat /\ mgr.next_tx \in Nat \ {0}
    /\ mgr.pc \in {"down", "load", "bring", "bind", "turn", "observe", "accept", "answer", "wait", "drain", "late"}
    /\ ToSet(mgr.backlog) \subseteq Clients
    /\ \A c \in Clients : cli[c].conn \in {"none", "queued", "taken", "answered", "following", "gone"}
    /\ sealed \subseteq Names

\* The events of the log keep their numbers and their order whatever kills
\* the manager, however often it starts again and compacts the log.
EventsInOrder == mgr.pc \notin {"down", "load"} => NumberedInOrder(disk.log, mgr.seq)

\* A follower gets every event once and in order, first from the log and
\* then from the manager, and between two turns it has the newest one.
FollowersSeeAll ==
    \A c \in Clients :
        mgr.feeds[c].on =>
            /\ mgr.feeds[c].whole
            /\ mgr.pc = "turn" /\ mgr.feeds[c].last # NoSeq =>
                    saturating_succ(mgr.feeds[c].last) = mgr.seq

\* Every event has its number, and reaches every follower once.
EventsDelivered == EventsInOrder /\ FollowersSeeAll

\* A record keeps what it says, a settled one for good, and a pending one
\* is never dropped to make room.
TransactionsAreHonest ==
    [][mgr.pc # "down" /\ mgr'.pc # "down" =>
        \A id \in DOMAIN mgr.txs :
            IF id \in DOMAIN mgr'.txs
            THEN /\ mgr'.txs[id].op = mgr.txs[id].op /\ mgr'.txs[id].name = mgr.txs[id].name
                 /\ mgr.txs[id].state # "pending" => mgr'.txs[id] = mgr.txs[id]
            ELSE mgr.txs[id].state # "pending"]_vars

\* A service that is up keeps the descriptor and the identity it was
\* started with, also across a reload during which others stop and it is
\* started again.
RunningKeepsItsSpec ==
    [][mgr'.pc # "down" =>
        \A n \in Loaded(reg) :
            ~ Stopped(reg.services[n]) => n \in Loaded(reg') /\ SameSpec(reg.services[n], reg'.services[n])]_vars

\* No two services share a dynamic identity.
OwnIdentities == IdentitiesDistinct(reg)

\* Every alias leads to a service and hides none.
AliasesSound == AliasesLead(reg)

\* Once a mask command has succeeded, and until the name is unmasked, no
\* request, reload, dependency or restart of the manager loads the service.
MaskHolds == sealed \cap Loaded(reg) = {}

\* A reload changes the table and never what is running or recorded.
RecordsKept == TransactionsAreHonest /\ RunningKeepsItsSpec

\* The table of services is sound after every boot, load on demand and reload:
\* identities are distinct, aliases lead somewhere, masked names are not in it.
RegistrySound == TypeOK /\ OwnIdentities /\ AliasesSound /\ MaskHolds

\* The loop ends by itself only after a drain, for a pid file that is gone,
\* or because a client went away before its answer: a follower that goes
\* away, however it does, does not end it.
OnlyLostAnswersEndIt ==
    [][mgr.pc # "down" /\ mgr'.end = "answer lost" =>
        \E c \in Clients : cli[c].cmd = "gone" /\ request_parse(cli[c].line).tag # "SUBSCRIBE"]_vars

\* The machine is switched off only when no service is left.
PowerAfterDrain == [][mgr'.power # "none" /\ mgr.power = "none" => is_stopped(reg)]_vars

\* The manager ends, and the machine with it, only for a reason.
OrderlyEnd == OnlyLostAnswersEndIt /\ PowerAfterDrain

\* Every command returns: nobody waits for ever for a manager that is busy
\* with a reload, drains, is killed, or does not start.
CommandsReturn ==
    \A c \in Clients :
        cli[c].cmd \notin {"idle", "gone", "follow_events"} ~> cli[c].cmd \in {"idle", "gone"}
=============================================================================
