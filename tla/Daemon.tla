------------------------------- MODULE Daemon -------------------------------
(* The manager process of crates/fractald/src/main.rs: boot, the loop that *)
(* polls the supervisor, numbers its events and answers one request at a   *)
(* time, the reload of the descriptors and the drain before it ends.       *)
(*                                                                         *)
(* The supervisor is here what its interface promises: which service it    *)
(* starts or stops, and that its processes go on by themselves between two *)
(* polls.  How it decides is Supervisor.tla and ManagedService.tla.        *)
(*                                                                         *)
(*   mix   what this behaviour may do: who uses the host, what becomes of  *)
(*         processes, and how often a service may start                    *)
(*   left  how much of it is left                                          *)
(*   disk  the service directories, the markers, the event log, the pid    *)
(*         file                                                            *)
(*   reg   the supervisor: the registry with the state of every service    *)
(*   mgr   the process: its place, its journal, its transactions, its      *)
(*         connections                                                     *)
(*   cli   the users of the control socket                                 *)
(*   sealed  the names whose masking has succeeded and was not undone      *)
EXTENDS Registry, EventLog, Wire

CONSTANTS Clients,
          MaxEvents,      \* FRACTALD_EVENT_LOG_EVENTS
          MaxRecords,     \* MAX_TRANSACTION_RECORDS
          WaitPolls,      \* polls within the ten seconds of a reload or a drain
          Attempts        \* START_ATTEMPTS and STOP_ATTEMPTS

\* EventJournal::open keeps one line at least, whatever it is told.
ASSUME DaemonAssumption == MaxEvents \in Nat \ {0}

VARIABLES mix, left, disk, reg, mgr, cli, sealed

vars == <<mix, left, disk, reg, mgr, cli, sealed>>

(* --------------------------- the supervisor ---------------------------- *)

With(r, n, s) == [r EXCEPT !.services[n] = s]

Launched(s) ==
    IF s.gen < mix.starts THEN [s EXCEPT !.st = "starting", !.gen = @ + 1, !.again = FALSE]
    ELSE [s EXCEPT !.st = "failed", !.again = FALSE]

\* A start: nothing for a service that is up; otherwise what it needs is
\* launched and the service itself too, at once or by a queued job.
start(r, n) ==
    LET s == r.services[n]
        idle == {m \in s.spec.needs \cap Loaded(r) : Stopped(r.services[m])}
        ready == [r EXCEPT !.services = [m \in DOMAIN @ |-> IF m \in idle THEN Launched(@[m]) ELSE @[m]]]
    IN  IF s.st \in {"starting", "running"} THEN {Done(r)}
        ELSE IF ~ Stopped(s) THEN {Done([r EXCEPT !.jobs = @ \cup {n}])}
        ELSE IF s.gen = mix.starts THEN {Refused(With(r, n, Launched(s)))}
        ELSE {Done(With(ready, n, Launched(s)))}
             \cup (IF idle = {} THEN {} ELSE {Done([ready EXCEPT !.jobs = @ \cup {n}])})

StopOf(s) ==
    CASE s.st \in {"starting", "running"} -> [s EXCEPT !.st = "stopping", !.again = FALSE]
      [] s.st = "backoff" -> [s EXCEPT !.st = "defined"]
      [] OTHER -> [s EXCEPT !.again = FALSE]

\* The services of S are told to stop.
Stopping(r, S) == [r EXCEPT !.services = [n \in DOMAIN @ |-> IF n \in S THEN StopOf(@[n]) ELSE @[n]]]

stop(r, n) == [Stopping(r, {n}) EXCEPT !.jobs = @ \ {n}]

stop_all(r) == [Stopping(r, Loaded(r)) EXCEPT !.jobs = {}]

restart(r, n) ==
    IF r.services[n].st \in {"starting", "running", "stopping"}
    THEN {Done(With(stop(r, n), n, [StopOf(r.services[n]) EXCEPT !.again = TRUE]))}
    ELSE start(stop(r, n), n)

isolate(r, n) ==
    LET keep == {n} \cup r.services[n].spec.needs
    IN  start([Stopping(r, Loaded(r) \ keep) EXCEPT !.jobs = @ \cap keep], n)

reload_service(r, n) ==
    IF r.services[n].st # "running" THEN {Refused(r)}
    ELSE {Done(With(r, n, [r.services[n] EXCEPT !.reload = "pending"]))}

reset_failed(r, S) ==
    [r EXCEPT !.services = [n \in DOMAIN @ |->
        IF n \in S /\ @[n].st = "failed" THEN [@[n] EXCEPT !.st = "defined"] ELSE @[n]]]

\* What a poll may find one service to have become, and do about it.
Polled(r, n) ==
    LET s == r.services[n]
        To(states) == {With(r, n, [s EXCEPT !.st = x]) : x \in states \cap mix.fates}
    IN  {r} \cup
        (CASE s.st = "starting" -> To({"running", "exited", "failed", "backoff"})
           [] s.st = "running" -> To({"exited", "failed", "backoff"})
           [] s.st = "backoff" -> {With(r, n, Launched(s))}
           [] s.st = "stopping" ->
                IF s.again THEN {With(r, n, Launched(s))} ELSE To({"defined"})
           [] n \in r.jobs ->
                {[With(r, n, Launched(s)) EXCEPT !.jobs = @ \ {n}], [r EXCEPT !.jobs = @ \ {n}]}
           [] s.spec.fires /\ s.gen < mix.starts -> {With(r, n, Launched(s))}
           [] OTHER -> {}) \cup
        (IF s.reload = "pending"
         THEN {With(r, n, [s EXCEPT !.reload = x]) : x \in {"done", "failed"}} ELSE {})

\* A poll looks at every service.  A job whose service is gone stays.
poll(r) ==
    LET Each(S, n) == UNION {Polled(q, n) : q \in S}
    IN  Walk(Each, {r}, InOrder(Loaded(r)))

is_stopped(r) == r.jobs = {} /\ \A n \in Loaded(r) : Stopped(r.services[n])

Ends(r, q) ==
    \E n \in Loaded(r) : ~ Stopped(r.services[n]) /\ q.services[n].st \in {"exited", "failed"}

(* ------------------------------ on the wire ---------------------------- *)

Suffixed(s) == \E n \in Names : s = n \o ".svc"
Written(s) ==
    IF Suffixed(s) THEN [n |-> CHOOSE n \in Names : s = n \o ".svc", svc |-> TRUE] ELSE Plain(s)
Text(w) == IF w.svc THEN w.n \o ".svc" ELSE w.n
Joined(names) == FoldLeft(LAMBDA t, n : IF t = "" THEN n ELSE t \o "," \o n, "", names)

(* ---------------------------- transactions ----------------------------- *)

Settled(op, s) ==
    CASE op \in {"start", "restart", "isolate"} ->
           CASE s.st \in {"running", "exited"} -> "done"
             [] s.st = "failed" -> "failed"
             [] OTHER -> "pending"
      [] op = "stop" -> IF Stopped(s) THEN "done" ELSE "pending"
      [] op = "reload" -> IF s.reload = "none" THEN "failed" ELSE s.reload

refresh_transactions(txs, r) ==
    [id \in DOMAIN txs |->
        IF txs[id].state # "pending" THEN txs[id]
        ELSE [txs[id] EXCEPT !.state = IF txs[id].name \notin Loaded(r) THEN "failed"
                                       ELSE Settled(txs[id].op, r.services[txs[id].name])]]

\* The settled records go, the oldest first, down to the limit; the pending
\* ones stay even above it.
prune_transactions(txs) ==
    LET settled == {id \in DOMAIN txs : txs[id].state # "pending"}
        excess == Cardinality(DOMAIN txs) - MaxRecords
        gone == {id \in settled : Cardinality({k \in settled : k < id}) < excess}
    IN  [id \in DOMAIN txs \ gone |-> txs[id]]

\* The answer to an accepted operation, and the table with its record.
accepted_transaction(m, op, n) ==
    LET id == m.next_tx
    IN  [m EXCEPT !.txs = prune_transactions(Put(@, {id}, [op |-> op, name |-> n, state |-> "pending"])),
                  !.next_tx = @ + 1,
                  !.resp = Reply("ACCEPTED", <<ToString(id), op, n>>)]

transaction_response(txs, id) ==
    IF id \in DOMAIN txs
    THEN Reply("TRANSACTION", <<ToString(id), txs[id].op, txs[id].name, txs[id].state>>)
    ELSE Reply("TRANSACTION", <<ToString(id), "unknown", "-", "unknown">>)

(* ------------------------------- the users ----------------------------- *)

Down == Reply("down", << >>)
NoUser == [cmd |-> "idle", arg |-> << >>, at |-> "begin", conn |-> "none", line |-> << >>,
           ans |-> Down, tries |-> 0, ret |-> "none", held |-> FALSE]
NoFeed == [on |-> FALSE, last |-> NoSeq, whole |-> TRUE]
Listening == mgr.pc \in {"turn", "observe", "accept", "answer", "wait", "drain", "late"} /\ mgr.bound

\* Every connection of a process that ends is reset; a request it was
\* working on sees the end of the stream.
Disconnected ==
    [c \in Clients |->
        CASE cli[c].conn \in {"queued", "following"} -> [cli[c] EXCEPT !.conn = "answered", !.ans = Down]
          [] cli[c].conn = "taken" -> [cli[c] EXCEPT !.conn = "answered", !.ans = response_parse(<< >>)]
          [] OTHER -> cli[c]]

(* ------------------------------ the process ---------------------------- *)

NoManager(why) ==
    [pc |-> "down", then |-> "none", bound |-> FALSE, loud |-> FALSE, seq |-> 0, last |-> << >>,
     fresh |-> << >>, txs |-> << >>, next_tx |-> 1, feeds |-> [c \in Clients |-> NoFeed],
     backlog |-> << >>, client |-> << >>, resp |-> Down, specs |-> << >>, stopping |-> {},
     waits |-> 0, signal |-> FALSE, action |-> "none", power |-> "none", end |-> why]

\* The process ends; its services end with it.
EndProcess(why) ==
    /\ mgr' = [NoManager(why) EXCEPT !.power = IF why = "stopped" THEN mgr.action ELSE "none"]
    /\ reg' = Empty
    /\ cli' = Disconnected
    /\ disk' = [disk EXCEPT !.pid = FALSE]

Quiet == UNCHANGED <<mix, left, sealed>>

Snapshot(n) == <<reg.services[n].st, reg.services[n].gen>>

\* run_daemon up to the first events: the descriptors that do not load, or
\* a log that cannot be read, end it before it serves anybody.
Load ==
    LET loaded == load_services(disk)
    IN  /\ mgr.pc = "load"
        /\ IF loaded.ok
           THEN /\ reg' = loaded.reg
                /\ disk' = [disk EXCEPT !.log = compact_if_needed(@, MaxEvents)]
                /\ mgr' = [mgr EXCEPT !.pc = "observe", !.then = "bring", !.seq = OpenSequence(disk.log)]
                /\ UNCHANGED cli
           ELSE EndProcess("refused")
        /\ Quiet

\* start_profile_services, then start_enabled, one after the other: what
\* cannot be loaded or started is passed over.
StartEach(S, names, ask) ==
    LET One(r, n) == LET found == IF ask THEN ensure_service_loaded(r, disk, Plain(n))
                                  ELSE [ok |-> n \in Loaded(r), reg |-> r, name |-> n]
                     IN  IF found.ok THEN {o.reg : o \in start(found.reg, found.name)} ELSE {found.reg}
        Each(T, n) == UNION {One(r, n) : r \in T}
    IN  Walk(Each, S, names)

ProfileNames(r) == InOrder({n \in Loaded(r) : r.services[n].spec.profile})

start_enabled(S) == StartEach(S, enabled_names(disk), TRUE)

BringUp(r) == start_enabled(StartEach({r}, ProfileNames(r), FALSE))

Bring ==
    /\ mgr.pc = "bring"
    /\ \E r \in BringUp(reg) : reg' = r
    /\ mgr' = [mgr EXCEPT !.pc = "observe", !.then = "bind"]
    /\ UNCHANGED <<disk, cli>> /\ Quiet

bind_listener ==
    /\ mgr.pc = "bind"
    /\ mgr' = [mgr EXCEPT !.pc = "turn", !.bound = TRUE]
    /\ disk' = [disk EXCEPT !.pid = TRUE]
    /\ UNCHANGED <<reg, cli>> /\ Quiet

\* The top of the loop: a signal or a manager action begins the drain,
\* otherwise the transactions follow the services.
Turn ==
    /\ mgr.pc = "turn"
    /\ IF mgr.signal
       THEN /\ reg' = stop_all(reg)
            /\ mgr' = [mgr EXCEPT !.pc = "observe", !.loud = TRUE, !.then = "drain", !.waits = 0]
       ELSE \E r \in poll(reg), a \in mix.actions \cup {"none"} :
            /\ a # "none" => Ends(reg, r)
            /\ IF a = "exit" \/ (a # "none" /\ mix.pid1)
               THEN /\ reg' = stop_all(r)
                    /\ mgr' = [mgr EXCEPT !.pc = "observe", !.loud = TRUE, !.then = "drain", !.waits = 0,
                                          !.action = IF mix.pid1 /\ a # "exit" THEN a ELSE "none"]
               ELSE /\ reg' = r
                    /\ mgr' = [mgr EXCEPT !.pc = "observe", !.loud = TRUE, !.then = "accept",
                                          !.txs = refresh_transactions(@, r)]
    /\ UNCHANGED <<disk, cli>> /\ Quiet

ChangedNames ==
    InOrder({n \in Loaded(reg) : n \notin DOMAIN mgr.last \/ mgr.last[n] # Snapshot(n)})

\* EventJournal::observe, one changed service: the line is in the log before
\* anything else knows of it.
ObserveOne ==
    /\ mgr.pc = "observe" /\ ChangedNames # << >>
    /\ LET n == ChangedNames[1]
       IN  /\ disk' = [disk EXCEPT !.log = append(@, WholeLine(mgr.seq))]
           /\ mgr' = [mgr EXCEPT !.seq = saturating_succ(@), !.fresh = Append(@, WholeLine(mgr.seq)),
                                 !.last = [m \in DOMAIN @ \cup {n} |-> IF m = n THEN Snapshot(n) ELSE @[m]]]
    /\ UNCHANGED <<reg, cli>> /\ Quiet

\* A follower takes one line: `whole` remembers whether it ever missed an
\* event or got one twice.  Half a line, left by a crash, is no event; it
\* may have used up a number.
Feed(f, line) ==
    IF line.whole
    THEN [f EXCEPT !.last = line.seq,
                   !.whole = @ /\ (f.last = NoSeq \/ line.seq = saturating_succ(f.last))]
    ELSE [f EXCEPT !.last = IF @ # NoSeq /\ line.seq = @ + 1 THEN @ + 1 ELSE @]

FeedAll(f, lines) == Walk(Feed, f, lines)

\* A follower that is gone, or too slow for a write that may not block, is
\* dropped and its connection closed.
broadcast_events(feeds, slow, lines) ==
    [c \in Clients |->
        IF ~ feeds[c].on THEN feeds[c]
        ELSE IF lines # << >> /\ (c \in slow \/ cli[c].conn # "following") THEN NoFeed
        ELSE FeedAll(feeds[c], lines)]

ObserveEnd ==
    /\ mgr.pc = "observe" /\ ChangedNames = << >>
    /\ disk' = [disk EXCEPT !.log = compact_if_needed(@, MaxEvents)]
    /\ \E slow \in SUBSET {c \in Clients : mgr.feeds[c].on} :
        LET feeds == IF mgr.loud THEN broadcast_events(mgr.feeds, slow, mgr.fresh) ELSE mgr.feeds
        IN  /\ mgr' = [mgr EXCEPT !.pc = mgr.then, !.fresh = << >>, !.loud = FALSE, !.feeds = feeds]
            /\ cli' = [c \in Clients |->
                         IF mgr.feeds[c].on /\ ~ feeds[c].on /\ cli[c].conn = "following"
                         THEN [cli[c] EXCEPT !.conn = "answered", !.ans = Down] ELSE cli[c]]
    /\ UNCHANGED reg /\ Quiet

(* ------------------------------ the requests --------------------------- *)

\* Every request's effect is a set of [reg, m]: the registry and the
\* process with its answer.
Answered(m, resp) == [m EXCEPT !.resp = resp]
Effect(r, m) == [reg |-> r, m |-> m]

\* start, stop, restart, isolate and reload of a service share one shape:
\* load what is named, do it, and open a transaction.
Operation(m, s, op) ==
    LET found == ensure_service_loaded(reg, disk, Written(s))
        n == found.name
        done == CASE op = "start" -> start(found.reg, n)
                  [] op = "stop" -> {Done(stop(found.reg, n))}
                  [] op = "restart" -> restart(found.reg, n)
                  [] op = "isolate" -> isolate(found.reg, n)
                  [] op = "reload" -> reload_service(found.reg, n)
    IN  IF ~ found.ok THEN {Effect(found.reg, Answered(m, Error("not loaded")))}
        ELSE {Effect(o.reg, IF o.ok THEN accepted_transaction(m, op, n)
                            ELSE Answered(m, Error("refused"))) : o \in done}

StartService(m, s)   == Operation(m, s, "start")
StopService(m, s)    == Operation(m, s, "stop")
RestartService(m, s) == Operation(m, s, "restart")
IsolateService(m, s) == Operation(m, s, "isolate")
ReloadService(m, s)  == Operation(m, s, "reload")

ServiceStatus(m, s) ==
    LET found == ensure_service_loaded(reg, disk, Written(s))
    IN  {Effect(found.reg, Answered(m, IF found.ok
            THEN Reply("SERVICE", <<found.name, found.reg.services[found.name].st,
                                    ToString(found.reg.services[found.name].gen)>>)
            ELSE Error("not loaded")))}

\* One name, or every service.
ResetFailed(m, arg) ==
    LET who == IF arg = << >> THEN Loaded(reg) ELSE {canonical_service_name(reg, Written(arg[1])).n}
    IN  IF ~ who \subseteq Loaded(reg) THEN {Effect(reg, Answered(m, Error("unknown")))}
        ELSE {Effect(reset_failed(reg, who), Answered(m, Reply("RESET_FAILED", << >>)))}

\* Stop, and a shutdown that a manager other than process 1 may not do.
Shutdown(m, action) ==
    IF action # "stop" /\ ~ mix.pid1 THEN {Effect(reg, Answered(m, Error("not pid 1")))}
    ELSE {Effect(stop_all(reg), [m EXCEPT !.resp = Reply("STOPPING", << >>), !.then = "drain",
                                          !.action = IF action = "stop" THEN "none" ELSE action])}

\* reload_native_configuration up to its wait: what changed and is up stops.
BeginReload(m) ==
    LET specs == load_service_specs(disk)
        stopping == {n \in Loaded(reg) : Changed(reg, specs, n) /\ ~ Stopped(reg.services[n])}
    IN  IF ~ SpecsReadable(disk) THEN {Effect(reg, Answered(m, Error("not readable")))}
        ELSE {Effect([Stopping(reg, stopping) EXCEPT !.jobs = @ \ stopping],
                     [m EXCEPT !.pc = "wait", !.specs = specs, !.stopping = stopping, !.waits = 0])}

Canonical(s) == canonical_service_name(reg, Written(s))

Handled(m, q) ==
    CASE q.tag = "STATUS" -> {Effect(reg, Answered(m, Reply("STATUS", <<"1", "0">>)))}
      [] q.tag = "PING" -> {Effect(reg, Answered(m, Reply("PONG", << >>)))}
      [] q.tag = "LIST" -> {Effect(reg, Answered(m, Reply("SERVICES", <<Joined(InOrder(Loaded(reg)))>>)))}
      [] q.tag = "STOP" -> Shutdown(m, "stop")
      [] q.tag = "SHUTDOWN" -> Shutdown(m, q.arg[1])
      [] q.tag = "RELOAD" -> BeginReload(m)
      [] q.tag = "ENABLE_SERVICE" -> {Effect(reg, Answered(m, Reply("ENABLED", <<Text(Canonical(q.arg[1]))>>)))}
      [] q.tag = "DISABLE_SERVICE" -> {Effect(reg, Answered(m, Reply("DISABLED", <<Text(Canonical(q.arg[1]))>>)))}
      [] q.tag = "IS_ENABLED" ->
            {Effect(reg, Answered(m, Reply("ENABLED_STATUS",
                <<Text(Canonical(q.arg[1])), IF is_enabled(disk, Canonical(q.arg[1])) THEN "1" ELSE "0">>)))}
      [] q.tag = "SERVICE_STATUS" -> ServiceStatus(m, q.arg[1])
      [] q.tag = "TRANSACTION_STATUS" ->
            {Effect(reg, Answered(m, transaction_response(m.txs, Number(q.arg[1]))))}
      [] q.tag = "START_SERVICE" -> StartService(m, q.arg[1])
      [] q.tag = "ISOLATE_SERVICE" -> IsolateService(m, q.arg[1])
      [] q.tag = "STOP_SERVICE" -> StopService(m, q.arg[1])
      [] q.tag = "RESTART_SERVICE" -> RestartService(m, q.arg[1])
      [] q.tag = "RELOAD_SERVICE" -> ReloadService(m, q.arg[1])
      [] q.tag = "RESET_FAILED" -> ResetFailed(m, q.arg)
      [] OTHER -> {Effect(reg, Answered(m, Error("malformed")))}

Marked(q) ==
    CASE q.tag = "ENABLE_SERVICE" -> enable(disk, Canonical(q.arg[1]))
      [] q.tag = "DISABLE_SERVICE" -> disable(disk, Canonical(q.arg[1]))
      [] OTHER -> disk

\* The bottom of the loop: the manager ends when its pid file is gone.
LoopEnd(m) ==
    IF disk.pid THEN /\ mgr' = [m EXCEPT !.pc = "turn"] /\ UNCHANGED <<reg, cli, disk>>
    ELSE EndProcess("pid file")

Idle ==
    /\ mgr.pc = "accept" /\ mgr.backlog = << >>
    /\ LoopEnd(mgr) /\ Quiet

\* A request that is taken from the backlog and carried out.
Serve(c, q) ==
    LET m == [mgr EXCEPT !.pc = "answer", !.backlog = Tail(@), !.client = <<c>>, !.then = "turn"]
    IN  /\ \E e \in Handled(m, q) : reg' = e.reg /\ mgr' = e.m
        /\ disk' = Marked(q)
        /\ cli' = [cli EXCEPT ![c].conn = IF @ = "queued" THEN "taken" ELSE @]

\* Mutant: what cannot be parsed is dropped without an answer.
Accept_unanswered ==
    /\ mgr.pc = "accept" /\ mgr.backlog # << >>
    /\ LET c == mgr.backlog[1]
           q == request_parse(cli[c].line)
       IN  /\ q.tag # "SUBSCRIBE"
           /\ IF q.tag # "malformed" THEN Serve(c, q)
              ELSE /\ mgr' = [mgr EXCEPT !.pc = "turn", !.backlog = Tail(@)]
                   /\ cli' = [cli EXCEPT ![c].conn = IF @ = "queued" THEN "taken" ELSE @]
                   /\ UNCHANGED <<disk, reg>>
    /\ Quiet

\* The next connection is accepted; a request a client leaves empty for two
\* seconds counts as malformed.
Accept ==
    /\ mgr.pc = "accept" /\ mgr.backlog # << >>
    /\ LET c == mgr.backlog[1]
           q == request_parse(cli[c].line)
       IN  q.tag # "SUBSCRIBE" /\ Serve(c, q)
    /\ Quiet

\* A subscription: what is in the log from `since` on, then what comes.  A
\* subscriber that is gone is forgotten.
Subscribe(c, q) ==
    LET backlog == IF q.arg = << >> THEN << >> ELSE events_since(disk.log, Number(q.arg[1]))
        gone == cli[c].conn # "queued"
    IN  /\ mgr' = [mgr EXCEPT !.pc = "turn", !.backlog = Tail(@),
                              !.feeds[c] = IF gone THEN @ ELSE FeedAll([NoFeed EXCEPT !.on = TRUE], backlog)]
        /\ cli' = [cli EXCEPT ![c].conn = IF gone THEN @ ELSE "following"]
        /\ UNCHANGED <<disk, reg>>

open_event_subscription ==
    /\ mgr.pc = "accept" /\ mgr.backlog # << >>
    /\ LET c == mgr.backlog[1]
           q == request_parse(cli[c].line)
       IN  q.tag = "SUBSCRIBE" /\ Subscribe(c, q)
    /\ Quiet

\* The answer is written; one that cannot be written ends the manager.
Answer ==
    /\ mgr.pc = "answer"
    /\ LET c == mgr.client[1]
           m == [mgr EXCEPT !.client = << >>, !.resp = Down]
           told == [cli EXCEPT ![c].conn = "answered",
                               ![c].ans = response_parse(response_as_line(mgr.resp))]
       IN  IF cli[c].conn # "taken" THEN EndProcess("answer lost")
           ELSE IF mgr.then = "drain"
           THEN /\ mgr' = [m EXCEPT !.pc = "observe", !.loud = TRUE, !.waits = 0]
                /\ cli' = told /\ UNCHANGED <<reg, disk>>
           ELSE IF disk.pid
           THEN /\ mgr' = [m EXCEPT !.pc = "turn"] /\ cli' = told /\ UNCHANGED <<reg, disk>>
           ELSE /\ mgr' = NoManager("pid file") /\ reg' = Empty /\ UNCHANGED disk
                /\ cli' = [d \in Clients |-> IF d = c THEN told[c] ELSE Disconnected[d]]
    /\ Quiet

\* wait_for_reconfigure: the services that change are polled until they
\* stopped, all of them, or the ten seconds are over.
Waiting == \E n \in mgr.stopping \cap Loaded(reg) : ~ Stopped(reg.services[n])

ReloadWait ==
    /\ mgr.pc = "wait" /\ Waiting
    /\ \E r \in poll(reg) : reg' = r
    /\ mgr' = IF mgr.waits + 1 < WaitPolls THEN [mgr EXCEPT !.waits = @ + 1]
              ELSE [mgr EXCEPT !.pc = "answer", !.resp = Error("timeout"), !.waits = 0,
                               !.specs = << >>, !.stopping = {}]
    /\ UNCHANGED <<disk, cli>> /\ Quiet

\* The rest of reload_native_configuration: the new table, the boot profile
\* and the enabled services, and the services stopped for the reload.
Reconfigured ==
    LET new == reload(reg, mgr.specs)
        again == InOrder(mgr.stopping \cap DOMAIN mgr.specs)
        Each(S, n) == UNION {IF o.ok THEN start(o.reg, n) ELSE {o} : o \in S}
    IN  IF ~ new.ok THEN {new}
        ELSE Walk(Each, {Done(r) : r \in BringUp(new.reg)}, again)

ReloadApply ==
    /\ mgr.pc = "wait" /\ ~ Waiting
    /\ \E o \in Reconfigured :
        /\ reg' = o.reg
        /\ mgr' = [mgr EXCEPT !.pc = "answer", !.specs = << >>, !.stopping = {}, !.waits = 0,
                              !.resp = IF o.ok THEN Reply("RELOADED", << >>) ELSE Error("refused")]
    /\ UNCHANGED <<disk, cli>> /\ Quiet

\* wait_for_shutdown: manager actions are ignored, events are logged only.
Drain ==
    /\ mgr.pc = "drain" /\ ~ is_stopped(reg)
    /\ \E r \in poll(reg) : reg' = r
    /\ mgr' = [mgr EXCEPT !.pc = "observe", !.waits = @ + 1,
                          !.then = IF mgr.waits + 1 < WaitPolls THEN "drain" ELSE "late"]
    /\ UNCHANGED <<disk, cli>> /\ Quiet

\* Mutant: the deadline ends the drain as if it were over.
Late_counts == mgr.pc = "late" /\ EndProcess("stopped") /\ Quiet

Drained == mgr.pc = "drain" /\ is_stopped(reg) /\ EndProcess("stopped") /\ Quiet
Late    == mgr.pc = "late" /\ EndProcess("late") /\ Quiet

Step ==
    \/ Load \/ Bring \/ bind_listener \/ Turn \/ ObserveOne \/ ObserveEnd \/ Idle \/ Accept
    \/ open_event_subscription \/ Answer \/ ReloadWait \/ ReloadApply \/ Drain \/ Drained \/ Late

(* ------------------------------- the world ----------------------------- *)

\* The process is killed, in the middle of a line perhaps.
Crash ==
    /\ mgr.pc # "down" /\ left.crashes > 0
    /\ left' = [left EXCEPT !.crashes = @ - 1]
    /\ mgr' = NoManager("killed") /\ reg' = Empty /\ cli' = Disconnected
    /\ \/ UNCHANGED disk
       \/ /\ mgr.pc = "observe" /\ ChangedNames # << >>
          /\ \E line \in TornLines(mgr.seq) : disk' = [disk EXCEPT !.log = append(@, line)]
    /\ UNCHANGED <<mix, sealed>>

Boot ==
    /\ mgr.pc = "down" /\ left.boots > 0
    /\ left' = [left EXCEPT !.boots = @ - 1]
    /\ mgr' = [NoManager("none") EXCEPT !.pc = "load"]
    /\ UNCHANGED <<mix, disk, reg, cli, sealed>>

Signal ==
    /\ mix.signals /\ mgr.pc # "down" /\ ~ mgr.signal
    /\ mgr' = [mgr EXCEPT !.signal = TRUE]
    /\ UNCHANGED <<mix, left, disk, reg, cli, sealed>>

\* Somebody edits a service directory, or removes the pid file.
Edit ==
    /\ left.edits > 0
    /\ left' = [left EXCEPT !.edits = @ - 1]
    /\ \/ \E e \in mix.edits :
            /\ disk.files[e.dir][e.name] # e.entry
            /\ disk' = [disk EXCEPT !.files[e.dir][e.name] = e.entry]
       \/ mix.signals /\ disk.pid /\ disk' = [disk EXCEPT !.pid = FALSE]
    /\ UNCHANGED <<mix, reg, mgr, cli, sealed>>
=============================================================================
