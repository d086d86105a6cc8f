------------------------------ MODULE MCDaemon ------------------------------
(* Two services, two users, and six ways to use a host.                    *)
EXTENDS Fractalctl

MCOrder == <<"a", "b">>
MCDirs == <<"usr", "etc">>
MCHash == [n \in {"a", "b"} |-> 1]

Svc == [ver |-> 1, aliases |-> {}, dynamic |-> FALSE, needs |-> {}, profile |-> FALSE, fires |-> FALSE]
File(spec) == [kind |-> "spec", spec |-> spec]
Link == [kind |-> "link"]
Garbled == [kind |-> "garbled"]
Only(a, b) == [usr |-> [a |-> a, b |-> b], etc |-> [a |-> Absent, b |-> Absent]]

Cmd(cmd, arg) == [cmd |-> cmd, arg |-> arg, req |-> "none", now |-> FALSE]
CmdNow(cmd, n) == [Cmd(cmd, <<n>>) EXCEPT !.now = TRUE]
Req(req, arg) == [Cmd("service_request", arg) EXCEPT !.req = req]
A == <<"a">>
B == <<"b">>

Nothing == [commands |-> 0, crashes |-> 0, boots |-> 1, edits |-> 0, kills |-> 0]
Saturated == <<WholeLine(MaxSequence)>>
Base0 == [pid1 |-> FALSE, actions |-> {}, signals |-> FALSE, edits |-> {}, enabled |-> {},
          files |-> Only(File(Svc), Absent), log |-> Saturated, commands |-> << >>, users |-> {1}, starts |-> 2,
          fates |-> {"defined", "running", "exited", "failed", "backoff"}, left |-> Nothing]

\* Followers of a log that an earlier manager left, across kills.
Journal ==
    [Base0 EXCEPT !.enabled = {"a"}, !.log = <<WholeLine(8), WholeLine(9)>>,
                  !.commands = <<Cmd("follow_events", <<"0">>), Cmd("follow_events", << >>)>>,
                  !.left = [commands |-> 2, crashes |-> 1, boots |-> 2, edits |-> 0, kills |-> 1]]

\* Operations on one service, and a table that is too small for them.
Transactions ==
    [Base0 EXCEPT !.commands = <<Req("START_SERVICE", A), Req("STOP_SERVICE", A), Cmd("restart_service", A),
                                Cmd("reload_service", A), Cmd("isolate_service", A),
                                Cmd("transaction_status", <<"1">>)>>,
                  !.left = [Nothing EXCEPT !.commands = 3]]

\* Descriptors that change under running services.
Dynamic == [Svc EXCEPT !.dynamic = TRUE]
Reloads ==
    [Base0 EXCEPT !.fates = {"defined", "running", "exited"},
                  !.files = Only(File([Svc EXCEPT !.fires = TRUE]), File(Dynamic)),
                  !.enabled = {"b"},
                  !.edits = {[dir |-> "etc", name |-> "a", entry |-> File([Dynamic EXCEPT !.ver = 2])],
                             [dir |-> "etc", name |-> "b", entry |-> File([Svc EXCEPT !.aliases = {Plain("a")}])],
                             [dir |-> "usr", name |-> "a", entry |-> Absent]},
                  !.commands = <<Cmd("reload_services", << >>)>>,
                  !.left = [Nothing EXCEPT !.commands = 1, !.edits = 2]]

\* Masking next to those who start the service by another one.
Masks ==
    [Base0 EXCEPT !.files = Only(File(Svc), File([Svc EXCEPT !.needs = {"a"}])),
                  !.commands = <<Cmd("mask_service", A), Cmd("unmask_service", A), Cmd("start_service", B)>>,
                  !.users = {1, 2}, !.starts = 1, !.fates = {"defined", "running"},
                  !.left = [Nothing EXCEPT !.commands = 2]]

\* The commands that start and stop the manager, and the markers.
Users ==
    [Base0 EXCEPT !.commands = <<CmdNow("enable_service", "a"), CmdNow("disable_service", "a"),
                                Cmd("enable_service", A), Cmd("disable_service", A),
                                Cmd("mask_service", A),
                                Cmd("start_daemon", << >>), Cmd("stop_daemon", << >>),
                                Req("SHUTDOWN", <<"halt">>), Req("BOGUS", << >>), Cmd("list_services", << >>),
                                Cmd("reset_failed", << >>), Cmd("reset_failed", A), Req("IS_ENABLED", <<"a.svc">>),
                                Req("PING", << >>)>>,
                  !.left = [Nothing EXCEPT !.commands = 2, !.boots = 2, !.kills = 1]]

\* Process 1, its manager actions and its signals.
Power ==
    [Base0 EXCEPT !.pid1 = TRUE, !.actions = {"poweroff", "exit"}, !.signals = TRUE, !.enabled = {"a"},
                  !.edits = {[dir |-> "etc", name |-> "b", entry |-> Link],
                             [dir |-> "usr", name |-> "a", entry |-> Garbled]},
                  !.commands = <<Req("SHUTDOWN", <<"poweroff">>), Cmd("reload_services", << >>), Cmd("daemon_status", << >>),
                                Cmd("service_status", A), Cmd("is_active", A), Cmd("is_failed", A)>>,
                  !.left = [Nothing EXCEPT !.commands = 1, !.edits = 1]]

MCMixes == {Journal, Transactions, Reloads, Masks, Users, Power}
=============================================================================
