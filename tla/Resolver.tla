------------------------------ MODULE Resolver -------------------------------
(* The local DNS service (crates/fractald-resolved/src/main.rs), the files *)
(* by which it is found (crates/fractald-resolver/src/lib.rs) and          *)
(* resolvectl (crates/fractald-resolvectl/src/main.rs).                    *)
(*                                                                         *)
(* Instances of the service share one listen address, one control socket   *)
(* and one discovery file; core is the resolver of the one that holds the  *)
(* address.  Its mutex is held from the look-up of a query until the       *)
(* exchange with the upstreams ends.  Packets are reduced to the           *)
(* identifier, the rest of the query (which is the key of the cache) and   *)
(* the lifetimes of the records; resolver addresses are model values.      *)
EXTENDS Integers, Sequences, SequencesExt, FiniteSetsExt

CONSTANTS Instances,       \* processes of fractald-resolved
          Servers,         \* what parses as the address of a server
          Configs,         \* what instances are configured with: [upstreams,
                           \* entries, fault]
          Ids,             \* the identifiers resolvectl draws from
          Datagrams,       \* the queries of others: [sort, id, key], sort
                           \* "short" (no header), "bad" or "good"
          Answers,         \* what upstreams send: [whole, ttls, found]: readable to
                           \* the end, the lifetimes of all records, whether the
                           \* answer section can be read and is not empty
          TtlCap,          \* 300 seconds
          ControlAttempts, \* connections resolvectl tries: 5
          Commands,        \* what clients ask for: [cmd] with values or question
          MaxClock,        \* bound on the time
          MaxInputs        \* bound on starts, datagrams and commands together

ASSUME ResolverAssumption ==
    /\ {TtlCap, ControlAttempts, MaxClock, MaxInputs} \subseteq Nat
    /\ Instances \cap {"none", "dead"} = {}
    /\ \A c \in Configs :
          c.entries \in Nat /\ c.fault \in {"none", "drop", "servfail", "delay"}
    /\ \A a \in Answers : a.ttls \in Seq(Nat)

VARIABLES stage,       \* instance -> how far it has come
          port,        \* who has the listen address, or "none"
          controlFile, \* whose socket is at the control path; "dead": left behind
          discovered,  \* whose record is in the discovery file, likewise
          core,        \* the resolver and the query at hand
          client,      \* the run of resolvectl
          clock, inputs, clears

resolverVars == <<stage, port, controlFile, discovered, core, client, clock, inputs, clears>>

lifeVars == <<stage, port, controlFile, discovered>>

Input == inputs < MaxInputs /\ inputs' = inputs + 1

Idle == "idle"
NoReply == [kind |-> "empty"]
NoQuery == [sort |-> "none", id |-> 0, key |-> "none", sock |-> 0]
NoClient == [phase |-> "idle", cmd |-> [cmd |-> "none"], at |-> "none", tries |-> 0, sock |-> 0,
             id |-> 0, result |-> "none", answer |-> NoReply]
NoCore == [phase |-> Idle, upstreams |-> << >>, limit |-> 1, fault |-> "none", cache |-> {},
           pushed |-> 0, query |-> NoQuery, next |-> 1, asked |-> 0, era |-> 0, reply |-> NoReply, at |-> 0]

(* ----------------------------- start and end --------------------------- *)

\* Resolver::with_fault; a cache holds at least one entry.
with_fault(c) ==
    [NoCore EXCEPT !.upstreams = c.upstreams, !.limit = Max({c.entries, 1}), !.fault = c.fault]

\* The configuration is read and the listen address bound, which only one
\* process can have; without an upstream, or with the address in use, the
\* program ends at once.
Bind(i) ==
    /\ stage[i] = "off" /\ Input
    /\ port = "none"
    /\ port' = i
    /\ stage' = [stage EXCEPT ![i] = "bound"]
    /\ \E c \in Configs : c.upstreams # << >> /\ core' = with_fault(c)
    /\ UNCHANGED <<controlFile, discovered, client, clock, clears>>

\* Whether a connection to the control path is taken.
Listening == controlFile \in Instances

Gone(file, i) == IF file = i THEN "dead" ELSE file

\* The process ends, in any way: the address is free, its files lose their owner.
Ends(i) ==
    /\ stage' = [stage EXCEPT ![i] = "off"]
    /\ port' = IF port = i THEN "none" ELSE port
    /\ controlFile' = Gone(controlFile, i)
    /\ discovered' = Gone(discovered, i)
    /\ core' = IF port = i THEN NoCore ELSE core
    /\ client' = [client EXCEPT !.at = Gone(client.at, i)]
    /\ UNCHANGED <<clock, inputs, clears>>

GoesTo(i, from, to) == stage[i] = from /\ stage' = [stage EXCEPT ![i] = to]

\* bind_control: a path that exists and answers is in use, one that does not
\* is stale and removed; then the socket is bound, its mode set, and from
\* there on the lease removes it.
bind_control(i) ==
    \/ /\ IF controlFile = "none" THEN GoesTo(i, "bound", "free")
                                  ELSE ~Listening /\ GoesTo(i, "bound", "stale")
       /\ UNCHANGED <<port, controlFile, discovered>>
    \/ /\ controlFile # "none" /\ GoesTo(i, "stale", "free")
       /\ controlFile' = "none"
       /\ UNCHANGED <<port, discovered>>
    \/ /\ controlFile = "none" /\ GoesTo(i, "free", "open")
       /\ controlFile' = i
       /\ UNCHANGED <<port, discovered>>
    \/ /\ GoesTo(i, "open", "leased")
       /\ UNCHANGED <<port, controlFile, discovered>>

\* The file is written aside and renamed: a reader finds a whole record.
write_atomic(i) == discovered' = i

\* DiscoveryLease::publish: the record replaces what is there.
publish(i) ==
    /\ GoesTo(i, "leased", "serving")
    /\ write_atomic(i)
    /\ UNCHANGED <<port, controlFile>>

\* A step of the start fails: the error leaves serve, and with the control
\* lease already taken its drop comes first.
StartFails(i) ==
    \/ stage[i] \in {"bound", "stale", "free", "open"} /\ Ends(i)
    \/ /\ GoesTo(i, "leased", "undiscovered")
       /\ UNCHANGED <<port, controlFile, discovered, inputs, core, client, clock, clears>>

\* A shutdown noticed in a receive that timed out or was interrupted, or a
\* receive that failed.
Leave(i) ==
    /\ core.phase = Idle /\ GoesTo(i, "serving", "leaving")
    /\ UNCHANGED <<port, controlFile, discovered>>

\* The drops at the end of serve come with the last binding first.  The
\* discovery lease reads the file and removes only what it wrote.
drop_discovery(i) ==
    \/ /\ IF discovered = i THEN GoesTo(i, "leaving", "disowning")
                            ELSE GoesTo(i, "leaving", "undiscovered")
       /\ UNCHANGED <<port, controlFile, discovered>>
    \/ /\ GoesTo(i, "disowning", "undiscovered")
       /\ discovered' = "none"
       /\ UNCHANGED <<port, controlFile>>

\* Then the control lease, which removes what is at the path; the socket is
\* closed last.
drop_control(i) ==
    /\ GoesTo(i, "undiscovered", "done")
    /\ controlFile' = "none"
    /\ UNCHANGED <<port, discovered>>

Exit(i) == stage[i] = "done" /\ Ends(i)

Kill(i) == stage[i] # "off" /\ Ends(i)

(* -------------------------------- queries ------------------------------ *)

\* A datagram: one of the network's, or the one resolvectl has sent.
Receive(i) ==
    /\ stage[i] = "serving" /\ core.phase = Idle /\ Input
    /\ \/ /\ \E d \in Datagrams :
                core' = [core EXCEPT !.phase = "received",
                            !.query = [sort |-> d.sort, id |-> d.id, key |-> d.key, sock |-> 0]]
          /\ UNCHANGED client
       \/ /\ client.phase = "waiting" /\ client.at = i
          /\ client' = [client EXCEPT !.at = "none"]
          /\ core' = [core EXCEPT !.phase = "received",
                        !.query = [sort |-> "good", id |-> client.id, key |-> client.cmd.question,
                                   sock |-> client.sock]]
    /\ UNCHANGED <<lifeVars, clock, clears>>

\* Back to the receive.
Rest(c) ==
    [c EXCEPT !.phase = Idle, !.query = NoQuery, !.next = 1, !.asked = 0, !.era = 0,
              !.reply = NoReply, !.at = 0]

\* What resolve returns is sent, unless it is empty.
Answered(c, r) ==
    IF r = NoReply THEN Rest(c) ELSE [c EXCEPT !.phase = "sending", !.reply = r, !.at = clock]

\* One question, with a name and a type that are all there.
validate_query(q) == q.sort = "good"

\* The query turned round, with its identifier; nothing without a header.
error_response(q, code) ==
    IF q.sort = "short" THEN NoReply ELSE [kind |-> code, id |-> q.id]

with_id(e, q) == [kind |-> "answer", id |-> q.id, key |-> e.key, entry |-> e]

\* The entries of the cache are numbered as they were pushed.
Retained(cache) == {e \in cache : e.expires > clock}

\* From the key on: what has expired goes, a hit is answered at once; else
\* the upstreams are asked from the first on, under the lock.
Lookup(c) ==
    LET kept == Retained(c.cache)
        hits == {e \in kept : e.key = c.query.key}
        first == CHOOSE e \in hits : \A h \in hits : e.place <= h.place
        now == [c EXCEPT !.cache = kept]
    IN  IF hits # {} THEN Answered(now, with_id(first, c.query))
        ELSE [now EXCEPT !.phase = "asking", !.next = 1, !.asked = clock, !.era = clears]

\* Resolver::resolve up to the exchange.
resolve(i) ==
    /\ port = i
    /\ \/ /\ core.phase = "received"
          /\ core' = IF ~validate_query(core.query)
                     THEN Answered(core, error_response(core.query, "formerr"))
                     ELSE CASE core.fault = "drop" -> Answered(core, NoReply)
                            [] core.fault = "servfail" ->
                                  Answered(core, error_response(core.query, "servfail"))
                            [] core.fault = "delay" -> [core EXCEPT !.phase = "delayed"]
                            [] OTHER -> Lookup(core)
       \/ /\ core.phase = "delayed"
          /\ core' = Lookup(core)
    /\ UNCHANGED <<lifeVars, client, clock, inputs, clears>>

\* The smallest lifetime of all the records, if the packet can be read to
\* its end and has a record.
response_ttl(a) ==
    IF a.whole /\ a.ttls # << >> THEN Min(Range(a.ttls)) ELSE -1

\* Pushed at the end; then the first ones are removed down to the limit.
Push(cache, e, limit) ==
    {d \in cache \cup {e} :
        Cardinality({l \in cache \cup {e} : l.place > d.place}) < limit}

\* The answer of an upstream: cached from when the look-up read the clock,
\* and returned as it came.
Accept(c, a) ==
    LET ttl == response_ttl(a)
        e == [key |-> c.query.key, from |-> c.upstreams[c.next],
              expires |-> c.asked + Min({ttl, TtlCap}), era |-> c.era,
              dies |-> clock + ttl, found |-> a.found, place |-> c.pushed + 1]
        new == IF ttl > 0
               THEN [c EXCEPT !.cache = Push(c.cache, e, c.limit), !.pushed = c.pushed + 1]
               ELSE c
    IN  Answered(new, with_id(e, c.query))

\* One upstream: nothing in time, a packet of another source or identifier,
\* or its answer.  After the last of them SERVFAIL.
Exchange(i) ==
    /\ port = i /\ core.phase = "asking"
    /\ IF core.next \notin DOMAIN core.upstreams
       THEN core' = Answered(core, error_response(core.query, "servfail"))
       ELSE \/ core' = [core EXCEPT !.next = core.next + 1]
            \/ \E a \in Answers : core' = Accept(core, a)
    /\ UNCHANGED <<lifeVars, client, clock, inputs, clears>>

\* send_to: to a socket of resolvectl that still waits it is delivered, or
\* lost.  A send that fails ends serve.
Send(i) ==
    /\ stage[i] = "serving" /\ core.phase = "sending"
    /\ core' = Rest(core)
    /\ \/ stage' = [stage EXCEPT ![i] = "leaving"] /\ UNCHANGED client
       \/ UNCHANGED <<stage, client>>
       \/ /\ client.phase = "waiting" /\ client.sock = core.query.sock
          /\ client' = [client EXCEPT !.phase = "answered", !.answer = core.reply]
          /\ UNCHANGED stage
    /\ UNCHANGED <<port, controlFile, discovered, clock, inputs, clears>>

(* -------------------------- the control thread ------------------------- *)

\* Every value is an address, and there is one.
Settable(values) == Range(values) \subseteq Servers /\ values # << >>

\* A mutex that is given back while the upstreams are asked.
Locked_only_delayed == core.phase = "delayed"

\* The resolver's mutex is held.
Locked == core.phase \in {"delayed", "asking"}

\* What a request does to the resolver and what it answers.
Handle(c, req) ==
    CASE req.cmd = "flush-caches" -> <<[c EXCEPT !.cache = {}], "OK">>
      [] req.cmd = "set" /\ Settable(req.values) -> <<[c EXCEPT !.upstreams = req.values, !.cache = {}], "OK">>
      [] req.cmd = "reset-server-features" -> <<c, "OK">>
      [] req.cmd \in {"status", "statistics"} -> <<c, "LINES">>
      [] OTHER -> <<c, "ERROR">>

\* Requests that read or change the resolver; the others are answered without.
NeedsLock(req) ==
    /\ req.cmd \in {"flush-caches", "set", "status", "statistics"}
    /\ req.cmd = "set" => Settable(req.values)

\* control_loop: the thread runs from the publication to the end of the
\* process, also while the leases are dropped.
control_loop(i) ==
    /\ stage[i] \in {"serving", "leaving", "disowning", "undiscovered", "done"}
    /\ client.phase = "sent" /\ client.at = i
    /\ NeedsLock(client.cmd) => ~Locked
    /\ core' = Handle(core, client.cmd)[1]
    /\ client' = [client EXCEPT !.phase = "answered", !.result = Handle(core, client.cmd)[2]]
    /\ clears' = IF NeedsLock(client.cmd) /\ Handle(core, client.cmd)[2] = "OK"
                 THEN clears + 1 ELSE clears
    /\ UNCHANGED <<lifeVars, clock, inputs>>

(* ------------------------------- resolvectl ---------------------------- *)

\* dns keeps the values that are addresses, and needs one.
Request(c) ==
    IF c.cmd = "dns" THEN [cmd |-> "set", values |-> SelectSeq(c.values, LAMBDA v : v \in Servers)]
    ELSE c

\* A record that is there is whole and parses.
read_discovery == discovered # "none"

\* discover, which fails when there is no record; then the query or the
\* control request is made ready.  A record left behind is as good as any.
discover ==
    /\ client.phase = "idle" /\ Input
    /\ read_discovery
    /\ \E c \in Commands, id \in Ids :
          /\ c.cmd = "dns" => Request(c).values # << >>
          /\ client' = [NoClient EXCEPT
                 !.phase = IF c.cmd = "query" THEN "waiting" ELSE "found", !.cmd = Request(c),
                 !.at = IF c.cmd = "query" THEN port ELSE "none",
                 !.sock = inputs + 1, !.id = id]
    /\ UNCHANGED <<lifeVars, core, clock, clears>>

Retry(cl) ==
    IF cl.tries < ControlAttempts - 1
    THEN [cl EXCEPT !.phase = "found", !.at = "none", !.tries = cl.tries + 1]
    ELSE [cl EXCEPT !.phase = "answered", !.result = "failed"]

Alive(i) == i \in Instances

\* control_request: connect and write, some attempts; then the answer is
\* read to its end, which also comes when the service is gone.
control_request ==
    /\ \/ /\ client.phase = "found"
          /\ client' = IF Listening THEN [client EXCEPT !.phase = "connected", !.at = controlFile]
                       ELSE Retry(client)
       \/ /\ client.phase = "connected"
          /\ client' = IF Alive(client.at) THEN [client EXCEPT !.phase = "sent"] ELSE Retry(client)
       \/ /\ client.phase = "sent" /\ ~Alive(client.at)
          /\ \E r \in {"failed", "nothing"} :
                client' = [client EXCEPT !.phase = "answered", !.result = r]
    /\ UNCHANGED <<lifeVars, core, clock, inputs, clears>>

\* send_query gives up.
query_timeout ==
    /\ client.phase = "waiting"
    /\ client' = [client EXCEPT !.phase = "answered", !.result = "failed"]
    /\ UNCHANGED <<lifeVars, core, clock, inputs, clears>>

\* An error code is a failure, and so is an answer without records.
parse_answers(r) == r.kind = "answer" /\ r.entry.found

\* send_query has compared the identifier.
QuerySucceeds(cl) == cl.answer.id = cl.id /\ parse_answers(cl.answer)

\* Of a control request: OK where that is expected, else whatever could be
\* read, even nothing.
Succeeds(cl) ==
    /\ cl.result # "failed"
    /\ CASE cl.cmd.cmd = "query" -> QuerySucceeds(cl)
         [] cl.cmd.cmd \in {"status", "statistics"} -> TRUE
         [] OTHER -> cl.result = "OK"

report ==
    /\ client.phase = "answered"
    /\ client' = [client EXCEPT !.phase = "idle",
                     !.result = IF Succeeds(client) THEN "success" ELSE "error"]
    /\ UNCHANGED <<lifeVars, core, clock, inputs, clears>>

(* ----------------------------- specification --------------------------- *)

\* Time, which is read for what is cached or being asked only.
Tick ==
    /\ clock < MaxClock /\ clock' = clock + 1
    /\ core.cache # {} \/ Locked
    /\ UNCHANGED <<lifeVars, core, client, inputs, clears>>

ResolverInit ==
    /\ stage = [i \in Instances |-> "off"]
    /\ port = "none" /\ controlFile = "none" /\ discovered = "none"
    /\ core = NoCore /\ client = NoClient
    /\ clock = 0 /\ inputs = 0 /\ clears = 0

Life(i) ==
    /\ bind_control(i) \/ publish(i) \/ Leave(i) \/ drop_discovery(i) \/ drop_control(i)
    /\ UNCHANGED <<core, client, clock, inputs, clears>>

ResolverNext ==
    \/ \E i \in Instances :
          \/ Bind(i) \/ Life(i) \/ StartFails(i) \/ Exit(i) \/ Kill(i)
          \/ Receive(i) \/ resolve(i) \/ Exchange(i) \/ Send(i) \/ control_loop(i)
    \/ discover \/ control_request \/ query_timeout \/ report \/ Tick

(* ------------------------------ properties ----------------------------- *)

\* Types.
ResolverTypeOK ==
    /\ stage \in [Instances -> {"off", "bound", "stale", "free", "open", "leased", "serving",
                               "leaving", "disowning", "undiscovered", "done"}]
    /\ {port, controlFile, discovered} \subseteq Instances \cup {"none", "dead"}
    /\ core.phase \in {Idle, "received", "delayed", "asking", "sending"}
    /\ client.phase \in {"idle", "found", "connected", "sent", "waiting", "answered"}

(* Whoever serves is the one that clients find: the control socket and the *)
(* discovery file are its own, whatever instances start, fail, stop or are *)
(* killed around it.  Binding the address first and closing it last is     *)
(* what this rests on.                                                     *)
EndpointIsOwn ==
    \A i \in Instances :
        stage[i] = "serving" => port = i /\ controlFile = i /\ discovered = i

(* Nothing in the cache is older than the last flush or change of the      *)
(* upstreams, also if that came while the answer was on its way; there is  *)
(* one entry for a key, and the cache stays within its limit.              *)
CacheIsCurrent ==
    /\ \A e \in core.cache : e.era = clears /\ e.from \in Range(core.upstreams)
    /\ \A d, e \in core.cache : d.key = e.key => d = e
    /\ Cardinality(core.cache) <= core.limit

(* An answer has the identifier and the question of the query it is sent   *)
(* for, and if it came from the cache its records were still alive.  What  *)
(* resolvectl reports is what it asked for and, of servers it set, what    *)
(* the service it told still uses.                                         *)
RepliesMatch ==
    /\ core.phase = "sending" /\ core.reply.kind = "answer" =>
          /\ core.reply.id = core.query.id /\ core.reply.key = core.query.key
          /\ core.reply.entry \in core.cache => core.at < core.reply.entry.dies
    /\ client.phase = "idle" /\ client.result = "success" =>
          /\ client.cmd.cmd = "query" => client.answer.key = client.cmd.question
          /\ client.cmd.cmd = "set" /\ Alive(client.at) => core.upstreams = client.cmd.values
=============================================================================
