-------------------------------- MODULE Wire --------------------------------
(* The control protocol of crates/fractald-control/src/lib.rs: requests    *)
(* and responses as the words of one line.  A request is [tag, arg], its   *)
(* line the command and no or one argument; a response is a tag and the    *)
(* values of its fields, its line the pairs <<key, value>> in their order. *)
(* Words are strings.  A message counts as one, whatever blanks one_line   *)
(* puts into it; pid and restarts of a service's status are left out.      *)
EXTENDS Integers, Sequences, TLC

CONSTANT MaxNumber      \* the numbers that are written: 0 .. MaxNumber

ASSUME WireAssumption == MaxNumber \in Nat

Numeral(s) == \E k \in 0 .. MaxNumber : ToString(k) = s
Number(s) == CHOOSE k \in 0 .. MaxNumber : ToString(k) = s

(* ------------------------------- requests ------------------------------ *)

\* The argument every command takes.
Grammar ==
    [STATUS |-> "none", STOP |-> "none", PING |-> "none", LIST |-> "none", RELOAD |-> "none",
     ENABLE_SERVICE |-> "name", DISABLE_SERVICE |-> "name", IS_ENABLED |-> "name",
     RELOAD_SERVICE |-> "name", RESET_FAILED |-> "maybe name", START_SERVICE |-> "name",
     ISOLATE_SERVICE |-> "name", STOP_SERVICE |-> "name", RESTART_SERVICE |-> "name",
     SERVICE_STATUS |-> "name", TRANSACTION_STATUS |-> "id", SUBSCRIBE |-> "maybe number",
     SHUTDOWN |-> "action"]

Request(tag, arg) == [tag |-> tag, arg |-> arg]
Malformed == [tag |-> "malformed", arg |-> << >>]

request_as_line(r) == <<r.tag>> \o r.arg

ShutdownActions == {"stop", "poweroff", "reboot", "halt"}

\* Whether a command accepts what follows it.
TakesArgument(kind, rest) ==
    CASE kind = "none"         -> rest = << >>
      [] kind = "maybe name"   -> Len(rest) <= 1
      [] kind = "maybe number" -> rest = << >> \/ (Len(rest) = 1 /\ Numeral(rest[1]))
      [] kind = "name"         -> Len(rest) = 1
      [] kind = "id"           -> Len(rest) = 1 /\ Numeral(rest[1]) /\ Number(rest[1]) # 0
      [] kind = "action"       -> Len(rest) = 1 /\ rest[1] \in ShutdownActions

request_parse(words) ==
    IF \/ words = << >> \/ words[1] \notin DOMAIN Grammar
       \/ ~ TakesArgument(Grammar[words[1]], Tail(words))
    THEN Malformed
    ELSE Request(words[1], Tail(words))

(* ------------------------------- responses ----------------------------- *)

\* The fields of every response with fields, in the order of the line.
Fields ==
    [STATUS |-> <<"pid", "uptime_ms">>, SERVICES |-> <<"names">>,
     SERVICE |-> <<"name", "state", "generation">>,
     TRANSACTION |-> <<"id", "operation", "name", "state">>,
     ACCEPTED |-> <<"id", "operation", "name">>,
     DISABLED |-> <<"name">>, ENABLED_STATUS |-> <<"name", "enabled">>]
    @@ ("ENABLED" :> <<"name">>)

Bare == {"STOPPING", "PONG", "SUBSCRIBED", "RELOADED", "RESET_FAILED"}

Reply(tag, values) == [tag |-> tag, values |-> values]
Error(message) == Reply("ERR", <<message>>)

response_as_line(r) ==
    IF r.tag = "ERR" THEN <<"ERR">> \o r.values
    ELSE IF r.tag \in Bare THEN <<"OK", r.tag>>
    ELSE <<"OK", r.tag>> \o [i \in 1 .. Len(r.values) |-> <<Fields[r.tag][i], r.values[i]>>]

\* A connection closed before the answer gives the empty line.
Broken == Reply("broken", << >>)

\* A field is the key that is expected there, and a value.
parse_field(word, key) == word[1] = key

response_parse(words) ==
    IF Len(words) >= 2 /\ words[1] = "ERR" THEN Error(words[2])
    ELSE IF Len(words) < 2 \/ words[1] # "OK" THEN Broken
    ELSE IF words[2] \in Bare THEN (IF Len(words) = 2 THEN Reply(words[2], << >>) ELSE Broken)
    ELSE IF words[2] \notin DOMAIN Fields \/ Len(words) # 2 + Len(Fields[words[2]]) THEN Broken
    ELSE IF \E i \in 3 .. Len(words) : ~ parse_field(words[i], Fields[words[2]][i - 2]) THEN Broken
    ELSE Reply(words[2], [i \in 1 .. Len(words) - 2 |-> words[i + 2][2]])
=============================================================================
