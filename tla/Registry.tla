------------------------------ MODULE Registry ------------------------------
(* The descriptors in the service directories, the state markers, and the  *)
(* table of loaded services and aliases the supervisor builds from them:   *)
(* loading at boot, loading on demand, and replacing the table by a reload *)
(* (crates/fractald/src/main.rs, crates/fractald-control/src/lib.rs and    *)
(* the registry of crates/fractald-supervisor/src/lib.rs).                 *)
(*                                                                         *)
(* A name as it is written is [n, svc]: the base name and whether the      *)
(* suffix ".svc" follows it.  A descriptor is what a file parses to:       *)
(*   ver      everything a new version of the file may change              *)
(*   aliases  the written names of alias=                                  *)
(*   dynamic  dynamic_user, without the identity the supervisor fills in   *)
(*   needs    the names its ten dependency lists and its trigger mention   *)
(*   profile  whether it belongs to the boot profile                       *)
(*   fires    whether a trigger or a socket may start it by itself         *)
(* The table also keeps the roots of the start jobs: a reload leaves them. *)
EXTENDS Walk, SequencesExt, FiniteSetsExt

CONSTANTS Order,      \* the names, in the order of a BTreeMap
          Dirs,       \* the service directories, the strongest last
          Span,       \* the number of dynamic identities
          Hash,       \* where the search for an identity begins, by name
          Occupied    \* the identities the system files already use

ASSUME RegistryAssumption ==
    /\ Order \in Seq(ToSet(Order))
    /\ Span \in Nat \ {0}
    /\ Hash \in [ToSet(Order) -> 0 .. Span - 1]
    /\ Occupied \subseteq 0 .. Span - 1

Names == ToSet(Order)
Absent == [kind |-> "absent"]
NoId == Span

Plain(n) == [n |-> n, svc |-> FALSE]
native_service_name(w) == Plain(w.n)

InOrder(S) ==
    LET Each(kept, n) == IF n \in S THEN Append(kept, n) ELSE kept
    IN  Walk(Each, << >>, Order)

Empty == [services |-> << >>, aliases |-> << >>, jobs |-> {}]
Loaded(reg) == DOMAIN reg.services

(* ---------------------------- state markers ---------------------------- *)

enable(disk, w)     == [disk EXCEPT !.enabled = @ \cup {w.n}]
disable(disk, w)    == [disk EXCEPT !.enabled = @ \ {w.n}]
is_enabled(disk, w) == w.n \in disk.enabled
mask(disk, w)       == [disk EXCEPT !.masked = @ \cup {w.n}]
unmask(disk, w)     == [disk EXCEPT !.masked = @ \ {w.n}]
is_masked(disk, w)  == w.n \in disk.masked
enabled_names(disk) == InOrder(disk.enabled)

(* --------------------------- dynamic identities ------------------------ *)

dynamic_user_ids(reg) == {reg.services[n].id : n \in Loaded(reg)} \ {NoId}

dynamic_identity_for(reg, n) ==
    IF n \in Loaded(reg) THEN reg.services[n].id ELSE NoId

\* The first free identity from the name's hash on, around the range.
allocate_dynamic_identity(n, reserved) ==
    LET free == {k \in 0 .. Span - 1 : (Hash[n] + k) % Span \notin reserved \cup Occupied}
    IN  IF free = {} THEN NoId ELSE (Hash[n] + Min(free)) % Span

Exhausted(spec, id) == spec.dynamic /\ id = NoId

\* A fresh service: its descriptor with the identity filled in.
new_with_dynamic_identity(spec, id) ==
    [spec |-> spec, id |-> id, st |-> "defined", gen |-> 0, again |-> FALSE,
     reload |-> "none"]

SameSpec(one, other) == one.spec = other.spec /\ one.id = other.id

(* -------------------------------- lookup ------------------------------- *)

\* The loaded name a written name stands for: as it is written first, then
\* without its suffix.  No loaded name carries the suffix.
resolve_name(reg, w) ==
    LET hits == <<{w.n : x \in {w} \cap {Plain(n) : n \in Loaded(reg)}},
                  {reg.aliases[x] : x \in {w} \cap DOMAIN reg.aliases},
                  {w.n} \cap Loaded(reg),
                  {reg.aliases[x] : x \in {Plain(w.n)} \cap DOMAIN reg.aliases}>>
        found == {i \in 1 .. 4 : hits[i] # {}}
    IN  IF found = {} THEN {} ELSE hits[Min(found)]

canonical_service_name(reg, w) ==
    IF resolve_name(reg, w) = {} THEN w ELSE Plain(CHOOSE n \in resolve_name(reg, w) : TRUE)

(* ----------------------------- descriptors ----------------------------- *)

\* The strongest directory that has an entry decides, whatever it is.
find_native_service_path(disk, n) ==
    LET has == {d \in 1 .. Len(Dirs) : disk.files[Dirs[d]][n] # Absent}
    IN  IF has = {} THEN Absent ELSE disk.files[Dirs[Max(has)]][n]

discover_service_names(disk) ==
    {n \in Names : \E d \in ToSet(Dirs) : disk.files[d][n] # Absent}

\* One symbolic link anywhere, or one file that does not parse, even a
\* masked one, refuses the whole set.
SpecsReadable(disk) ==
    /\ \A d \in ToSet(Dirs), n \in Names : disk.files[d][n].kind # "link"
    /\ \A n \in discover_service_names(disk) : find_native_service_path(disk, n).kind = "spec"

load_service_specs(disk) ==
    [n \in discover_service_names(disk) \ disk.masked |-> find_native_service_path(disk, n).spec]

\* Mutant: loading on demand forgets the mask.
load_named_service_spec_bare(disk, n) == find_native_service_path(disk, n)

\* Absent for a masked name.
load_named_service_spec(disk, n) ==
    IF n \in disk.masked THEN Absent ELSE find_native_service_path(disk, n)

(* ------------------------------- loading ------------------------------- *)

\* A result is [ok, reg]; a failed step keeps what the earlier ones did.
Refused(reg) == [ok |-> FALSE, reg |-> reg]
Done(reg)    == [ok |-> TRUE, reg |-> reg]

\* Aliases are stripped of their suffix here, and only here.
add(reg, n, spec) ==
    LET id == IF spec.dynamic THEN allocate_dynamic_identity(n, dynamic_user_ids(reg)) ELSE NoId
        own == {native_service_name(a) : a \in spec.aliases} \ {Plain(n)}
        taken == {Plain(m) : m \in Loaded(reg)} \cup DOMAIN reg.aliases
    IN  IF Exhausted(spec, id) \/ Plain(n) \in taken \/ own \cap taken # {}
        THEN Refused(reg)
        ELSE Done([reg EXCEPT !.services = Put(@, {n}, new_with_dynamic_identity(spec, id)),
                              !.aliases = Put(@, own, n)])

load_services(disk) ==
    LET specs == load_service_specs(disk)
        Each(r, n) == IF r.ok THEN add(r.reg, n, specs[n]) ELSE r
    IN  IF SpecsReadable(disk)
        THEN Walk(Each, Done(Empty), InOrder(DOMAIN specs))
        ELSE Refused(Empty)

\* ensure_service_loaded_inner as a stack of names still to load: the name
\* asked for, then what it needs, depth first.  `top` is the name asked for.
LoadStep(disk, r) ==
    LET n == Head(r.stack)
        hit == resolve_name(r.reg, Plain(n))
        file == load_named_service_spec(disk, n)
        Push(spec) == InOrder(spec.needs) \o Tail(r.stack)
    IN  IF ~ r.ok \/ r.stack = << >> THEN r
        ELSE IF hit # {}
        THEN IF r.top THEN [r EXCEPT !.top = FALSE,
                                     !.name = CHOOSE m \in hit : TRUE,
                                     !.stack = Push(r.reg.services[CHOOSE m \in hit : TRUE].spec)]
             ELSE [r EXCEPT !.stack = Tail(@)]
        ELSE IF file = Absent
        THEN IF r.top THEN [r EXCEPT !.ok = FALSE] ELSE [r EXCEPT !.stack = Tail(@)]
        ELSE IF file.kind # "spec" THEN [r EXCEPT !.ok = FALSE]
        ELSE LET added == add(r.reg, n, file.spec)
             IN  [r EXCEPT !.ok = added.ok, !.reg = added.reg, !.top = FALSE,
                           !.stack = Push(file.spec)]

\* The result also names the service: [ok, reg, name].
ensure_service_loaded(reg, disk, w) ==
    LET n == canonical_service_name(reg, native_service_name(w)).n
        begin == [ok |-> n \notin disk.masked, reg |-> reg, name |-> n, top |-> TRUE,
                  stack |-> <<n>>]
        Each(r, i) == LoadStep(disk, r)
    IN  Walk(Each, begin, [i \in 1 .. 1 + Len(Order) * Len(Order) |-> i])

(* -------------------------------- reload ------------------------------- *)

\* The identities of an incoming set: a loaded service keeps its own, the
\* others are allocated in order around all that are or were given.
IdsFrom(reg, specs, given) ==
    LET Each(r, n) ==
            LET old == dynamic_identity_for(reg, n)
                id == IF ~ specs[n].dynamic THEN NoId
                      ELSE IF old # NoId THEN old
                      ELSE allocate_dynamic_identity(n, r.reserved)
            IN  [ids |-> Put(r.ids, {n}, id), reserved |-> r.reserved \cup ({id} \ {NoId})]
    IN  Walk(Each, [ids |-> << >>, reserved |-> given], InOrder(DOMAIN specs)).ids

IncomingIds(reg, specs) == IdsFrom(reg, specs, dynamic_user_ids(reg))

AliasPairs(specs) ==
    UNION {{<<a, n>> : a \in specs[n].aliases \ {Plain(n)}} : n \in DOMAIN specs}

\* Two services with one alias, or an alias that is a service, are refused.
AliasesClash(specs) ==
    \/ \E p, q \in AliasPairs(specs) : p[1] = q[1] /\ p[2] # q[2]
    \/ \E p \in AliasPairs(specs), n \in DOMAIN specs : p[1] = Plain(n)

\* The suffix of an alias stays.
collect_aliases(specs) ==
    [a \in {p[1] : p \in AliasPairs(specs)} |->
        CHOOSE n \in DOMAIN specs : <<a, n>> \in AliasPairs(specs)]

Stopped(s) == s.st \in {"defined", "exited", "failed"}

\* Mutant: the services stopped before the wait are taken to be enough.
ActiveInTheWay_never(reg, next) == FALSE

\* A service that is not stopped may neither go nor change.
ActiveInTheWay(reg, next) ==
    \E n \in Loaded(reg) :
        /\ ~ Stopped(reg.services[n])
        /\ n \in DOMAIN next => ~ SameSpec(reg.services[n], next[n])

reload(reg, specs) ==
    LET ids == IncomingIds(reg, specs)
        next == [n \in DOMAIN specs |-> new_with_dynamic_identity(specs[n], ids[n])]
    IN  IF \/ \E n \in DOMAIN specs : Exhausted(specs[n], ids[n])
           \/ AliasesClash(specs) \/ ActiveInTheWay(reg, next)
        THEN Refused(reg)
        ELSE Done([reg EXCEPT
                     !.services = [n \in DOMAIN next |->
                                    IF n \in Loaded(reg) /\ SameSpec(reg.services[n], next[n])
                                    THEN reg.services[n] ELSE next[n]],
                     !.aliases = collect_aliases(specs)])

\* The comparison of reload_native_configuration, with the descriptor as it
\* is in the file: it has no identity, so a dynamic service always differs.
Changed(reg, specs, n) ==
    n \in DOMAIN specs => ~ SameSpec(reg.services[n], new_with_dynamic_identity(specs[n], NoId))

(* ------------------------------ properties ----------------------------- *)

\* Two services never run under one dynamic identity, across loads on
\* demand and reloads that keep some services and bring in others.
IdentitiesDistinct(reg) ==
    \A m, n \in Loaded(reg) :
        m # n /\ reg.services[m].id # NoId => reg.services[m].id # reg.services[n].id

\* Every alias leads to a loaded service and never hides one.
AliasesLead(reg) ==
    \A a \in DOMAIN reg.aliases :
        /\ reg.aliases[a] \in Loaded(reg)
        /\ a \notin {Plain(n) : n \in Loaded(reg)}
=============================================================================
