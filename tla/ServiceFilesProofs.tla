------------------------- MODULE ServiceFilesProofs -------------------------
(***************************************************************************)
(* Proofs about ServiceFiles: for every set of descriptors, any number of  *)
(* starts and of daemons, and whatever step fails or is the last before a  *)
(* kill, what exists is held by a service, what is held exists, processes  *)
(* are in their groups, and nothing that FractalD has not made is removed. *)
(***************************************************************************)
EXTENDS ServiceFiles, SequenceTheorems, TLAPS

-----------------------------------------------------------------------------
(***************************************************************************)
(* The inductive invariant.                                                *)
(***************************************************************************)

\* The steps of a start up to the prepared service, and those of spawn_main
\* before and after the process exists.
Preparing == {"credentials", "create", "mark", "fill", "directories", "private_tmp"}
Unspawned == {"undo", "listen", "notify", "cgroup", "limits", "fork"}
Spawned == {"attach", "register"}
Working == Preparing \cup Unspawned \cup Spawned
Steps == Working \cup {"idle", "drop"}
Phases == {"down", "prepared", "running", "listening", "exited", "backoff"}

\* The start in progress, and where its service is meanwhile.
OpInv ==
  /\ plan \in Plans /\ up \in BOOLEAN /\ run \in 1 .. MaxRuns /\ starts \in 0 .. MaxStarts
  /\ op = [svc |-> op.svc, step |-> op.step, n |-> op.n] /\ op.step \in Steps
  /\ op.step \notin Working => op.svc = "" /\ op.n = 0
  /\ op.step \in Working => up /\ op.svc \in Services /\ op.n \in 1 .. starts
  /\ op.step \in Preparing => held[op.svc].phase = "down"
  /\ op.step \in Unspawned \cup Spawned => held[op.svc].phase \in {"down", "prepared", "backoff"}
  /\ op.step \in Unspawned \cup Spawned /\ held[op.svc].phase = "prepared" => held[op.svc].main = op.n
  /\ ~ up => op = Idle /\ held = [s \in Services |-> Rest]

\* What the fields of a service say in each phase.
Fields(h, n) ==
  /\ h = [phase |-> h.phase, main |-> h.main, credential_directory |-> h.credential_directory,
          directories |-> h.directories, private_tmp_paths |-> h.private_tmp_paths,
          notify_path |-> h.notify_path, cgroup_path |-> h.cgroup_path]
  /\ h.phase \in Phases /\ h.credential_directory \in BOOLEAN /\ h.cgroup_path \in BOOLEAN
  /\ {h.main, h.private_tmp_paths, h.notify_path} \subseteq 0 .. n
  /\ h.phase \in {"down", "backoff"} => h.main = 0 /\ h.private_tmp_paths = 0
  /\ h.phase = "exited" => h.main = 0
  /\ h.phase \in {"prepared", "running", "listening"} => h.main # 0
  /\ h.notify_path = (IF h.phase = "running" THEN h.main ELSE 0)
  /\ h.cgroup_path => h.phase = "running"

HeldInv ==
  /\ DOMAIN held = Services
  /\ \A s \in Services :
       /\ Fields(held[s], starts)
       /\ held[s].cgroup_path => wants_cgroup(s)
       /\ held[s].phase \in {"down", "backoff"} =>
            /\ held[s].credential_directory =>
                  op.svc = s /\ op.step \in {"directories", "private_tmp", "undo"}
            /\ held[s].directories # <<>> => op.svc = s /\ op.step = "private_tmp"

\* The starts that the fields of a service name are its own.
Uses(h) == {h.main, h.private_tmp_paths} \ {0}
NumbersInv ==
  /\ \A r, s \in Services : r # s => Uses(held[r]) \cap Uses(held[s]) = {}
  /\ \A s \in Services : op.n \in Uses(held[s]) => s = op.svc

\* Credentials: a directory of this run is held or being filled.
CredInv ==
  /\ DOMAIN cred = Services
  /\ \A s \in Services :
       /\ cred[s] = [state |-> cred[s].state, run |-> cred[s].run]
       /\ cred[s].state \in {"none", "bare", "marked", "full", "foreign"}
       /\ cred[s].run \in 0 .. run
       /\ held[s].credential_directory => cred[s].state = "full"
       /\ up /\ cred[s].run = run =>
            held[s].credential_directory \/ (op.svc = s /\ op.step \in {"mark", "fill"})
  /\ op.step = "create" => cred[op.svc].state = "none"
  /\ op.step = "mark" => cred[op.svc].state = "bare"
  /\ op.step = "fill" => cred[op.svc].state = "marked"

\* Private directories and notification sockets.
Made_by(t) == /\ t = [svc |-> t.svc, n |-> t.n, run |-> t.run]
              /\ t.svc \in Services /\ t.n \in 1 .. starts /\ t.run \in 1 .. run

TmpsInv ==
  /\ \A t \in tmps : Made_by(t) /\ (up /\ t.run = run => held[t.svc].private_tmp_paths = t.n)
  /\ \A s \in Services : held[s].private_tmp_paths # 0 =>
        \E t \in tmps : t.svc = s /\ t.n = held[s].private_tmp_paths

NotesInv ==
  \A x \in notes :
     /\ Made_by(x)
     /\ up /\ x.run = run =>
          \/ held[x.svc].notify_path = x.n
          \/ /\ op.svc = x.svc /\ op.n = x.n
             /\ op.step \in {"cgroup", "limits", "fork"} \cup Spawned

\* Listeners.
SockInv ==
  /\ DOMAIN sock = UNION {ToSet(plan[s].listeners) : s \in Services}
  /\ \A x \in DOMAIN sock : sock[x] \in {File} \cup 0 .. starts
  /\ \A s \in Services :
       /\ held[s].phase = "listening" => \A x \in ToSet(plan[s].listeners) : sock[x] # File
       /\ \A x \in OwnListeners(s) :
            /\ held[s].phase = "listening" => sock[x] = held[s].main
            /\ up /\ run = 1 /\ sock[x] > 0 /\ plan[s].remove_on_stop => held[s].phase = "listening"

\* Directories: those a service is to remove are its own and were made for it.
Listed(s) == {plan[s].directories[i].path : i \in DOMAIN plan[s].directories}

DirsInv ==
  /\ full \subseteq dirs
  /\ \A s \in Services : \A i \in DOMAIN held[s].directories :
        LET d == held[s].directories[i] IN
        /\ d.path \in Listed(s)
        /\ d.path \in dirs \/ \E r \in Services \ {s} : d.path \in Listed(r)
        /\ d.cleanup /\ d.path \in dirs => d.path \in made

\* The processes.
ProcsInv ==
  /\ \A p \in tree.procs :
       /\ p = [svc |-> p.svc, n |-> p.n, run |-> p.run, role |-> p.role, cg |-> p.cg]
       /\ p.svc \in Services /\ p.n \in 1 .. starts /\ p.run \in 1 .. run
       /\ p.role \in {"main", "child"}
       /\ p.cg \in {Elsewhere, Group(p.svc)} \/ (p.cg = Inner(p.svc) /\ plan[p.svc].delegate # {})
       /\ p.n = op.n => op.step \in Spawned /\ p.svc = op.svc /\ p.run = run
       /\ \A s \in Services : p.n = held[s].main => p.svc = s
       /\ \A s \in Services : p.n = held[s].main /\ held[s].phase = "prepared" =>
             op.svc = s /\ op.step \in Spawned
  /\ \A p, q \in tree.procs : p.n = q.n /\ p.role = "main" /\ q.role = "main" => p = q

\* The control groups.
TreeOK(t) ==
  /\ t = [dirs |-> t.dirs, filtered |-> t.filtered, procs |-> t.procs, enabled |-> t.enabled]
  /\ t.dirs \subseteq Groups /\ t.filtered \subseteq Groups /\ DOMAIN t.enabled = Groups
  /\ \A g \in t.dirs : Ancestors(g) \subseteq t.dirs
  /\ \A s \in Services : Inner(s) \in t.dirs => plan[s].delegate # {}
  /\ \A p \in t.procs : p.cg \in t.dirs \cup {Elsewhere}

\* The group of a service is there, and the limits of the service are in force.
Limits(t, s) ==
  /\ Group(s) \in t.dirs
  /\ \A a \in Ancestors(Group(s)) : plan[s].controllers \subseteq t.enabled[a]
  /\ plan[s].devices => Group(s) \in t.filtered

Inside(s, n) == \A p \in Main(n) : p.cg \in {Group(s), Inner(s)}

TreeInv ==
  /\ TreeOK(tree)
  /\ \A s \in Services : held[s].cgroup_path => Limits(tree, s) /\ Inside(s, held[s].main)
  /\ op.step \in {"limits", "fork"} \cup Spawned /\ wants_cgroup(op.svc) => Group(op.svc) \in tree.dirs
  /\ op.step \in {"fork"} \cup Spawned /\ wants_cgroup(op.svc) => Limits(tree, op.svc)
  /\ op.step = "register" /\ wants_cgroup(op.svc) => Inside(op.svc, op.n)
  /\ op.step = "limits" => wants_cgroup(op.svc)

FilesIInv ==
  /\ OpInv /\ HeldInv /\ NumbersInv
  /\ CredInv /\ TmpsInv /\ NotesInv /\ SockInv /\ DirsInv
  /\ ProcsInv /\ TreeInv /\ OrphansEnd

-----------------------------------------------------------------------------
(***************************************************************************)
(* Paths.                                                                  *)
(***************************************************************************)

\* A path is within one that it begins with.
LEMMA WithinIs ==
  ASSUME NEW S, NEW g \in Seq(S), NEW h \in Seq(S)
  PROVE  Within(g, h) <=> Len(g) <= Len(h) /\ \A i \in 1 .. Len(g) : g[i] = h[i]
<1>1. ASSUME Len(g) <= Len(h)
      PROVE  /\ SubSeq(g, 1, Len(g)) = [i \in 1 .. Len(g) |-> g[i]]
             /\ SubSeq(h, 1, Len(g)) = [i \in 1 .. Len(g) |-> h[i]]
  BY <1>1
<1> QED BY <1>1 DEF Within, IsPrefix

\* The ancestors of a path are the proper beginnings of it.
LEMMA AncestorIs ==
  ASSUME NEW S, NEW g \in Seq(S), NEW a
  PROVE  a \in Ancestors(g) <=>
           a \in Seq(S) /\ Len(a) < Len(g) /\ \A i \in 1 .. Len(a) : a[i] = g[i]
<1>1. ASSUME NEW i \in 0 .. (Len(g) - 1)
      PROVE  /\ SubSeq(g, 1, i) \in Seq(S) /\ Len(SubSeq(g, 1, i)) = i
             /\ \A j \in 1 .. i : SubSeq(g, 1, i)[j] = g[j]
  BY <1>1
<1>2. ASSUME a \in Ancestors(g)
      PROVE  a \in Seq(S) /\ Len(a) < Len(g) /\ \A i \in 1 .. Len(a) : a[i] = g[i]
  <2>1. PICK i \in 0 .. (Len(g) - 1) : a = SubSeq(g, 1, i)
    BY <1>2 DEF Ancestors
  <2> QED BY <2>1, <1>1
<1>3. ASSUME a \in Seq(S), Len(a) < Len(g), \A i \in 1 .. Len(a) : a[i] = g[i]
      PROVE  a \in Ancestors(g)
  <2>1. Len(a) \in 0 .. (Len(g) - 1)
    BY <1>3
  <2>2. a = SubSeq(g, 1, Len(a))
    BY <1>1, <1>3, <2>1, SeqEqual
  <2> QED BY <2>1, <2>2 DEF Ancestors
<1> QED BY <1>2, <1>3

\* The order of paths.
LEMMA WithinOrder ==
  ASSUME NEW S, NEW f \in Seq(S), NEW g \in Seq(S), NEW h \in Seq(S)
  PROVE  /\ Within(f, f)
         /\ Within(f, g) /\ Within(g, h) => Within(f, h)
         /\ f \in Ancestors(g) <=> Below(f, g)
         /\ f \in Ancestors(g) /\ g \in Ancestors(h) => f \in Ancestors(h)
         /\ Within(f, h) /\ Within(g, h) => Within(f, g) \/ Within(g, f)
<1>1. /\ Within(f, f) <=> Len(f) <= Len(f) /\ \A i \in 1 .. Len(f) : f[i] = f[i]
      /\ Within(f, g) <=> Len(f) <= Len(g) /\ \A i \in 1 .. Len(f) : f[i] = g[i]
      /\ Within(g, f) <=> Len(g) <= Len(f) /\ \A i \in 1 .. Len(g) : g[i] = f[i]
      /\ Within(g, h) <=> Len(g) <= Len(h) /\ \A i \in 1 .. Len(g) : g[i] = h[i]
      /\ Within(f, h) <=> Len(f) <= Len(h) /\ \A i \in 1 .. Len(f) : f[i] = h[i]
  BY WithinIs
<1>2. /\ f \in Ancestors(g) <=> Len(f) < Len(g) /\ \A i \in 1 .. Len(f) : f[i] = g[i]
      /\ g \in Ancestors(h) <=> Len(g) < Len(h) /\ \A i \in 1 .. Len(g) : g[i] = h[i]
      /\ f \in Ancestors(h) <=> Len(f) < Len(h) /\ \A i \in 1 .. Len(f) : f[i] = h[i]
  BY AncestorIs
<1>3. Len(f) \in Nat /\ Len(g) \in Nat /\ Len(h) \in Nat
  OBVIOUS
<1>4. Within(f, f) /\ (Within(f, g) /\ Within(g, h) => Within(f, h))
  BY <1>1, <1>3
<1>5. f \in Ancestors(g) <=> Below(f, g)
  <2>1. ASSUME f \in Ancestors(g) PROVE Below(f, g)
    BY <1>1, <1>2, <1>3, <2>1 DEF Below
  <2>2. ASSUME Below(f, g) PROVE f \in Ancestors(g)
    <3>1. Len(f) = Len(g) => f = g
      BY <1>1, <2>2, SeqEqual DEF Below
    <3> QED BY <1>1, <1>2, <1>3, <2>2, <3>1 DEF Below
  <2> QED BY <2>1, <2>2
<1>6. f \in Ancestors(g) /\ g \in Ancestors(h) => f \in Ancestors(h)
  BY <1>2, <1>3
<1>7. Within(f, h) /\ Within(g, h) => Within(f, g) \/ Within(g, f)
  BY <1>1, <1>3
<1> QED BY <1>4, <1>5, <1>6, <1>7

\* The groups of the services.
LEMMA ServiceGroups ==
  ASSUME plan \in Plans, NEW s \in Services
  PROVE  /\ Group(s) \in Path /\ Inner(s) \in Path
         /\ Group(s) # <<>> /\ Group(s) \in Groups /\ Inner(s) \in Groups
         /\ Group(s) # Elsewhere /\ Inner(s) # Elsewhere
         /\ Ancestors(Inner(s)) = Ancestors(Group(s)) \cup {Group(s)}
         /\ Within(Group(s), Group(s)) /\ Within(Group(s), Inner(s))
         /\ Inner(s) \notin Ancestors(Group(s)) \cup {Group(s)}
<1>1. s \in Names /\ plan[s].slice \in Path
  BY PlansAssumption DEF Services, Descriptor
<1>2. Group(s) = Append(plan[s].slice, s) /\ Inner(s) = Append(Group(s), "own")
  BY DEF Group, Inner, service_cgroup_path
<1>3. /\ Group(s) \in Path /\ Len(Group(s)) = Len(plan[s].slice) + 1
      /\ Inner(s) \in Path /\ Len(Inner(s)) = Len(Group(s)) + 1
      /\ \A i \in 1 .. Len(Group(s)) : Inner(s)[i] = Group(s)[i]
  <2>1. Group(s) \in Path /\ Len(Group(s)) = Len(plan[s].slice) + 1
    BY <1>1, <1>2 DEF Path
  <2>2. "own" \in Names
    BY PlansAssumption
  <2> QED BY <1>2, <2>1, <2>2 DEF Path
<1>4. Elsewhere = <<"/">> /\ Len(Elsewhere) = 1 /\ Elsewhere[1] = "/"
  BY DEF Elsewhere
<1>5. Group(s) # Elsewhere /\ Inner(s) # Elsewhere
  <2>1. Group(s)[1] \in Names /\ Inner(s)[1] \in Names
    BY <1>1, <1>3 DEF Path
  <2> QED BY <2>1, <1>4, PlansAssumption
<1>6. Ancestors(Inner(s)) = Ancestors(Group(s)) \cup {Group(s)}
  <2>1. ASSUME NEW a PROVE a \in Ancestors(Inner(s)) <=> a \in Ancestors(Group(s)) \/ a = Group(s)
    <3>1. /\ a \in Ancestors(Inner(s)) <=>
               a \in Path /\ Len(a) < Len(Inner(s)) /\ \A i \in 1 .. Len(a) : a[i] = Inner(s)[i]
          /\ a \in Ancestors(Group(s)) <=>
               a \in Path /\ Len(a) < Len(Group(s)) /\ \A i \in 1 .. Len(a) : a[i] = Group(s)[i]
      BY <1>3, AncestorIs DEF Path
    <3>2. ASSUME a \in Ancestors(Inner(s)) PROVE a \in Ancestors(Group(s)) \/ a = Group(s)
      <4>1. Len(a) <= Len(Group(s)) /\ Len(a) \in Nat /\ \A i \in 1 .. Len(a) : a[i] = Group(s)[i]
        BY <1>3, <3>1, <3>2 DEF Path
      <4>2. Len(a) = Len(Group(s)) => a = Group(s)
        BY <1>3, <3>1, <3>2, <4>1, SeqEqual DEF Path
      <4> QED BY <3>1, <3>2, <4>1, <4>2
    <3>3. a \in Ancestors(Group(s)) => a \in Ancestors(Inner(s))
      BY <1>3, <3>1 DEF Path
    <3>4. a = Group(s) => a \in Ancestors(Inner(s))
      BY <1>3, <3>1 DEF Path
    <3> QED BY <3>2, <3>3, <3>4
  <2> QED BY <2>1
<1>7. Within(Group(s), Group(s)) /\ Within(Group(s), Inner(s))
  BY <1>3, WithinIs DEF Path
<1>8. Group(s) \in Groups /\ Inner(s) \in Groups
  BY <1>6 DEF Groups
<1>9. Group(s) # <<>>
  BY <1>3, <1>1 DEF Path
<1>10. Inner(s) \notin Ancestors(Group(s)) \cup {Group(s)}
  <2>1. Inner(s) \in Ancestors(Group(s)) => Len(Inner(s)) < Len(Group(s))
    BY <1>3, AncestorIs DEF Path
  <2>2. Len(Group(s)) \in Nat
    BY <1>3 DEF Path
  <2> QED BY <1>3, <2>1, <2>2
<1> QED BY <1>3, <1>5, <1>6, <1>7, <1>8, <1>9, <1>10

\* A group is a path, not Elsewhere, and has its ancestors among the groups.
LEMMA GroupsClosed ==
  ASSUME plan \in Plans, NEW g \in Groups
  PROVE  g \in Path /\ g # Elsewhere /\ Ancestors(g) \subseteq Groups
<1>1. CASE g = <<>>
  <2>1. <<>> \in Path /\ Len(<<>>) = 0
    BY DEF Path
  <2>2. Ancestors(<<>>) = {}
    BY <2>1 DEF Ancestors
  <2> QED BY <1>1, <2>1, <2>2 DEF Elsewhere
<1>2. CASE g # <<>>
  <2>1. PICK s \in Services : g \in Ancestors(Inner(s)) \cup {Inner(s)}
    BY <1>2 DEF Groups
  <2>2. Inner(s) \in Path /\ Inner(s) # Elsewhere
    BY ServiceGroups
  <2>3. ASSUME NEW a \in Ancestors(Inner(s))
        PROVE  a \in Path /\ a \in Groups /\ a # Elsewhere
    <3>1. a \in Path
      BY <2>2, <2>3, AncestorIs DEF Path
    <3>2. a # Elsewhere
      <4>1. a = Elsewhere => Len(a) = 1 /\ a[1] = "/"
        BY DEF Elsewhere
      <4>2. Len(a) = 1 => a[1] \in Names
        BY <3>1 DEF Path
      <4> QED BY <4>1, <4>2, PlansAssumption
    <3> QED BY <2>3, <3>1, <3>2 DEF Groups
  <2>4. CASE g = Inner(s)
    BY <2>2, <2>3, <2>4 DEF Groups
  <2>5. CASE g \in Ancestors(Inner(s))
    <3>1. g \in Path /\ g # Elsewhere
      BY <2>3, <2>5
    <3>2. ASSUME NEW a \in Ancestors(g) PROVE a \in Groups
      <4>1. a \in Path
        BY <3>1, <3>2, AncestorIs DEF Path
      <4>2. a \in Ancestors(Inner(s))
        BY <2>2, <2>5, <3>1, <3>2, <4>1, WithinOrder DEF Path
      <4> QED BY <4>2, <2>3
    <3> QED BY <3>1, <3>2
  <2> QED BY <2>1, <2>4, <2>5
<1> QED BY <1>1, <1>2

\* The groups of two services are apart: neither is within the other, nor
\* within a slice of the other.
LEMMA GroupsApart ==
  ASSUME plan \in Plans, NEW r \in Services, NEW s \in Services, r # s
  PROVE  /\ ~ Within(Group(r), Inner(s)) /\ ~ Within(Group(r), Group(s))
         /\ \A a \in Ancestors(Group(s)) : ~ Within(Group(r), a)
         /\ Group(r) # Group(s) /\ Group(r) # Inner(s) /\ Inner(r) # Inner(s)
<1>1. /\ r \in Names /\ s \in Names
      /\ plan[r].slice \in Path /\ plan[s].slice \in Path
      /\ \A i \in 1 .. Len(plan[s].slice) : plan[s].slice[i] # r
      /\ \A i \in 1 .. Len(plan[r].slice) : plan[r].slice[i] # s
  <2>1. /\ r \in Names /\ s \in Names
        /\ plan[r].slice \in Path /\ plan[s].slice \in Path
        /\ r \notin ToSet(plan[s].slice) /\ s \notin ToSet(plan[r].slice)
    BY PlansAssumption DEF Services, Descriptor
  <2> QED BY <2>1 DEF ToSet, Path
<1>2. /\ Group(r) = Append(plan[r].slice, r) /\ Inner(r) = Append(Group(r), "own")
      /\ Group(s) = Append(plan[s].slice, s) /\ Inner(s) = Append(Group(s), "own")
  BY DEF Group, Inner, service_cgroup_path
<1> DEFINE j == Len(plan[r].slice)
           k == Len(plan[s].slice)
<1>3. /\ Group(r) \in Path /\ j \in Nat /\ Len(Group(r)) = j + 1 /\ Group(r)[j + 1] = r
      /\ \A i \in 1 .. j : Group(r)[i] = plan[r].slice[i]
  BY <1>1, <1>2 DEF Path
<1>4. /\ Group(s) \in Path /\ k \in Nat /\ Len(Group(s)) = k + 1 /\ Group(s)[k + 1] = s
      /\ \A i \in 1 .. k : Group(s)[i] = plan[s].slice[i]
  BY <1>1, <1>2 DEF Path
<1>5. /\ Inner(s) \in Path /\ Len(Inner(s)) = k + 2
      /\ \A i \in 1 .. k + 1 : Inner(s)[i] = Group(s)[i]
  <2>1. "own" \in Names
    BY PlansAssumption
  <2>2. /\ Inner(s) \in Path /\ Len(Inner(s)) = Len(Group(s)) + 1
        /\ \A i \in 1 .. Len(Group(s)) : Inner(s)[i] = Group(s)[i]
    BY <1>2, <1>4, <2>1 DEF Path
  <2> HIDE DEF k
  <2> QED BY <1>4, <2>2
<1> HIDE DEF j, k
<1>6. ~ Within(Group(r), Inner(s))
  <2> SUFFICES ASSUME Within(Group(r), Inner(s)) PROVE FALSE
    OBVIOUS
  <2>1. j + 1 <= k + 2 /\ \A i \in 1 .. j + 1 : Group(r)[i] = Inner(s)[i]
    BY <1>3, <1>5, WithinIs DEF Path
  <2>2. \A i \in 1 .. k + 1 : Inner(s)[i] # r
    BY <1>1, <1>4, <1>5 DEF k
  <2>3. j = k + 1
    BY <1>3, <1>4, <2>1, <2>2
  <2>4. Group(r)[k + 1] = s /\ Group(r)[k + 1] = plan[r].slice[k + 1] /\ k + 1 \in 1 .. j
    BY <1>3, <1>4, <1>5, <2>1, <2>3
  <2> QED BY <1>1, <2>4 DEF j
<1>7. /\ Within(Group(s), Inner(s)) /\ Within(Inner(s), Inner(s)) /\ Within(Group(r), Inner(r))
  BY ServiceGroups, <1>5, WithinOrder DEF Path
<1>8. ~ Within(Group(r), Group(s))
  BY <1>3, <1>4, <1>5, <1>6, <1>7, WithinOrder DEF Path
<1>9. \A a \in Ancestors(Group(s)) : ~ Within(Group(r), a)
  <2> SUFFICES ASSUME NEW a \in Ancestors(Group(s)), Within(Group(r), a) PROVE FALSE
    OBVIOUS
  <2>1. a \in Path
    BY <1>4, AncestorIs DEF Path
  <2>2. Within(a, Group(s))
    BY <1>4, <2>1, WithinOrder DEF Path, Below
  <2> QED BY <1>3, <1>4, <1>8, <2>1, <2>2, WithinOrder DEF Path
<1>10. Group(r) # Group(s) /\ Group(r) # Inner(s) /\ Inner(r) # Inner(s)
  BY <1>6, <1>7
<1> QED BY <1>6, <1>8, <1>9, <1>10

-----------------------------------------------------------------------------
(***************************************************************************)
(* The start in progress and the fields of the services.                   *)
(***************************************************************************)

Control == OpInv /\ HeldInv /\ NumbersInv
Bounds == UNCHANGED <<plan, up, run, starts>>

\* Counters are numbers.
LEMMA CountersAre ==
  ASSUME OpInv
  PROVE  /\ starts \in Nat /\ run \in Nat \ {0} /\ starts <= MaxStarts /\ run <= MaxRuns
         /\ MaxStarts \in Nat /\ MaxRuns \in Nat /\ up \in BOOLEAN /\ plan \in Plans
<1>1. MaxStarts \in Nat /\ MaxRuns \in Nat \ {0}
  BY PlansAssumption
<1>2. starts \in 0 .. MaxStarts /\ run \in 1 .. MaxRuns /\ up \in BOOLEAN /\ plan \in Plans
  BY DEF OpInv
<1> QED BY <1>1, <1>2

\* What is read off the descriptors does not change.
LEMMA PlanKept ==
  ASSUME plan' = plan
  PROVE  /\ Services' = Services /\ Groups' = Groups /\ looks_for_orphans' = looks_for_orphans
         /\ \A s \in Services :
              /\ wants_cgroup(s)' = wants_cgroup(s) /\ Group(s)' = Group(s) /\ Inner(s)' = Inner(s)
              /\ OwnListeners(s)' = OwnListeners(s) /\ Listed(s)' = Listed(s)
BY DEF Services, Groups, looks_for_orphans, wants_cgroup, Group, Inner, OwnListeners, Listed

\* A service is at rest again, or waits for its restart, and is idle.
Ended(s) ==
  \E phase \in {"down", "backoff"} : held' = [held EXCEPT ![s] = [Rest EXCEPT !.phase = phase]]

\* The fields of a service are a record of known fields.
LEMMA HeldIs ==
  ASSUME HeldInv, NEW s \in Services
  PROVE  held[s] = [phase |-> held[s].phase, main |-> held[s].main,
                    credential_directory |-> held[s].credential_directory,
                    directories |-> held[s].directories,
                    private_tmp_paths |-> held[s].private_tmp_paths,
                    notify_path |-> held[s].notify_path, cgroup_path |-> held[s].cgroup_path]
BY DEF HeldInv, Fields

LEMMA IdleIs ==
  /\ Idle = [svc |-> Idle.svc, step |-> Idle.step, n |-> Idle.n]
  /\ Idle.svc = "" /\ Idle.step = "idle" /\ Idle.n = 0
BY DEF Idle

LEMMA DroppingIs ==
  ASSUME NEW d, d = Dropping
  PROVE  /\ d = [svc |-> d.svc, step |-> d.step, n |-> d.n]
         /\ d.svc = "" /\ d.step = "drop" /\ d.n = 0
BY DEF Dropping, Idle

LEMMA FieldsGrow ==
  ASSUME NEW h, NEW m \in Nat, NEW n \in Nat, m <= n, Fields(h, m)
  PROVE  Fields(h, n)
<1>1. 0 .. m \subseteq 0 .. n
  OBVIOUS
<1> QED BY <1>1 DEF Fields

\* A service at rest has nothing.
LEMMA EndedIs ==
  ASSUME HeldInv, NEW s \in Services, Ended(s)
  PROVE  /\ DOMAIN held' = DOMAIN held
         /\ \A r \in Services \ {s} : held'[r] = held[r]
         /\ held'[s].phase \in {"down", "backoff"}
         /\ held'[s] = [phase |-> held'[s].phase, main |-> 0, credential_directory |-> FALSE,
                        directories |-> <<>>, private_tmp_paths |-> 0, notify_path |-> 0,
                        cgroup_path |-> FALSE]
<1>1. PICK phase \in {"down", "backoff"} : held' = [held EXCEPT ![s] = [Rest EXCEPT !.phase = phase]]
  BY DEF Ended
<1>2. held'[s] = [phase |-> phase, main |-> 0, credential_directory |-> FALSE,
                  directories |-> <<>>, private_tmp_paths |-> 0, notify_path |-> 0,
                  cgroup_path |-> FALSE]
  BY <1>1 DEF HeldInv, Rest
<1> QED BY <1>1, <1>2 DEF HeldInv

LEMMA RestIs ==
  ASSUME NEW n \in Nat, NEW phase \in {"down", "backoff"}, NEW h,
         h = [phase |-> phase, main |-> 0, credential_directory |-> FALSE,
              directories |-> <<>>, private_tmp_paths |-> 0, notify_path |-> 0,
              cgroup_path |-> FALSE]
  PROVE  Fields(h, n)
<1>1. h.phase = phase /\ h.main = 0 /\ h.credential_directory = FALSE /\ h.directories = <<>>
  OBVIOUS
<1>2. h.private_tmp_paths = 0 /\ h.notify_path = 0 /\ h.cgroup_path = FALSE
  OBVIOUS
<1>3. {0} \subseteq 0 .. n
  OBVIOUS
<1> QED BY <1>1, <1>2, <1>3 DEF Fields, Phases

\* The end of a start or of a service.
LEMMA EndedControl ==
  ASSUME Control, NEW s \in Services, up, Ended(s), op.svc = s \/ op.step \notin Working,
         op' \in {Idle, Dropping}, Bounds
  PROVE  Control'
<1>1. /\ DOMAIN held' = DOMAIN held
      /\ \A r \in Services \ {s} : held'[r] = held[r]
      /\ held'[s].phase \in {"down", "backoff"}
      /\ held'[s] = [phase |-> held'[s].phase, main |-> 0, credential_directory |-> FALSE,
                     directories |-> <<>>, private_tmp_paths |-> 0, notify_path |-> 0,
                     cgroup_path |-> FALSE]
  BY EndedIs DEF Control
<1>2. /\ op' = [svc |-> op'.svc, step |-> op'.step, n |-> op'.n]
      /\ op'.svc = "" /\ op'.n = 0 /\ op'.step \in {"idle", "drop"}
  <2>1. CASE op' = Idle
    BY <2>1 DEF Idle
  <2>2. CASE op' = Dropping
    BY <2>2 DEF Idle, Dropping
  <2> QED BY <2>1, <2>2
<1>3. /\ starts' = starts /\ plan' = plan /\ run' = run /\ up' = up /\ Services' = Services
      /\ \A r \in Services : wants_cgroup(r)' = wants_cgroup(r)
  BY PlanKept DEF Bounds
<1>4. OpInv'
  BY <1>2, <1>3 DEF Control, OpInv, Steps, Working, Preparing, Unspawned, Spawned
<1>5. Fields(held'[s], starts')
  BY <1>1, <1>3, CountersAre, RestIs DEF Control
<1>6. ASSUME NEW r \in Services, r # s
      PROVE  /\ Fields(held'[r], starts') /\ (held'[r].cgroup_path => wants_cgroup(r))
             /\ held'[r].phase \in {"down", "backoff"} => ~ held'[r].credential_directory /\ held'[r].directories = <<>>
  <2>1. held'[r] = held[r]
    BY <1>1, <1>6
  <2>2. Fields(held[r], starts) /\ (held[r].cgroup_path => wants_cgroup(r))
    BY DEF Control, HeldInv
  <2>3. ~ (op.svc = r /\ op.step \in Working)
    BY <1>6
  <2>4. held[r].phase \in {"down", "backoff"} => ~ held[r].credential_directory /\ held[r].directories = <<>>
    BY <2>3 DEF Control, HeldInv, Working, Preparing, Unspawned
  <2> QED BY <1>3, <2>1, <2>2, <2>4
<1>7. HeldInv'
  BY <1>1, <1>3, <1>5, <1>6 DEF HeldInv, Control
<1>8. Uses(held[s])' = {} /\ \A r \in Services \ {s} : Uses(held[r])' = Uses(held[r])
  BY <1>1 DEF Uses
<1>9. NumbersInv'
  <2>1. \A r \in Services : op'.n \notin Uses(held[r])'
    BY <1>2 DEF Uses
  <2> QED BY <1>3, <1>8, <2>1 DEF NumbersInv, Control
<1> QED BY <1>4, <1>7, <1>9 DEF Control

\* A start goes on to its next step.
LEMMA GoControl ==
  ASSUME Control, NEW t, op' = [op EXCEPT !.step = t], held' = held, Bounds,
         \/ op.step \in Preparing \ {"directories", "private_tmp"} /\ t \in Preparing
         \/ op.step \in (Unspawned \cup Spawned) \ {"undo"} /\ t \in Unspawned \cup Spawned
         \/ op.step = "directories" /\ t = "undo"
  PROVE  Control' /\ op'.svc = op.svc /\ op'.n = op.n /\ op'.step = t
<1>1. op = [svc |-> op.svc, step |-> op.step, n |-> op.n] /\ op.step \in Working
  <2>1. op = [svc |-> op.svc, step |-> op.step, n |-> op.n]
    BY DEF Control, OpInv
  <2>2. op.step \in Working
    BY DEF Working, Preparing
  <2> QED BY <2>1, <2>2
<1>2. op' = [svc |-> op.svc, step |-> t, n |-> op.n]
  BY <1>1
<1>3. op'.svc = op.svc /\ op'.step = t /\ op'.n = op.n /\ t \in Working
  BY <1>2 DEF Working, Unspawned
<1>4. /\ starts' = starts /\ plan' = plan /\ run' = run /\ up' = up /\ Services' = Services
      /\ \A r \in Services : wants_cgroup(r)' = wants_cgroup(r)
  BY PlanKept DEF Bounds
<1>5. OpInv'
  <2>1. /\ plan \in Plans /\ up \in BOOLEAN /\ run \in 1 .. MaxRuns /\ starts \in 0 .. MaxStarts
        /\ up /\ op.svc \in Services /\ op.n \in 1 .. starts
        /\ op.step \in Preparing => held[op.svc].phase = "down"
        /\ op.step \in Unspawned \cup Spawned => held[op.svc].phase \in {"down", "prepared", "backoff"}
        /\ op.step \in Unspawned \cup Spawned /\ held[op.svc].phase = "prepared" => held[op.svc].main = op.n
    BY <1>1 DEF Control, OpInv
  <2>2. /\ t \in Preparing => op.step \in Preparing
        /\ t \in Unspawned \cup Spawned => op.step \in Preparing \cup Unspawned \cup Spawned
        /\ t \in Steps
    BY DEF Preparing, Unspawned, Spawned, Steps, Working
  <2> QED BY <1>2, <1>3, <1>4, <2>1, <2>2 DEF OpInv
<1>6. HeldInv'
  <2>1. ASSUME NEW s \in Services, held[s].phase \in {"down", "backoff"}
        PROVE  /\ held[s].credential_directory =>
                      op'.svc = s /\ op'.step \in {"directories", "private_tmp", "undo"}
               /\ held[s].directories # <<>> => op'.svc = s /\ op'.step = "private_tmp"
    BY <1>3, <2>1 DEF Control, HeldInv, Preparing, Unspawned, Spawned
  <2>2. /\ DOMAIN held = Services
        /\ \A s \in Services : Fields(held[s], starts) /\ (held[s].cgroup_path => wants_cgroup(s))
    BY DEF Control, HeldInv
  <2> QED BY <1>4, <2>1, <2>2 DEF HeldInv
<1>7. NumbersInv'
  BY <1>3, <1>4 DEF Control, NumbersInv, Uses
<1> QED BY <1>3, <1>5, <1>6, <1>7 DEF Control

\* A start begins.
LEMMA BeginControl ==
  ASSUME Control, NEW s \in Services, NEW t, NEW n, up, op = Idle, held' = held,
         op' = [svc |-> s, step |-> t, n |-> n], UNCHANGED <<plan, up, run>>,
         \/ starts' = starts /\ n = held[s].main
         \/ starts' = starts + 1 /\ starts < MaxStarts /\ n = starts + 1,
         \/ t = "credentials" /\ held[s].phase = "down" 
         \/ t \in {"notify", "listen"} /\ held[s].phase \in {"prepared", "backoff"},
         held[s].phase = "prepared" <=> starts' = starts
  PROVE  Control'
<1>1. op'.svc = s /\ op'.step = t /\ op'.n = n /\ op' = [svc |-> op'.svc, step |-> op'.step, n |-> op'.n]
  OBVIOUS
<1>2. /\ plan' = plan /\ run' = run /\ up' = up /\ Services' = Services
      /\ \A r \in Services : wants_cgroup(r)' = wants_cgroup(r)
  BY PlanKept
<1>3. starts \in Nat /\ MaxStarts \in Nat /\ starts' \in Nat /\ starts <= starts' /\ starts' \in 0 .. MaxStarts
  BY CountersAre DEF Control
<1>4. /\ \A r \in Services : Fields(held[r], starts)
      /\ op.svc = "" /\ op.step = "idle" /\ op.n = 0
  BY DEF Control, HeldInv, Idle
<1>5. \A r \in Services : Uses(held[r]) \subseteq 1 .. starts
  <2>1. \A r \in Services : {held[r].main, held[r].private_tmp_paths} \subseteq 0 .. starts
    BY <1>4 DEF Fields
  <2> QED BY <1>3, <2>1 DEF Uses
<1>6. n \in 1 .. starts' /\ (n # held[s].main => \A r \in Services : n \notin Uses(held[r]))
  <2>1. CASE starts' = starts
    <3>1. held[s].main \in 0 .. starts /\ held[s].main # 0
      BY <1>4, <2>1 DEF Fields
    <3> QED BY <1>3, <2>1, <3>1
  <2>2. CASE starts' = starts + 1
    BY <1>3, <1>5, <2>2
  <2> QED BY <2>1, <2>2
<1>7. OpInv'
  <2>1. plan \in Plans /\ up \in BOOLEAN /\ run \in 1 .. MaxRuns
    BY DEF Control, OpInv
  <2>2. t \in Steps /\ t \in Working /\ (t \in Preparing => held[s].phase = "down")
        /\ (t \in Unspawned \cup Spawned => held[s].phase \in {"prepared", "backoff"})
    BY DEF Steps, Working, Preparing, Unspawned, Spawned
  <2>3. held[s].phase = "prepared" => held[s].main = n
    BY <1>3
  <2>4. starts' \in 0 .. MaxStarts /\ n \in 1 .. starts'
    BY <1>3, <1>6
  <2>5. held'[op'.svc].phase = held[s].phase /\ held'[op'.svc].main = held[s].main
    BY <1>1
  <2>6. /\ op'.step \notin Working => op'.svc = "" /\ op'.n = 0
        /\ op'.step \in Working => up' /\ op'.svc \in Services' /\ op'.n \in 1 .. starts'
        /\ op'.step \in Steps /\ up'
    <3>1. op'.svc = s /\ op'.step = t /\ op'.n = n
      BY <1>1
    <3>2. up' /\ op'.svc \in Services' /\ op'.step \in Working /\ op'.step \in Steps
      BY <1>2, <2>2, <3>1
    <3>3. op'.n \in 1 .. starts'
      BY <2>4, <3>1
    <3> QED BY <3>2, <3>3
  <2>7. /\ op'.step \in Preparing => held'[op'.svc].phase = "down"
        /\ op'.step \in Unspawned \cup Spawned => held'[op'.svc].phase \in {"down", "prepared", "backoff"}
        /\ op'.step \in Unspawned \cup Spawned /\ held'[op'.svc].phase = "prepared" => held'[op'.svc].main = op'.n
    BY <1>1, <2>2, <2>3, <2>5
  <2> QED BY <1>1, <1>2, <2>1, <2>4, <2>6, <2>7 DEF OpInv
<1>8. HeldInv'
  <2>1. ASSUME NEW r \in Services PROVE Fields(held[r], starts')
    BY <1>3, <1>4, FieldsGrow
  <2>2. ASSUME NEW r \in Services, held[r].phase \in {"down", "backoff"}
        PROVE  ~ held[r].credential_directory /\ held[r].directories = <<>>
    BY <1>4, <2>2 DEF Control, HeldInv
  <2>3. DOMAIN held = Services /\ \A r \in Services : held[r].cgroup_path => wants_cgroup(r)
    BY DEF Control, HeldInv
  <2> QED BY <1>2, <2>1, <2>2, <2>3 DEF HeldInv
<1>9. NumbersInv'
  <2>1. \A r, q \in Services : r # q => Uses(held[r]) \cap Uses(held[q]) = {}
    BY DEF Control, NumbersInv
  <2>2. n = held[s].main /\ n # 0 => n \in Uses(held[s])
    BY DEF Uses
  <2>3. \A r \in Services : n \in Uses(held[r]) => r = s
    BY <1>3, <1>6, <2>1, <2>2
  <2> QED BY <1>1, <1>2, <2>1, <2>3 DEF NumbersInv
<1> QED BY <1>7, <1>8, <1>9 DEF Control

\* The service of the start in progress, or one of an idle supervisor, has
\* other fields than before.
LEMMA UpdateControl ==
  ASSUME Control, NEW s \in Services, Bounds, OpInv',
         DOMAIN held' = DOMAIN held, \A r \in Services \ {s} : held'[r] = held[r],
         Fields(held'[s], starts), held'[s].cgroup_path => wants_cgroup(s),
         Uses(held'[s]) \subseteq Uses(held[s]) \cup {op.n},
         op.svc = s \/ op.step \notin Working, op'.n \in {op.n, 0},
         held'[s].phase \in {"down", "backoff"} =>
            /\ held'[s].credential_directory =>
                  op'.svc = s /\ op'.step \in {"directories", "private_tmp", "undo"}
            /\ held'[s].directories # <<>> => op'.svc = s /\ op'.step = "private_tmp",
         op.step \in Working => op'.svc = s \/ op' = Idle
  PROVE  Control'
<1>1. /\ starts' = starts /\ plan' = plan /\ Services' = Services
      /\ \A r \in Services : wants_cgroup(r)' = wants_cgroup(r)
  BY PlanKept DEF Bounds
<1>2. HeldInv'
  <2>1. ASSUME NEW r \in Services, r # s
        PROVE  /\ Fields(held'[r], starts) /\ (held'[r].cgroup_path => wants_cgroup(r))
               /\ held'[r].phase \in {"down", "backoff"} =>
                      ~ held'[r].credential_directory /\ held'[r].directories = <<>>
    <3>1. held'[r] = held[r]
      BY <2>1
    <3>2. Fields(held[r], starts) /\ (held[r].cgroup_path => wants_cgroup(r))
      BY DEF Control, HeldInv
    <3>3. ~ (op.svc = r /\ op.step \in Working)
      BY <2>1
    <3>4. held[r].phase \in {"down", "backoff"} => ~ held[r].credential_directory /\ held[r].directories = <<>>
      BY <3>3 DEF Control, HeldInv, Working, Preparing, Unspawned
    <3> QED BY <3>1, <3>2, <3>4
  <2>2. DOMAIN held' = Services
    BY DEF Control, HeldInv
  <2> QED BY <1>1, <2>1, <2>2 DEF HeldInv
<1>3. NumbersInv'
  <2>1. /\ \A r, q \in Services : r # q => Uses(held[r]) \cap Uses(held[q]) = {}
        /\ \A r \in Services : op.n \in Uses(held[r]) => r = op.svc
        /\ op.step \notin Working => op.n = 0
        /\ \A h : 0 \notin Uses(h)
    BY DEF Control, NumbersInv, OpInv, Uses
  <2>2. \A r \in Services \ {s} : Uses(held'[r]) = Uses(held[r]) /\ op.n \notin Uses(held'[r])
    BY <2>1 DEF Uses
  <2>3. \A r \in Services \ {s} : Uses(held'[r]) \cap Uses(held'[s]) = {}
    BY <2>1, <2>2
  <2>4. \A r, q \in Services : r # q => Uses(held'[r]) \cap Uses(held'[q]) = {}
    BY <2>1, <2>2, <2>3
  <2>5. \A r \in Services : op'.n \in Uses(held'[r]) => r = op'.svc
    <3>1. op'.n = 0 \/ (op'.n = op.n /\ op.step \in Working)
      BY <2>1
    <3>2. op' = Idle => op'.n = 0
      BY IdleIs
    <3> QED BY <2>1, <2>2, <3>1, <3>2
  <2> QED BY <1>1, <2>4, <2>5 DEF NumbersInv
<1> QED BY <1>2, <1>3 DEF Control

-----------------------------------------------------------------------------
(***************************************************************************)
(* The control groups: what cleanup_cgroup leaves.                         *)
(***************************************************************************)

\* A group is populated when one in it is.
LEMMA PopulatedUp ==
  ASSUME plan \in Plans, NEW t, TreeOK(t), NEW a \in Groups, NEW h \in Groups,
         Within(a, h), Populated(t, h)
  PROVE  Populated(t, a)
<1>1. PICK p \in t.procs : p.cg # Elsewhere /\ Within(h, p.cg)
  BY DEF Populated
<1>2. p.cg \in Groups
  BY <1>1 DEF TreeOK
<1>3. a \in Path /\ h \in Path /\ p.cg \in Path
  BY <1>2, GroupsClosed
<1>4. Within(a, p.cg)
  BY <1>1, <1>3, WithinOrder DEF Path
<1> QED BY <1>1, <1>4 DEF Populated

\* What cleanup_cgroup removes is empty, with all that is in it, and no group
\* of another service or above one.
LEMMA CleanupIs ==
  ASSUME plan \in Plans, NEW s \in Services, NEW t, TreeOK(t), NEW u, u = cleanup_cgroup(t, Group(s))
  PROVE  \E gs : \E f :
           /\ u = [dirs |-> t.dirs \ gs, filtered |-> f, procs |-> t.procs,
                   enabled |-> [g \in Groups |-> IF g \in gs THEN {} ELSE t.enabled[g]]]
           /\ f \subseteq t.filtered
           /\ \A h \in t.filtered : h \in f \/ h \in gs \/ Within(Group(s), h)
           /\ \A g \in gs : ~ Populated(t, g) /\ \A h \in t.dirs : g \in Ancestors(h) => h \in gs
           /\ \A r \in Services \ {s} : Group(r) \in t.dirs =>
                 Group(r) \notin gs /\ Ancestors(Group(r)) \cap gs = {}
<1> DEFINE g == Group(s)
           gone == {h \in t.dirs : Within(g, h) /\ g # <<>> /\ ~ Populated(t, h)}
           below == [Without(t, gone) EXCEPT !.filtered = {h \in @ : ~ Within(g, h)}]
           up_ == {a \in Ancestors(g) \ {<<>>} :
                     /\ \A h \in below.dirs : Below(a, h) => h \in Ancestors(g)
                     /\ ~ Populated(below, a)}
<1>1. u = IF g \in below.dirs THEN below ELSE Without(below, up_)
  BY DEF cleanup_cgroup
<1>2. /\ t = [dirs |-> t.dirs, filtered |-> t.filtered, procs |-> t.procs, enabled |-> t.enabled]
      /\ t.dirs \subseteq Groups /\ DOMAIN t.enabled = Groups
      /\ \A h \in t.dirs : Ancestors(h) \subseteq t.dirs
  BY DEF TreeOK
<1> DEFINE f1 == {h \in t.filtered \ gone : ~ Within(g, h)}
           e1 == [h \in Groups |-> IF h \in gone THEN {} ELSE t.enabled[h]]
<1>3. below = [dirs |-> t.dirs \ gone, filtered |-> f1, procs |-> t.procs, enabled |-> e1]
  <2>1. Without(t, gone) = [dirs |-> t.dirs \ gone, filtered |-> t.filtered \ gone, procs |-> t.procs, enabled |-> e1]
    BY <1>2 DEF Without
  <2> HIDE DEF gone, e1, g
  <2> QED BY <2>1
<1>4. below.dirs = t.dirs \ gone /\ below.procs = t.procs
  BY <1>3
<1>5. \A a : Populated(below, a) <=> Populated(t, a)
  BY <1>4 DEF Populated
<1>6. \A h \in t.dirs : h \in Path
  BY <1>2, GroupsClosed
<1>7. g \in Path /\ g \in Groups
  BY ServiceGroups
<1>8. \A a \in gone : ~ Populated(t, a) /\ \A h \in t.dirs : a \in Ancestors(h) => h \in gone
  <2> SUFFICES ASSUME NEW a \in gone, NEW h \in t.dirs, a \in Ancestors(h) PROVE h \in gone
    OBVIOUS
  <2>1. a \in t.dirs /\ Within(g, a) /\ ~ Populated(t, a) /\ g # <<>>
    OBVIOUS
  <2>2. Within(a, h) /\ Within(g, h)
    BY <1>6, <1>7, <2>1, WithinOrder DEF Path, Below
  <2>3. ~ Populated(t, h)
    BY <1>2, <2>1, <2>2, PopulatedUp
  <2> QED BY <2>1, <2>2, <2>3
<1>9. \A r \in Services \ {s} : Group(r) \notin gone /\ Ancestors(Group(r)) \cap gone = {}
  BY GroupsApart
<1>10. CASE g \in below.dirs
  <2>1. u = [dirs |-> t.dirs \ gone, filtered |-> f1, procs |-> t.procs, enabled |-> e1]
    BY <1>1, <1>3, <1>10
  <2>2. f1 \subseteq t.filtered /\ \A h \in t.filtered : h \in f1 \/ h \in gone \/ Within(Group(s), h)
    OBVIOUS
  <2> HIDE DEF gone, f1
  <2> QED BY <1>8, <1>9, <2>1, <2>2
<1>11. CASE g \notin below.dirs
  <2> DEFINE gs == gone \cup up_
             f2 == f1 \ up_
             e2 == [h \in Groups |-> IF h \in gs THEN {} ELSE t.enabled[h]]
  <2>1. u = [dirs |-> t.dirs \ gs, filtered |-> f2, procs |-> t.procs, enabled |-> e2]
    <3> HIDE DEF gone, up_, f1, below
    <3>1. u = Without(below, up_)
      BY <1>1, <1>11
    <3>2. Without(below, up_) =
            [dirs |-> (t.dirs \ gone) \ up_, filtered |-> f1 \ up_, procs |-> t.procs,
             enabled |-> [h \in Groups |-> IF h \in up_ THEN {} ELSE e1[h]]]
      <4>1. DOMAIN e1 = Groups
        OBVIOUS
      <4> HIDE DEF e1
      <4>2. below.dirs = t.dirs \ gone /\ below.filtered = f1 /\ below.procs = t.procs /\ below.enabled = e1
        BY <1>3
      <4> QED BY <4>1, <4>2 DEF Without
    <3>3. (t.dirs \ gone) \ up_ = t.dirs \ gs
      OBVIOUS
    <3>4. [h \in Groups |-> IF h \in up_ THEN {} ELSE e1[h]] = e2
      OBVIOUS
    <3> QED BY <3>1, <3>2, <3>3, <3>4
  <2>2. ASSUME NEW a \in up_, a \notin gone
        PROVE  /\ a \in Path /\ a \in Groups /\ ~ Populated(t, a)
               /\ \A h \in t.dirs : h \notin gone /\ a \in Ancestors(h) => h \in up_
    <3>1. a \in Path /\ a \in Groups /\ ~ Populated(t, a) /\ a \in Ancestors(g)
      BY <1>5, <1>7, <2>2, AncestorIs, GroupsClosed DEF Path
    <3>2. ASSUME NEW h \in t.dirs, h \notin gone, a \in Ancestors(h) PROVE h \in up_
      <4>1. h \in below.dirs /\ Below(a, h) /\ Within(a, h) /\ h # <<>>
        <5>1. Below(a, h)
          BY <1>6, <3>1, <3>2, WithinOrder DEF Path
        <5>2. h # <<>>
          BY <3>2 DEF Ancestors
        <5> QED BY <1>4, <3>2, <5>1, <5>2 DEF Below
      <4>2. h \in Ancestors(g)
        BY <2>2, <4>1
      <4>3. ~ Populated(below, h)
        BY <1>2, <1>5, <3>1, <4>1, PopulatedUp
      <4>4. ASSUME NEW k \in below.dirs, Below(h, k) PROVE k \in Ancestors(g)
        <5>1. k \in Path
          BY <1>4, <1>6
        <5>2. Below(a, k)
          BY <1>6, <3>1, <3>2, <4>4, <5>1, WithinOrder DEF Path
        <5> QED BY <2>2, <5>2
      <4> HIDE DEF below
      <4> QED BY <4>1, <4>2, <4>3, <4>4
    <3> QED BY <3>1, <3>2
  <2>3. ASSUME NEW r \in Services \ {s}, Group(r) \in t.dirs
        PROVE  Group(r) \notin gs /\ Ancestors(Group(r)) \cap gs = {}
    <3>1. Group(r) \in below.dirs
      BY <1>4, <1>9, <2>3
    <3>2. Group(r) \notin Ancestors(g)
      BY ServiceGroups, GroupsApart
    <3>3. ASSUME NEW a \in Ancestors(Group(r)), a \in up_ PROVE FALSE
      <4>1. a \in Path /\ Group(r) \in Path
        BY <3>3, ServiceGroups, AncestorIs DEF Path
      <4>2. Below(a, Group(r))
        BY <3>3, <4>1, WithinOrder DEF Path
      <4> QED BY <3>1, <3>2, <3>3, <4>2
    <3> QED BY <1>9, <3>2, <3>3
  <2>4. \A a \in gs : ~ Populated(t, a) /\ \A h \in t.dirs : a \in Ancestors(h) => h \in gs
    <3> HIDE DEF gone, up_
    <3> QED BY <1>8, <2>2
  <2>5. f2 \subseteq t.filtered /\ \A h \in t.filtered : h \in f2 \/ h \in gs \/ Within(Group(s), h)
    <3>1. f1 \subseteq t.filtered /\ \A h \in t.filtered : h \in f1 \/ h \in gone \/ Within(Group(s), h)
      OBVIOUS
    <3> HIDE DEF gone, f1, up_
    <3> QED BY <3>1
  <2> HIDE DEF gs, f2
  <2> QED BY <2>1, <2>3, <2>4, <2>5
<1> QED BY <1>10, <1>11

\* cleanup_cgroup leaves a tree, its processes and the limits of every other
\* service.
LEMMA CleanupKeeps ==
  ASSUME plan \in Plans, NEW s \in Services, NEW t, TreeOK(t), NEW u, u = cleanup_cgroup(t, Group(s))
  PROVE  /\ TreeOK(u) /\ u.procs = t.procs
         /\ \A r \in Services \ {s} : Limits(t, r) => Limits(u, r)
<1>1. PICK gs, f :
        /\ u = [dirs |-> t.dirs \ gs, filtered |-> f, procs |-> t.procs,
                enabled |-> [g \in Groups |-> IF g \in gs THEN {} ELSE t.enabled[g]]]
        /\ f \subseteq t.filtered
        /\ \A h \in t.filtered : h \in f \/ h \in gs \/ Within(Group(s), h)
        /\ \A g \in gs : ~ Populated(t, g) /\ \A h \in t.dirs : g \in Ancestors(h) => h \in gs
        /\ \A r \in Services \ {s} : Group(r) \in t.dirs =>
              Group(r) \notin gs /\ Ancestors(Group(r)) \cap gs = {}
  BY CleanupIs
<1> DEFINE e == [g \in Groups |-> IF g \in gs THEN {} ELSE t.enabled[g]]
<1>2. DOMAIN e = Groups /\ \A g \in Groups \ gs : e[g] = t.enabled[g]
  OBVIOUS
<1>3. /\ u = [dirs |-> u.dirs, filtered |-> u.filtered, procs |-> u.procs, enabled |-> u.enabled]
      /\ u.dirs = t.dirs \ gs /\ u.filtered = f /\ u.procs = t.procs /\ u.enabled = e
  <2> HIDE DEF e
  <2> QED BY <1>1 DEF e
<1> HIDE DEF e
<1>4. TreeOK(u)
  <2>1. \A g \in u.dirs : Ancestors(g) \subseteq u.dirs
    BY <1>1, <1>3 DEF TreeOK
  <2>2. \A p \in u.procs : p.cg \in u.dirs \cup {Elsewhere}
    <3> SUFFICES ASSUME NEW p \in t.procs, p.cg # Elsewhere PROVE p.cg \in u.dirs
      BY <1>3
    <3>1. p.cg \in t.dirs /\ p.cg \in Groups
      BY DEF TreeOK
    <3>2. Within(p.cg, p.cg)
      BY <3>1, GroupsClosed, WithinOrder DEF Path
    <3>3. Populated(t, p.cg)
      BY <3>2 DEF Populated
    <3> QED BY <1>1, <1>3, <3>1, <3>3
  <2>3. u.dirs \subseteq Groups /\ u.filtered \subseteq Groups /\ \A r \in Services : Inner(r) \in u.dirs => plan[r].delegate # {}
    BY <1>1, <1>3 DEF TreeOK
  <2> QED BY <1>2, <1>3, <2>1, <2>2, <2>3 DEF TreeOK
<1>5. ASSUME NEW r \in Services \ {s}, Limits(t, r) PROVE Limits(u, r)
  <2>1. Group(r) \in t.dirs /\ Group(r) \notin gs /\ Ancestors(Group(r)) \cap gs = {}
    BY <1>1, <1>5 DEF Limits
  <2>2. ~ Within(Group(s), Group(r))
    BY GroupsApart
  <2>3. Ancestors(Group(r)) \subseteq Groups
    BY <2>1, GroupsClosed DEF TreeOK
  <2>4. \A a \in Ancestors(Group(r)) : u.enabled[a] = t.enabled[a]
    BY <1>2, <1>3, <2>1, <2>3
  <2> QED BY <1>1, <1>3, <1>5, <2>1, <2>2, <2>4 DEF Limits
<1> QED BY <1>3, <1>4, <1>5

\* What may be left of the tree when a service ends.
Shrunk(t, s) ==
  /\ TreeOK(t) /\ t.procs \subseteq tree.procs
  /\ \A r \in Services \ {s} : Limits(tree, r) => Limits(t, r)

LEMMA ShrunkCleanup ==
  ASSUME plan \in Plans, NEW s \in Services, NEW t, Shrunk(t, s)
  PROVE  Shrunk(cleanup_cgroup(t, Group(s)), s)
<1> DEFINE u == cleanup_cgroup(t, Group(s))
<1>1. /\ TreeOK(u) /\ u.procs = t.procs
      /\ \A r \in Services \ {s} : Limits(t, r) => Limits(u, r)
  BY CleanupKeeps DEF Shrunk
<1> HIDE DEF u
<1>2. Shrunk(u, s)
  BY <1>1 DEF Shrunk
<1> QED BY <1>2 DEF u

LEMMA ShrunkKilled ==
  ASSUME NEW s \in Services, TreeOK(tree), NEW killed, NEW t, t = [tree EXCEPT !.procs = @ \ killed]
  PROVE  Shrunk(t, s) /\ Shrunk(tree, s) /\ t.procs = tree.procs \ killed
<1>1. tree = [dirs |-> tree.dirs, filtered |-> tree.filtered, procs |-> tree.procs, enabled |-> tree.enabled]
  BY DEF TreeOK
<1>2. t = [dirs |-> tree.dirs, filtered |-> tree.filtered, procs |-> tree.procs \ killed, enabled |-> tree.enabled]
  BY <1>1
<1>3. /\ t.dirs = tree.dirs /\ t.filtered = tree.filtered /\ t.procs = tree.procs \ killed
      /\ t.enabled = tree.enabled
      /\ t = [dirs |-> t.dirs, filtered |-> t.filtered, procs |-> t.procs, enabled |-> t.enabled]
  BY <1>2
<1>4. TreeOK(t)
  BY <1>3 DEF TreeOK
<1> QED BY <1>3, <1>4 DEF Shrunk, Limits

\* The four parts make a tree.
Whole(t) == t = [dirs |-> t.dirs, filtered |-> t.filtered, procs |-> t.procs, enabled |-> t.enabled]

\* What enabling controllers changes.
LEMMA EnableIs ==
  ASSUME NEW t, NEW g, NEW cs, Whole(t), NEW u, u = enable_cgroup_controllers(t, g, cs)
  PROVE  /\ Whole(u) /\ u.dirs = t.dirs /\ u.filtered = t.filtered /\ u.procs = t.procs
         /\ DOMAIN u.enabled = DOMAIN t.enabled
         /\ \A a \in DOMAIN t.enabled :
              /\ t.enabled[a] \subseteq u.enabled[a]
              /\ a \in Ancestors(g) /\ cs \subseteq Host => cs \subseteq u.enabled[a]
<1> DEFINE e == t.enabled
           x == [a \in DOMAIN e |->
                   IF a \in Ancestors(g) /\ cs \subseteq Host THEN e[a] \cup cs ELSE e[a]]
<1>1. u = [t EXCEPT !.enabled = x]
  BY Zenon DEF enable_cgroup_controllers
<1>2. /\ DOMAIN x = DOMAIN e
      /\ \A a \in DOMAIN e : e[a] \subseteq x[a] /\ (a \in Ancestors(g) /\ cs \subseteq Host => cs \subseteq x[a])
  OBVIOUS
<1> HIDE DEF x
<1>3. u = [dirs |-> t.dirs, filtered |-> t.filtered, procs |-> t.procs, enabled |-> x]
  BY <1>1 DEF Whole
<1>4. u.dirs = t.dirs /\ u.filtered = t.filtered /\ u.procs = t.procs /\ u.enabled = x /\ Whole(u)
  BY <1>3 DEF Whole
<1> QED BY <1>2, <1>4

\* Limits only ever add.
LEMMA LimitedIs ==
  ASSUME plan \in Plans, NEW s \in Services, TreeOK(tree), NEW t, t = Limited(s)
  PROVE  /\ Whole(t) /\ t.dirs = tree.dirs /\ t.procs = tree.procs /\ DOMAIN t.enabled = Groups
         /\ t.filtered = tree.filtered \cup (IF plan[s].devices THEN {Group(s)} ELSE {})
         /\ \A g \in Groups : tree.enabled[g] \subseteq t.enabled[g]
         /\ plan[s].controllers \subseteq Host =>
               \A a \in Ancestors(Group(s)) : plan[s].controllers \subseteq t.enabled[a]
<1> DEFINE g == Group(s)
           cs == plan[s].controllers
           ds == plan[s].delegate \cap Host
           f == IF plan[s].devices THEN {g} ELSE {}
           t1 == enable_cgroup_controllers(tree, g, cs)
           u == IF plan[s].devices THEN [t1 EXCEPT !.filtered = @ \cup {g}] ELSE t1
           t2 == enable_cgroup_controllers(u, g, ds)
<1>1. t = [t2 EXCEPT !.enabled[g] = @ \cup ds]
  BY DEF Limited, enable_delegated_cgroup_controllers
<1>2. Whole(tree) /\ DOMAIN tree.enabled = Groups
  BY DEF TreeOK, Whole
<1>3. g \in Groups /\ Ancestors(g) \subseteq Groups
  BY ServiceGroups, GroupsClosed
<1> HIDE DEF g, cs, ds
<1>4. /\ Whole(t1) /\ t1.dirs = tree.dirs /\ t1.filtered = tree.filtered /\ t1.procs = tree.procs
      /\ DOMAIN t1.enabled = Groups
      /\ \A a \in Groups :
           /\ tree.enabled[a] \subseteq t1.enabled[a]
           /\ a \in Ancestors(g) /\ cs \subseteq Host => cs \subseteq t1.enabled[a]
  BY <1>2, EnableIs
<1> HIDE DEF t1
<1>5. /\ Whole(u) /\ u.dirs = tree.dirs /\ u.filtered = tree.filtered \cup f /\ u.procs = tree.procs
      /\ u.enabled = t1.enabled
  <2>1. CASE plan[s].devices
    <3>1. u = [t1 EXCEPT !.filtered = @ \cup {g}]
      BY <2>1
    <3>2. u = [dirs |-> tree.dirs, filtered |-> tree.filtered \cup {g}, procs |-> tree.procs, enabled |-> t1.enabled]
      BY <1>4, <3>1 DEF Whole
    <3> HIDE DEF u
    <3> QED BY <2>1, <3>2 DEF Whole
  <2>2. CASE ~ plan[s].devices
    BY <1>4, <2>2
  <2> QED BY <2>1, <2>2
<1> HIDE DEF u, f
<1>6. /\ Whole(t2) /\ t2.dirs = u.dirs /\ t2.filtered = u.filtered /\ t2.procs = u.procs
      /\ DOMAIN t2.enabled = DOMAIN u.enabled
      /\ \A a \in DOMAIN u.enabled : u.enabled[a] \subseteq t2.enabled[a]
  BY <1>5, EnableIs
<1> HIDE DEF t2
<1> DEFINE e == [t2.enabled EXCEPT ![g] = @ \cup ds]
<1>7. t = [dirs |-> t2.dirs, filtered |-> t2.filtered, procs |-> t2.procs, enabled |-> e]
  BY <1>1, <1>6 DEF Whole
<1>8. DOMAIN e = DOMAIN t2.enabled /\ \A a \in DOMAIN t2.enabled : t2.enabled[a] \subseteq e[a]
  OBVIOUS
<1> HIDE DEF e
<1>9. Whole(t) /\ t.dirs = t2.dirs /\ t.filtered = t2.filtered /\ t.procs = t2.procs /\ t.enabled = e
  BY <1>7 DEF Whole
<1>10. \A a \in Groups :
         /\ tree.enabled[a] \subseteq t.enabled[a]
         /\ a \in Ancestors(g) /\ cs \subseteq Host => cs \subseteq t.enabled[a]
  BY <1>4, <1>5, <1>6, <1>8, <1>9
<1> QED BY <1>3, <1>4, <1>5, <1>6, <1>8, <1>9, <1>10 DEF g, cs, f

LEMMA ShrunkLimited ==
  ASSUME plan \in Plans, NEW s \in Services, TreeOK(tree)
  PROVE  Shrunk(Limited(s), s)
<1> DEFINE t == Limited(s)
<1>1. /\ Whole(t) /\ t.dirs = tree.dirs /\ t.procs = tree.procs /\ DOMAIN t.enabled = Groups
      /\ t.filtered = tree.filtered \cup (IF plan[s].devices THEN {Group(s)} ELSE {})
      /\ \A g \in Groups : tree.enabled[g] \subseteq t.enabled[g]
  BY LimitedIs
<1> HIDE DEF t
<1>2. t.filtered \subseteq Groups
  BY <1>1, ServiceGroups DEF TreeOK
<1>3. TreeOK(t)
  BY <1>1, <1>2 DEF TreeOK, Whole
<1>4. ASSUME NEW r \in Services, Limits(tree, r) PROVE Limits(t, r)
  <2>1. Ancestors(Group(r)) \subseteq Groups
    BY ServiceGroups, GroupsClosed
  <2> QED BY <1>1, <1>4, <2>1 DEF Limits
<1>5. Shrunk(t, s)
  BY <1>1, <1>3, <1>4 DEF Shrunk
<1> QED BY <1>5 DEF t

-----------------------------------------------------------------------------
(***************************************************************************)
(* The end of a service. Whatever ends it, an error on any step, a signal, *)
(* a stop or the end of the daemon, takes back all that it has.            *)
(***************************************************************************)

Ending(s) ==
  /\ s \in Services /\ up /\ Bounds /\ full' = full
  /\ op.svc = s \/ op.step \notin Working
  /\ op.step \notin {"mark", "fill"} /\ op' \in {Idle, Dropping}
  /\ Ended(s) /\ cleanup_directories(s)
  /\ notes' \subseteq notes /\ \A x \in notes' : x.run = run => x.svc # s
  /\ sock' \in {sock, Closed(s)} /\ (held[s].phase = "listening" => sock' = Closed(s))
  /\ Shrunk(tree', s)

LEMMA RestEnded ==
  ASSUME NEW s, held' = [held EXCEPT ![s] = Rest]
  PROVE  Ended(s)
<1>1. [Rest EXCEPT !.phase = "down"] = Rest
  BY DEF Rest
<1>2. held' = [held EXCEPT ![s] = [Rest EXCEPT !.phase = "down"]]
  BY <1>1
<1> QED BY <1>2 DEF Ended

\* No notification socket of the service stays.
LEMMA NotesEnd ==
  ASSUME FilesIInv, NEW s \in Services, NEW m, up,
         \/ /\ notes' = {x \in notes : x.n # m} /\ m = op.n
            /\ op.svc = s /\ op.step \in Unspawned \cup Spawned
         \/ notes' = {x \in notes : x.n # m} /\ m = held[s].notify_path /\ op.step \notin Working
         \/ notes' = notes /\ op.svc = s /\ op.step \in Preparing \cup {"undo"}
         \/ notes' = notes /\ op.step \notin Working /\ held[s].phase # "running"
  PROVE  notes' \subseteq notes /\ \A x \in notes' : x.run = run => x.svc # s
<1>1. notes' \subseteq notes
  OBVIOUS
<1>2. ASSUME NEW x \in notes', x.run = run, x.svc = s PROVE FALSE
  <2>1. /\ x.n \in 1 .. starts
        /\ \/ held[s].notify_path = x.n
           \/ /\ op.svc = s /\ op.n = x.n
              /\ op.step \in {"cgroup", "limits", "fork"} \cup Spawned
    BY <1>1, <1>2 DEF FilesIInv, NotesInv, Made_by
  <2>2. held[s].notify_path = (IF held[s].phase = "running" THEN held[s].main ELSE 0)
    BY DEF FilesIInv, HeldInv, Fields
  <2>3. op.svc = s /\ op.step \in Working => held[s].phase # "running"
    BY DEF FilesIInv, OpInv, Working
  <2>4. x.n # 0
    BY <2>1
  <2>5. op.svc = s /\ op.step \in Working => op.n = x.n /\ op.step \in {"cgroup", "limits", "fork"} \cup Spawned
    BY <2>1, <2>2, <2>3, <2>4
  <2>6. op.step \notin Working => held[s].notify_path = x.n /\ held[s].phase = "running"
    BY <2>1, <2>2, <2>4 DEF Working, Unspawned
  <2> QED BY <1>2, <2>5, <2>6 DEF Working, Preparing, Unspawned, Spawned
<1> QED BY <1>1, <1>2

\* Errors before the process is spawned.
LEMMA PreparingEnds ==
  ASSUME FilesIInv, FailPreparing \/ UndoStart
  PROVE  Ending(op.svc)
<1>1. /\ up /\ MarkSpawnFailed(op.svc) /\ UNCHANGED <<plan, up, run, starts, full, notes, tree, sock>>
      /\ op.step \in {"credentials", "create", "directories", "private_tmp", "undo"}
  BY DEF FailPreparing, UndoStart, At
<1>2. op.step \in Working /\ op.svc \in Services /\ held[op.svc].phase # "listening"
  BY <1>1 DEF FilesIInv, OpInv, Working, Preparing, Unspawned
<1>3. cleanup_directories(op.svc) /\ Ended(op.svc) /\ op' = Idle
  BY <1>1 DEF MarkSpawnFailed, Ended
<1>4. notes' \subseteq notes /\ \A x \in notes' : x.run = run => x.svc # op.svc
  BY <1>1, <1>2, NotesEnd DEF Preparing
<1>5. Shrunk(tree', op.svc)
  BY <1>1 DEF FilesIInv, TreeInv, Shrunk
<1> QED BY <1>1, <1>2, <1>3, <1>4, <1>5 DEF Ending, Bounds

\* Errors of spawn_main.
LEMMA ReleaseEnds ==
  ASSUME FilesIInv, NEW killed, up, op.step \in (Unspawned \cup Spawned) \ {"undo"}, Release(op.svc, killed),
         UNCHANGED <<plan, up, run, starts, full, sock>>
  PROVE  Ending(op.svc)
<1>1. op.step \in Working /\ op.svc \in Services /\ held[op.svc].phase # "listening" /\ plan \in Plans
  BY DEF FilesIInv, OpInv, Working
<1>2. cleanup_directories(op.svc) /\ Ended(op.svc) /\ op' = Idle
  BY DEF Release, MarkSpawnFailed, Ended
<1>3. notes' \subseteq notes /\ \A x \in notes' : x.run = run => x.svc # op.svc
  BY <1>1, NotesEnd DEF Release
<1>4. Shrunk(tree', op.svc)
  <2> DEFINE left == [tree EXCEPT !.procs = @ \ killed]
  <2>1. Shrunk(left, op.svc)
    BY <1>1, ShrunkKilled DEF FilesIInv, TreeInv
  <2>2. tree' = left \/ tree' = cleanup_cgroup(left, Group(op.svc))
    BY DEF Release
  <2> HIDE DEF left
  <2> QED BY <1>1, <2>1, <2>2, ShrunkCleanup
<1>5. op.step \notin {"mark", "fill"}
  BY DEF Unspawned, Spawned
<1> QED BY <1>1, <1>2, <1>3, <1>4, <1>5 DEF Ending, Bounds

LEMMA SpawningEnds ==
  ASSUME FilesIInv, FailSpawning \/ FailAttach \/ FailRegister
  PROVE  Ending(op.svc)
<1>1. CASE FailSpawning
  BY <1>1, ReleaseEnds DEF FailSpawning, Unspawned, Spawned
<1>2. CASE FailAttach
  BY <1>2, ReleaseEnds DEF FailAttach, At, Unspawned, Spawned
<1>3. CASE FailRegister
  BY <1>3, ReleaseEnds DEF FailRegister, At, Unspawned, Spawned
<1> QED BY <1>1, <1>2, <1>3

LEMMA LimitsEnd ==
  ASSUME FilesIInv, FailLimits
  PROVE  Ending(op.svc)
<1>1. /\ up /\ op.step = "limits" /\ MarkSpawnFailed(op.svc)
      /\ notes' = {x \in notes : x.n # op.n}
      /\ UNCHANGED <<plan, up, run, starts, full, sock>>
  BY DEF FailLimits, At
<1>2. op.step \in Working /\ op.svc \in Services /\ held[op.svc].phase # "listening" /\ plan \in Plans
  BY <1>1 DEF FilesIInv, OpInv, Working, Unspawned
<1>3. cleanup_directories(op.svc) /\ Ended(op.svc) /\ op' = Idle
  BY <1>1 DEF MarkSpawnFailed, Ended
<1>4. notes' \subseteq notes /\ \A x \in notes' : x.run = run => x.svc # op.svc
  BY <1>1, <1>2, NotesEnd DEF Unspawned
<1>5. Shrunk(tree', op.svc)
  <2>1. PICK t \in {tree, Limited(op.svc)} : tree' = cleanup_cgroup(t, Group(op.svc))
    BY DEF FailLimits
  <2>2. TreeOK(tree)
    BY DEF FilesIInv, TreeInv
  <2>3. Shrunk(t, op.svc)
    BY <1>2, <2>1, <2>2, ShrunkLimited DEF Shrunk
  <2> QED BY <1>2, <2>1, <2>3, ShrunkCleanup
<1> QED BY <1>1, <1>2, <1>3, <1>4, <1>5 DEF Ending, Bounds

\* The ends of a service between starts.
LEMMA ServiceEnds ==
  ASSUME FilesIInv, NEW s \in Services,
         CallOff(s) \/ close_listeners(s) \/ Drop(s) \/ (handle_exit(s) /\ MarkSpawnFailed(s))
  PROVE  Ending(s)
<1>1. /\ up /\ UNCHANGED <<plan, up, run, starts, full>> /\ cleanup_directories(s) /\ op \in {Idle, Dropping}
      /\ op' \in {Idle, Dropping}
  BY DEF CallOff, close_listeners, Drop, handle_exit, MarkSpawnFailed
<1>2. Ended(s)
  BY RestEnded DEF CallOff, close_listeners, Drop, MarkSpawnFailed, Ended
<1>3. op.step \notin Working /\ op.step \notin {"mark", "fill"}
  <2>1. op.step \in {"idle", "drop"}
    BY <1>1, IdleIs, DroppingIs
  <2> QED BY <2>1 DEF Working, Preparing, Unspawned, Spawned
<1>4. TreeOK(tree) /\ plan \in Plans
  BY DEF FilesIInv, TreeInv, OpInv
<1>5. /\ notes' \subseteq notes /\ \A x \in notes' : x.run = run => x.svc # s
      /\ sock' \in {sock, Closed(s)} /\ (held[s].phase = "listening" => sock' = Closed(s))
      /\ Shrunk(tree', s)
  <2>1. CASE CallOff(s)
    <3>1. notes' = notes /\ sock' = sock /\ tree' = tree /\ held[s].phase \notin {"running", "listening"}
      BY <2>1 DEF CallOff
    <3> QED BY <1>1, <1>3, <1>4, <3>1, NotesEnd DEF Shrunk
  <2>2. CASE close_listeners(s)
    <3>1. notes' = notes /\ sock' = Closed(s) /\ tree' = tree /\ held[s].phase # "running"
      BY <2>2 DEF close_listeners
    <3> QED BY <1>1, <1>3, <1>4, <3>1, NotesEnd DEF Shrunk
  <2>3. CASE Drop(s)
    <3> DEFINE left == [tree EXCEPT !.procs = @ \ ProcessGroup(held[s].main)]
    <3>1. notes' = {x \in notes : x.n # held[s].notify_path} /\ sock' = Closed(s)
      BY <2>3 DEF Drop
    <3>2. tree' = left \/ tree' = cleanup_cgroup(left, Group(s))
      BY <2>3 DEF Drop
    <3>3. Shrunk(left, s)
      BY <1>4, ShrunkKilled
    <3> HIDE DEF left
    <3>4. Shrunk(tree', s)
      BY <1>4, <3>2, <3>3, ShrunkCleanup
    <3> QED BY <1>1, <1>3, <3>1, <3>4, NotesEnd
  <2>4. CASE handle_exit(s)
    <3>1. /\ notes' = {x \in notes : x.n # held[s].notify_path} /\ sock' = sock
          /\ tree' = tree \/ tree' = cleanup_cgroup(tree, Group(s))
          /\ held[s].phase = "running"
      BY <2>4 DEF handle_exit
    <3>2. Shrunk(tree, s)
      BY <1>4 DEF Shrunk
    <3>3. Shrunk(tree', s)
      BY <1>4, <3>1, <3>2, ShrunkCleanup
    <3> QED BY <1>1, <1>3, <3>1, <3>3, NotesEnd
  <2> QED BY <2>1, <2>2, <2>3, <2>4
<1> QED BY <1>1, <1>2, <1>3, <1>5 DEF Ending, Bounds

\* Only directories of the list that are to be removed, and empty, go.
LEMMA EmptiedIs ==
  ASSUME NEW ds, NEW list, NEW x \in Emptied(ds, list)
  PROVE  /\ x \subseteq ds
         /\ \A d \in ds \ x : \E i \in DOMAIN list :
               list[i].path = d /\ list[i].cleanup /\ d \notin full
<1>1. PICK gone \in SUBSET DOMAIN list :
        /\ x = ds \ {list[i].path : i \in gone}
        /\ \A i \in DOMAIN list : i \in gone => list[i].cleanup /\ list[i].path \notin full
  BY DEF Emptied
<1> QED BY <1>1

\* What FractalD has made, after a step.
Remembered == made' = (made \cup (dirs' \ dirs)) \cap dirs'

\* Directories stay, except for those that one service gives up.
LEMMA DirsKept ==
  ASSUME DirsInv, NEW s \in Services, dirs' \in Emptied(dirs, held[s].directories), Remembered,
         full' = full, plan' = plan, \A r \in Services \ {s} : held'[r] = held[r],
         held'[s].directories = <<>>
  PROVE  DirsInv'
<1>1. /\ dirs' \subseteq dirs
      /\ \A d \in dirs \ dirs' : \E i \in DOMAIN held[s].directories :
            held[s].directories[i].path = d /\ d \notin full
  BY EmptiedIs
<1>2. /\ Services' = Services /\ \A r \in Services : Listed(r)' = Listed(r)
  BY PlanKept
<1>3. full' \subseteq dirs'
  BY <1>1 DEF DirsInv
<1>4. ASSUME NEW r \in Services, NEW i \in DOMAIN held'[r].directories
      PROVE  LET d == held'[r].directories[i] IN
             /\ d.path \in Listed(r)
             /\ d.path \in dirs' \/ \E q \in Services \ {r} : d.path \in Listed(q)
             /\ d.cleanup /\ d.path \in dirs' => d.path \in made'
  <2>1. r # s /\ held'[r] = held[r]
    BY <1>4
  <2>2. LET d == held[r].directories[i] IN
        /\ d.path \in Listed(r)
        /\ d.path \in dirs \/ \E q \in Services \ {r} : d.path \in Listed(q)
        /\ d.cleanup /\ d.path \in dirs => d.path \in made
    BY <1>4, <2>1 DEF DirsInv
  <2>3. \A d \in dirs \ dirs' : d \in Listed(s)
    BY <1>1 DEF DirsInv
  <2> QED BY <1>1, <2>1, <2>2, <2>3 DEF Remembered
<1> QED BY <1>2, <1>3, <1>4 DEF DirsInv

\* The processes and the groups of the other services when one ends.
LEMMA ShrunkKeeps ==
  ASSUME FilesIInv, NEW s \in Services, up, starts' = starts, plan' = plan, run' = run, up' = up,
         op.svc = s \/ op.step \notin Working, op'.n = 0, op'.step \notin Working,
         \A r \in Services \ {s} : held'[r] = held[r],
         held'[s].main = 0, held'[s].cgroup_path = FALSE, Shrunk(tree', s)
  PROVE  ProcsInv' /\ TreeInv' /\ OrphansEnd'
<1>1. up /\ (op.svc = s \/ op.step \notin Working) /\ Shrunk(tree', s)
  OBVIOUS
<1>2. /\ starts' = starts /\ plan' = plan /\ run' = run /\ up' = up /\ Services' = Services
      /\ Groups' = Groups /\ looks_for_orphans' = looks_for_orphans
      /\ \A r \in Services : /\ wants_cgroup(r)' = wants_cgroup(r) /\ Group(r)' = Group(r)
                             /\ Inner(r)' = Inner(r)
  BY PlanKept
<1>3. /\ \A r \in Services \ {s} : held'[r] = held[r]
      /\ held'[s].main = 0 /\ held'[s].cgroup_path = FALSE
  OBVIOUS
<1>4. op'.n = 0 /\ op'.step \notin {"limits", "fork", "attach", "register"}
  BY DEF Working, Unspawned, Spawned
<1>6. starts \in Nat
  BY CountersAre DEF FilesIInv
<1>12. tree'.procs \subseteq tree.procs
  BY <1>1 DEF Shrunk
<1>13. ProcsInv'
  <2>1. ProcsInv
    BY DEF FilesIInv
  <2>2. ASSUME NEW p \in tree'.procs
        PROVE  /\ p = [svc |-> p.svc, n |-> p.n, run |-> p.run, role |-> p.role, cg |-> p.cg]
               /\ p.svc \in Services /\ p.n \in 1 .. starts /\ p.run \in 1 .. run
               /\ p.role \in {"main", "child"}
               /\ p.cg \in {Elsewhere, Group(p.svc)} \/ (p.cg = Inner(p.svc) /\ plan[p.svc].delegate # {})
               /\ p.n # 0
    BY <1>12, <2>1, <1>6 DEF ProcsInv
  <2>3. ASSUME NEW p \in tree'.procs, NEW r \in Services, p.n = held'[r].main
        PROVE  p.svc = r /\ held'[r].phase # "prepared"
    <3>1. r # s /\ held'[r] = held[r]
      BY <1>3, <2>2, <2>3
    <3> QED BY <1>1, <1>12, <2>1, <2>3, <3>1 DEF ProcsInv, Working
  <2>4. \A p, q \in tree'.procs : p.n = q.n /\ p.role = "main" /\ q.role = "main" => p = q
    BY <1>12, <2>1 DEF ProcsInv
  <2> QED BY <1>2, <1>4, <2>2, <2>3, <2>4 DEF ProcsInv
<1>14. TreeInv'
  <2>1. TreeInv
    BY DEF FilesIInv
  <2>2. TreeOK(tree')
    BY <1>1 DEF Shrunk
  <2>3. TreeOK(tree)'
    BY <1>2, <2>2 DEF TreeOK
  <2>4. ASSUME NEW r \in Services, held'[r].cgroup_path
        PROVE  Limits(tree, r)' /\ Inside(r, held[r].main)'
    <3>1. r # s /\ held'[r] = held[r]
      BY <1>3, <2>4
    <3>2. Limits(tree, r) /\ Inside(r, held[r].main)
      BY <2>1, <2>4, <3>1 DEF TreeInv
    <3>3. Limits(tree', r)
      BY <1>1, <3>1, <3>2 DEF Shrunk
    <3>4. Limits(tree, r)'
      BY <1>2, <3>3 DEF Limits
    <3>5. Inside(r, held[r].main)'
      BY <1>2, <1>12, <3>1, <3>2 DEF Inside, Main
    <3> QED BY <3>4, <3>5
  <2> QED BY <1>2, <1>4, <2>3, <2>4 DEF TreeInv, Spawned
<1>15. OrphansEnd'
  BY <1>1, <1>2, <1>12 DEF FilesIInv, OrphansEnd
<1> QED BY <1>13, <1>14, <1>15

LEMMA EndingKeeps ==
  ASSUME FilesIInv, NEW s, Ending(s), Remembered
  PROVE  FilesIInv'
<1>1. /\ s \in Services /\ up /\ Bounds /\ full' = full
      /\ op.svc = s \/ op.step \notin Working
      /\ op.step \notin {"mark", "fill"} /\ op' \in {Idle, Dropping}
      /\ Ended(s) /\ cleanup_directories(s)
      /\ notes' \subseteq notes /\ \A x \in notes' : x.run = run => x.svc # s
      /\ sock' \in {sock, Closed(s)} /\ (held[s].phase = "listening" => sock' = Closed(s))
      /\ Shrunk(tree', s)
  BY DEF Ending
<1>2. /\ starts' = starts /\ plan' = plan /\ run' = run /\ up' = up /\ Services' = Services
      /\ Groups' = Groups /\ looks_for_orphans' = looks_for_orphans
      /\ \A r \in Services : /\ wants_cgroup(r)' = wants_cgroup(r) /\ Group(r)' = Group(r)
                             /\ Inner(r)' = Inner(r) /\ OwnListeners(r)' = OwnListeners(r)
  BY <1>1, PlanKept DEF Bounds
<1>3. /\ \A r \in Services \ {s} : held'[r] = held[r]
      /\ held'[s].phase \in {"down", "backoff"}
      /\ held'[s].main = 0 /\ held'[s].credential_directory = FALSE /\ held'[s].directories = <<>>
      /\ held'[s].private_tmp_paths = 0 /\ held'[s].notify_path = 0 /\ held'[s].cgroup_path = FALSE
  <2>1. HeldInv
    BY DEF FilesIInv
  <2>2. /\ \A r \in Services \ {s} : held'[r] = held[r]
        /\ held'[s].phase \in {"down", "backoff"}
        /\ held'[s] = [phase |-> held'[s].phase, main |-> 0, credential_directory |-> FALSE,
                       directories |-> <<>>, private_tmp_paths |-> 0, notify_path |-> 0,
                       cgroup_path |-> FALSE]
    BY <1>1, <2>1, EndedIs
  <2> QED BY <2>2
<1>4. op'.svc = "" /\ op'.n = 0 /\ op'.step \in {"idle", "drop"}
  BY <1>1, IdleIs, DroppingIs
<1>5. Control'
  <2>1. Control
    BY DEF FilesIInv, Control
  <2> QED BY <1>1, <2>1, EndedControl
<1>6. starts \in Nat /\ run \in Nat \ {0} /\ plan \in Plans
  BY CountersAre DEF FilesIInv
<1>7. CredInv'
  <2>1. CredInv
    BY DEF FilesIInv
  <2>2. /\ DOMAIN cred' = DOMAIN cred /\ \A r \in Services \ {s} : cred'[r] = cred[r]
        /\ cred'[s] = IF held[s].credential_directory THEN NoCred ELSE cred[s]
    BY <1>1, <2>1 DEF cleanup_directories, CredInv
  <2>3. NoCred = [state |-> "none", run |-> 0] /\ NoCred.state = "none" /\ NoCred.run = 0
    BY DEF NoCred
  <2>4. ASSUME NEW r \in Services
        PROVE  /\ cred'[r] = [state |-> cred'[r].state, run |-> cred'[r].run]
               /\ cred'[r].state \in {"none", "bare", "marked", "full", "foreign"}
               /\ cred'[r].run \in 0 .. run
    BY <1>6, <2>1, <2>2, <2>3 DEF CredInv
  <2>5. ASSUME NEW r \in Services
        PROVE  /\ held'[r].credential_directory => cred'[r].state = "full"
               /\ cred'[r].run = run => held'[r].credential_directory
    <3>1. CASE r = s
      <4>1. held[s].credential_directory = FALSE => cred[s].run # run
        BY <1>1, <2>1 DEF CredInv
      <4>2. held[s].credential_directory \in BOOLEAN
        BY <1>1 DEF FilesIInv, HeldInv, Fields
      <4> QED BY <1>3, <1>6, <2>2, <2>3, <3>1, <4>1, <4>2
    <3>2. CASE r # s
      <4>1. held'[r] = held[r] /\ cred'[r] = cred[r]
        BY <1>3, <2>2, <3>2
      <4>2. ~ (op.svc = r /\ op.step \in {"mark", "fill"})
        BY <1>1
      <4> QED BY <1>1, <2>1, <4>1, <4>2 DEF CredInv
    <3> QED BY <3>1, <3>2
  <2>6. DOMAIN cred' = Services
    BY <2>1, <2>2 DEF CredInv
  <2> QED BY <1>2, <1>4, <2>4, <2>5, <2>6 DEF CredInv
<1>8. TmpsInv'
  <2>1. tmps' = {t \in tmps : t.n # held[s].private_tmp_paths}
    BY <1>1 DEF cleanup_directories
  <2>2. ASSUME NEW t \in tmps'
        PROVE  /\ t.svc \in Services /\ t.n \in 1 .. starts /\ t.run \in 1 .. run
               /\ t = [svc |-> t.svc, n |-> t.n, run |-> t.run]
               /\ t.run = run => held'[t.svc].private_tmp_paths = t.n
    <3>1. t \in tmps /\ t.n # held[s].private_tmp_paths
      BY <2>1
    <3>2. /\ t.svc \in Services /\ t.n \in 1 .. starts /\ t.run \in 1 .. run
          /\ t = [svc |-> t.svc, n |-> t.n, run |-> t.run]
          /\ t.run = run => held[t.svc].private_tmp_paths = t.n
      BY <1>1, <3>1 DEF FilesIInv, TmpsInv, Made_by
    <3> QED BY <1>3, <3>1, <3>2
  <2>3. ASSUME NEW r \in Services, held'[r].private_tmp_paths # 0
        PROVE  \E t \in tmps' : t.svc = r /\ t.n = held'[r].private_tmp_paths
    <3>1. r # s /\ held'[r] = held[r]
      BY <1>3, <2>3
    <3>2. PICK t \in tmps : t.svc = r /\ t.n = held[r].private_tmp_paths
      BY <2>3, <3>1 DEF FilesIInv, TmpsInv
    <3>3. held[r].private_tmp_paths \in Uses(held[r])
      BY <2>3, <3>1 DEF Uses
    <3>4. held[s].private_tmp_paths # held[r].private_tmp_paths
      <4>1. Uses(held[r]) \cap Uses(held[s]) = {}
        BY <1>1, <3>1 DEF FilesIInv, NumbersInv
      <4> QED BY <2>3, <3>1, <3>3, <4>1 DEF Uses
    <3> QED BY <2>1, <3>1, <3>2, <3>4
  <2> QED BY <1>2, <2>2, <2>3 DEF TmpsInv, Made_by
<1>9. NotesInv'
  <2>1. ASSUME NEW x \in notes'
        PROVE  /\ x.svc \in Services /\ x.n \in 1 .. starts /\ x.run \in 1 .. run
               /\ x = [svc |-> x.svc, n |-> x.n, run |-> x.run]
               /\ x.run = run => held'[x.svc].notify_path = x.n
    <3>1. /\ x.svc \in Services /\ x.n \in 1 .. starts /\ x.run \in 1 .. run
          /\ x = [svc |-> x.svc, n |-> x.n, run |-> x.run]
          /\ x.run = run => held[x.svc].notify_path = x.n \/ (op.svc = x.svc /\ op.step \in Working)
      BY <1>1 DEF FilesIInv, NotesInv, Made_by, Working, Unspawned
    <3>2. x.run = run => x.svc # s
      BY <1>1
    <3>3. x.run = run => held'[x.svc] = held[x.svc]
      BY <1>3, <3>1, <3>2
    <3> QED BY <1>1, <3>1, <3>2, <3>3
  <2> QED BY <1>2, <2>1 DEF NotesInv, Made_by
<1>10. SockInv'
  <2>1. SockInv
    BY DEF FilesIInv
  <2>2. /\ DOMAIN sock' = DOMAIN sock
        /\ \A x \in DOMAIN sock : sock'[x] \in {sock[x], 0}
        /\ \A x \in DOMAIN sock : x \notin ToSet(plan[s].listeners) => sock'[x] = sock[x]
        /\ held[s].phase = "listening" /\ plan[s].remove_on_stop =>
             \A x \in DOMAIN sock : x \in ToSet(plan[s].listeners) => sock'[x] = 0
        /\ held[s].phase # "listening" => \A x \in DOMAIN sock : sock'[x] = sock[x]
    BY <1>1 DEF Closed, None
  <2>3. DOMAIN sock = UNION {ToSet(plan[r].listeners) : r \in Services} /\ DOMAIN sock' = (UNION {ToSet(plan[r].listeners) : r \in Services})'
    BY <1>2, <2>1, <2>2 DEF SockInv
  <2>4. \A r \in Services : /\ ToSet(plan[r].listeners) \subseteq DOMAIN sock
                            /\ OwnListeners(r) \subseteq ToSet(plan[r].listeners)
                            /\ \A x \in OwnListeners(r) : r # s => x \notin ToSet(plan[s].listeners)
    BY <1>1, <2>3 DEF OwnListeners
  <2>5. \A x \in DOMAIN sock' : sock'[x] \in {File} \cup 0 .. starts
    <3>1. 0 \in 0 .. starts
      BY <1>6
    <3> QED BY <2>1, <2>2, <3>1 DEF SockInv
  <2>6. ASSUME NEW r \in Services
        PROVE  /\ held'[r].phase = "listening" => \A x \in ToSet(plan[r].listeners) : sock'[x] # File
               /\ \A x \in OwnListeners(r) :
                    /\ held'[r].phase = "listening" => sock'[x] = held'[r].main
                    /\ run = 1 /\ sock'[x] > 0 /\ plan[r].remove_on_stop => held'[r].phase = "listening"
    <3>1. CASE r = s
      <4>1. \A x \in OwnListeners(s) : run = 1 /\ plan[s].remove_on_stop /\ held[s].phase # "listening" => ~ (sock[x] > 0)
        BY <1>1, <2>1 DEF SockInv
      <4>2. ~ (0 > 0)
        OBVIOUS
      <4>3. \A x \in OwnListeners(s) : run = 1 /\ sock'[x] > 0 /\ plan[s].remove_on_stop => FALSE
        BY <1>1, <2>2, <2>4, <4>1, <4>2
      <4>4. held'[s].phase # "listening"
        BY <1>3
      <4> QED BY <3>1, <4>3, <4>4
    <3>2. CASE r # s
      <4>1. held'[r] = held[r]
        BY <1>3, <3>2
      <4>2. \A x \in OwnListeners(r) : sock'[x] = sock[x]
        BY <2>2, <2>4, <3>2
      <4>3. 0 # File
        BY DEF File
      <4>4. held[r].phase = "listening" => \A x \in ToSet(plan[r].listeners) : sock'[x] # File
        BY <2>1, <2>2, <2>4, <4>3 DEF SockInv
      <4> QED BY <1>1, <2>1, <4>1, <4>2, <4>4 DEF SockInv
    <3> QED BY <3>1, <3>2
  <2> QED BY <1>2, <2>3, <2>5, <2>6 DEF SockInv
<1>11. DirsInv'
  <2>1. DirsInv /\ dirs' \in Emptied(dirs, held[s].directories)
    BY <1>1 DEF FilesIInv, cleanup_directories
  <2> QED BY <1>1, <1>2, <1>3, <2>1, DirsKept
<1>12. ProcsInv' /\ TreeInv' /\ OrphansEnd'
  <2>1. op'.step \notin Working
    BY <1>4 DEF Working, Preparing, Unspawned, Spawned
  <2> QED BY <1>1, <1>2, <1>3, <1>4, <2>1, ShrunkKeeps
<1> QED BY <1>5, <1>7, <1>8, <1>9, <1>10, <1>11, <1>12 DEF FilesIInv, Control

-----------------------------------------------------------------------------
(***************************************************************************)
(* What a step leaves alone.                                               *)
(***************************************************************************)

SameDaemon == plan' = plan /\ run' = run /\ up' = up /\ starts' \in Nat /\ starts <= starts'

LEMMA SameDirs ==
  ASSUME DirsInv, Remembered, dirs' = dirs, full' \subseteq dirs, plan' = plan,
         \A r \in Services : held'[r].directories \in {held[r].directories, <<>>}
  PROVE  DirsInv'
<1>1. Services' = Services /\ \A r \in Services : Listed(r)' = Listed(r)
  BY PlanKept
<1>2. ASSUME NEW r \in Services, NEW i \in DOMAIN held'[r].directories
      PROVE  LET d == held'[r].directories[i] IN
             /\ d.path \in Listed(r)
             /\ d.path \in dirs' \/ \E q \in Services \ {r} : d.path \in Listed(q)
             /\ d.cleanup /\ d.path \in dirs' => d.path \in made'
  <2>1. held'[r].directories = held[r].directories
    BY <1>2
  <2> QED BY <1>2, <2>1 DEF DirsInv, Remembered
<1> QED BY <1>1, <1>2 DEF DirsInv

LEMMA SameTmps ==
  ASSUME TmpsInv, tmps' = tmps, SameDaemon, starts \in Nat,
         \A r \in Services : held'[r].private_tmp_paths = held[r].private_tmp_paths
  PROVE  TmpsInv'
<1>1. Services' = Services /\ 1 .. starts \subseteq 1 .. starts'
  BY PlanKept DEF SameDaemon
<1>2. ASSUME NEW t \in tmps
      PROVE  /\ t = [svc |-> t.svc, n |-> t.n, run |-> t.run]
             /\ t.svc \in Services /\ t.n \in 1 .. starts' /\ t.run \in 1 .. run
             /\ up /\ t.run = run => held'[t.svc].private_tmp_paths = t.n
  BY <1>1 DEF TmpsInv, Made_by
<1>3. ASSUME NEW s \in Services, held'[s].private_tmp_paths # 0
      PROVE  \E t \in tmps' : t.svc = s /\ t.n = held'[s].private_tmp_paths
  BY <1>3 DEF TmpsInv
<1> QED BY <1>1, <1>2, <1>3 DEF TmpsInv, Made_by, SameDaemon

Notified == {"cgroup", "limits", "fork"} \cup Spawned

LEMMA SameNotes ==
  ASSUME NotesInv, notes' = notes, SameDaemon, starts \in Nat,
         \A r \in Services : held'[r].notify_path = held[r].notify_path,
         op.step \in Notified => op'.svc = op.svc /\ op'.n = op.n /\ op'.step \in Notified
  PROVE  NotesInv'
<1>1. Services' = Services /\ 1 .. starts \subseteq 1 .. starts'
  BY PlanKept DEF SameDaemon
<1>2. ASSUME NEW x \in notes
      PROVE  /\ x = [svc |-> x.svc, n |-> x.n, run |-> x.run]
             /\ x.svc \in Services /\ x.n \in 1 .. starts' /\ x.run \in 1 .. run
             /\ up /\ x.run = run =>
                  \/ held'[x.svc].notify_path = x.n
                  \/ op'.svc = x.svc /\ op'.n = x.n /\ op'.step \in Notified
  BY <1>1 DEF NotesInv, Made_by, Notified
<1> QED BY <1>1, <1>2 DEF NotesInv, Made_by, Notified, SameDaemon

LEMMA SameSock ==
  ASSUME SockInv, sock' = sock, SameDaemon, starts \in Nat,
         \A r \in Services : held'[r].phase = "listening" <=> held[r].phase = "listening",
         \A r \in Services : held'[r].phase = "listening" => held'[r].main = held[r].main
  PROVE  SockInv'
<1>1. /\ Services' = Services /\ \A r \in Services : OwnListeners(r)' = OwnListeners(r)
      /\ 0 .. starts \subseteq 0 .. starts' /\ plan' = plan /\ run' = run /\ up' = up
  BY PlanKept DEF SameDaemon
<1>2. \A x \in DOMAIN sock : sock'[x] \in {File} \cup 0 .. starts'
  BY <1>1 DEF SockInv
<1>3. DOMAIN sock' = (UNION {ToSet(plan[s].listeners) : s \in Services})'
  BY <1>1 DEF SockInv
<1>4. ASSUME NEW s \in Services
      PROVE  /\ held'[s].phase = "listening" => \A x \in ToSet(plan[s].listeners) : sock'[x] # File
             /\ \A x \in OwnListeners(s) :
                  /\ held'[s].phase = "listening" => sock'[x] = held'[s].main
                  /\ up /\ run = 1 /\ sock'[x] > 0 /\ plan[s].remove_on_stop => held'[s].phase = "listening"
  BY DEF SockInv
<1> QED BY <1>1, <1>2, <1>3, <1>4 DEF SockInv

LEMMA SameCred ==
  ASSUME CredInv, cred' = cred, SameDaemon, op.step \notin {"mark", "fill"},
         op'.step \notin {"create", "mark", "fill"},
         \A r \in Services : held'[r].credential_directory = held[r].credential_directory
  PROVE  CredInv'
<1>1. Services' = Services
  BY PlanKept DEF SameDaemon
<1>2. ASSUME NEW s \in Services
      PROVE  /\ cred[s] = [state |-> cred[s].state, run |-> cred[s].run]
             /\ cred[s].state \in {"none", "bare", "marked", "full", "foreign"}
             /\ cred[s].run \in 0 .. run
             /\ held'[s].credential_directory => cred[s].state = "full"
             /\ up /\ cred[s].run = run => held'[s].credential_directory
  BY DEF CredInv
<1>3. DOMAIN cred = Services
  BY DEF CredInv
<1> QED BY <1>1, <1>2, <1>3 DEF CredInv, SameDaemon

LEMMA ProcNumbers ==
  ASSUME ProcsInv, starts \in Nat, NEW p \in tree.procs
  PROVE  p.n \in Nat /\ p.n # 0 /\ p.n <= starts
<1>1. p.n \in 1 .. starts
  BY DEF ProcsInv
<1> QED BY <1>1

\* The tree, in a step that concerns no process.
LEMMA SameTree ==
  ASSUME FilesIInv, tree' = tree, SameDaemon,
         op.step \notin Spawned, op'.step \notin {"limits", "fork"} \cup Spawned,
         \A p \in tree.procs : p.n # op'.n,
         \A r \in Services : held'[r].cgroup_path => held[r].cgroup_path /\ held'[r].main = held[r].main,
         \A r \in Services : held'[r].main \in {held[r].main, op.n, 0},
         \A r \in Services : held'[r].phase = "prepared" => held[r].phase = "prepared" \/ held'[r].main = op.n
  PROVE  ProcsInv' /\ TreeInv' /\ OrphansEnd'
<1>1. /\ plan' = plan /\ run' = run /\ up' = up /\ Services' = Services
      /\ Groups' = Groups /\ looks_for_orphans' = looks_for_orphans
      /\ \A r \in Services : /\ wants_cgroup(r)' = wants_cgroup(r) /\ Group(r)' = Group(r)
                             /\ Inner(r)' = Inner(r)
  BY PlanKept DEF SameDaemon
<1>2. 1 .. starts \subseteq 1 .. starts' /\ starts \in Nat
  BY CountersAre DEF FilesIInv, SameDaemon
<1>3. ProcsInv
  BY DEF FilesIInv
<1>4. ProcsInv'
  <2>1. ASSUME NEW p \in tree.procs
        PROVE  /\ p = [svc |-> p.svc, n |-> p.n, run |-> p.run, role |-> p.role, cg |-> p.cg]
               /\ p.svc \in Services /\ p.n \in 1 .. starts' /\ p.run \in 1 .. run
               /\ p.role \in {"main", "child"}
               /\ p.cg \in {Elsewhere, Group(p.svc)} \/ (p.cg = Inner(p.svc) /\ plan[p.svc].delegate # {})
               /\ p.n # 0 /\ p.n # op.n
    BY <1>2, <1>3 DEF ProcsInv
  <2>2. ASSUME NEW p \in tree.procs, NEW r \in Services, p.n = held'[r].main
        PROVE  p.svc = r /\ held'[r].phase # "prepared"
    <3>1. held'[r].main = held[r].main
      BY <2>1, <2>2
    <3> QED BY <1>3, <2>1, <2>2, <3>1 DEF ProcsInv
  <2> QED BY <1>1, <1>3, <2>1, <2>2 DEF ProcsInv
<1>5. TreeInv'
  <2>1. TreeInv
    BY DEF FilesIInv
  <2>2. TreeOK(tree)'
    BY <1>1, <2>1 DEF TreeOK, TreeInv
  <2>3. ASSUME NEW r \in Services, held'[r].cgroup_path
        PROVE  Limits(tree, r)' /\ Inside(r, held[r].main)'
    BY <1>1, <2>1, <2>3 DEF TreeInv, Limits, Inside, Main
  <2>4. op'.step \notin {"limits", "fork", "attach", "register"}
    BY DEF Spawned
  <2> QED BY <1>1, <2>2, <2>3, <2>4 DEF TreeInv, Spawned
<1>6. OrphansEnd'
  BY <1>1 DEF FilesIInv, OrphansEnd
<1> QED BY <1>4, <1>5, <1>6

\* Start, Spawn and Respawn.
LEMMA BeginKeeps ==
  ASSUME FilesIInv, NEW s \in Services, Start(s) \/ Spawn(s) \/ Respawn(s), Remembered
  PROVE  FilesIInv'
<1> DEFINE t == op'.step
           n == op'.n
<1>1. /\ up /\ op = Idle /\ held' = held /\ UNCHANGED <<plan, up, run>>
      /\ UNCHANGED <<cred, dirs, full, tmps, notes, tree, sock>>
  BY DEF Start, Spawn, Respawn
<1>2. /\ op' = [svc |-> s, step |-> t, n |-> n]
      /\ \/ starts' = starts /\ n = held[s].main
         \/ starts' = starts + 1 /\ starts < MaxStarts /\ n = starts + 1
      /\ \/ t = "credentials" /\ held[s].phase = "down"
         \/ t \in {"notify", "listen"} /\ held[s].phase \in {"prepared", "backoff"}
      /\ held[s].phase = "prepared" => starts' = starts
      /\ starts' = starts => held[s].phase = "prepared"
  <2>1. CASE Start(s)
    BY <2>1, CountersAre DEF Start, FilesIInv
  <2>2. CASE Spawn(s)
    BY <2>2 DEF Spawn, SpawnStep
  <2>3. CASE Respawn(s)
    BY <2>3, CountersAre DEF Respawn, SpawnStep, FilesIInv
  <2> QED BY <2>1, <2>2, <2>3
<1>3. Control'
  <2>1. Control
    BY DEF FilesIInv, Control
  <2> HIDE DEF t, n
  <2> QED BY <1>1, <1>2, <2>1, BeginControl
<1>4. starts \in Nat /\ SameDaemon
  <2>1. starts \in Nat
    BY CountersAre DEF FilesIInv
  <2> QED BY <1>1, <1>2, <2>1 DEF SameDaemon
<1>5. op.step = "idle" /\ op.svc = "" /\ op.n = 0
  BY <1>1, IdleIs
<1>6. CredInv /\ TmpsInv /\ NotesInv /\ SockInv /\ DirsInv /\ ProcsInv
  BY DEF FilesIInv
<1>7. op'.step \in {"credentials", "notify", "listen"}
  BY <1>2
<1>8. CredInv' /\ TmpsInv' /\ NotesInv' /\ SockInv'
  BY <1>1, <1>4, <1>5, <1>6, <1>7, SameCred, SameTmps, SameNotes, SameSock DEF Notified, Spawned
<1>9. DirsInv'
  BY <1>1, <1>6, SameDirs DEF DirsInv
<1>10. \A p \in tree.procs : p.n # op'.n
  <2> SUFFICES ASSUME NEW p \in tree.procs, p.n = op'.n PROVE FALSE
    OBVIOUS
  <2>1. p.n \in 1 .. starts
    BY <1>6 DEF ProcsInv
  <2>2. starts' = starts
    BY <1>2, <1>4, <2>1
  <2>3. n = held[s].main
    BY <1>2, <1>4, <2>2
  <2> QED BY <1>2, <1>5, <1>6, <2>2, <2>3 DEF ProcsInv, Spawned
<1>11. ProcsInv' /\ TreeInv' /\ OrphansEnd'
  BY <1>1, <1>4, <1>5, <1>7, <1>10, SameTree DEF Spawned
<1> QED BY <1>3, <1>8, <1>9, <1>11 DEF FilesIInv, Control

\* The next step of a start, and all that it does not touch.
LEMMA GoKeeps ==
  ASSUME FilesIInv, NEW t, Go(t), held' = held, Bounds,
         \/ op.step \in Preparing \ {"directories", "private_tmp"} /\ t \in Preparing
         \/ op.step \in (Unspawned \cup Spawned) \ {"undo"} /\ t \in Unspawned \cup Spawned
         \/ op.step = "directories" /\ t = "undo"
  PROVE  /\ Control' /\ SameDaemon
         /\ op'.svc = op.svc /\ op'.n = op.n /\ op'.step = t /\ op.svc \in Services /\ op.n \in 1 .. starts /\ up
         /\ cred' = cred /\ op.step \notin {"mark", "fill"} /\ t \notin {"create", "mark", "fill"} => CredInv'
         /\ tmps' = tmps => TmpsInv'
         /\ notes' = notes /\ (op.step \in Notified => t \in Notified) => NotesInv'
         /\ sock' = sock => SockInv'
         /\ dirs' = dirs /\ full' = full /\ Remembered => DirsInv'
         /\ tree' = tree /\ op.step \notin Spawned /\ t \notin {"limits", "fork"} \cup Spawned =>
               ProcsInv' /\ TreeInv' /\ OrphansEnd'
<1>1. Control' /\ op'.svc = op.svc /\ op'.n = op.n /\ op'.step = t
  <2>1. Control /\ op' = [op EXCEPT !.step = t]
    BY DEF FilesIInv, Control, Go
  <2> QED BY <2>1, GoControl
<1>2. starts \in Nat /\ SameDaemon
  <2>1. starts \in Nat
    BY CountersAre DEF FilesIInv
  <2> QED BY <2>1 DEF SameDaemon, Bounds
<1>3. op.svc \in Services /\ op.n \in 1 .. starts /\ up
  <2>1. op.step \in Working
    BY DEF Working, Preparing
  <2> QED BY <2>1 DEF FilesIInv, OpInv
<1>4. CredInv /\ TmpsInv /\ NotesInv /\ SockInv /\ DirsInv /\ ProcsInv
  BY DEF FilesIInv
<1>5. cred' = cred /\ op.step \notin {"mark", "fill"} /\ t \notin {"create", "mark", "fill"} => CredInv'
  BY <1>1, <1>2, <1>4, SameCred
<1>6. tmps' = tmps => TmpsInv'
  BY <1>2, <1>4, SameTmps
<1>7. notes' = notes /\ (op.step \in Notified => t \in Notified) => NotesInv'
  BY <1>1, <1>2, <1>4, SameNotes
<1>8. sock' = sock => SockInv'
  BY <1>2, <1>4, SameSock
<1>9. dirs' = dirs /\ full' = full /\ Remembered => DirsInv'
  BY <1>2, <1>4, SameDirs DEF DirsInv, SameDaemon
<1>10. ASSUME tree' = tree, op.step \notin Spawned, t \notin {"limits", "fork"} \cup Spawned
       PROVE  ProcsInv' /\ TreeInv' /\ OrphansEnd'
  <2>1. \A p \in tree.procs : p.n # op'.n
    BY <1>1, <1>4, <1>10 DEF ProcsInv
  <2> QED BY <1>1, <1>2, <1>10, <2>1, SameTree
<1> QED BY <1>1, <1>2, <1>3, <1>5, <1>6, <1>7, <1>8, <1>9, <1>10

-----------------------------------------------------------------------------
(***************************************************************************)
(* Credentials.                                                            *)
(***************************************************************************)

\* The credential directory of the start in progress changes.
LEMMA CredSet ==
  ASSUME CredInv, SameDaemon, op.svc \in Services, NEW state, NEW n,
         cred' = [cred EXCEPT ![op.svc] = [state |-> state, run |-> n]],
         state \in {"none", "bare", "marked", "full", "foreign"}, n \in 0 .. run,
         \A r \in Services \ {op.svc} : held'[r].credential_directory = held[r].credential_directory,
         held'[op.svc].credential_directory => state = "full",
         n = run => held'[op.svc].credential_directory \/ (op'.svc = op.svc /\ op'.step \in {"mark", "fill"}),
         op'.step \in {"create", "mark", "fill"} => op'.svc = op.svc,
         op'.step = "create" => state = "none",
         op'.step = "mark" => state = "bare",
         op'.step = "fill" => state = "marked"
  PROVE  CredInv'
<1>1. Services' = Services /\ plan' = plan /\ run' = run /\ up' = up
  BY PlanKept DEF SameDaemon
<1>2. /\ DOMAIN cred' = Services /\ \A r \in Services \ {op.svc} : cred'[r] = cred[r]
      /\ cred'[op.svc] = [state |-> state, run |-> n]
      /\ cred'[op.svc].state = state /\ cred'[op.svc].run = n
  BY DEF CredInv
<1>3. ASSUME NEW r \in Services
      PROVE  /\ cred'[r] = [state |-> cred'[r].state, run |-> cred'[r].run]
             /\ cred'[r].state \in {"none", "bare", "marked", "full", "foreign"}
             /\ cred'[r].run \in 0 .. run
             /\ held'[r].credential_directory => cred'[r].state = "full"
             /\ up /\ cred'[r].run = run =>
                  held'[r].credential_directory \/ (op'.svc = r /\ op'.step \in {"mark", "fill"})
  <2>1. CASE r = op.svc
    BY <1>2, <2>1
  <2>2. CASE r # op.svc
    BY <1>2, <2>2 DEF CredInv
  <2> QED BY <2>1, <2>2
<1> QED BY <1>1, <1>2, <1>3 DEF CredInv

LEMMA CredentialsKeep ==
  ASSUME FilesIInv, ClearCredentials \/ CreateCredentials \/ MarkCredentials, Remembered
  PROVE  FilesIInv'
<1>1. PICK t \in Preparing :
        /\ Go(t) /\ op.step \in {"credentials", "create", "mark"}
        /\ UNCHANGED <<plan, up, run, starts, held, dirs, full, tmps, notes, tree, sock>>
        /\ \/ cred' = cred /\ t = "directories" /\ op.step = "credentials"
           \/ cred' = [cred EXCEPT ![op.svc] = NoCred] /\ t = "create"
           \/ cred' = [cred EXCEPT ![op.svc] = [state |-> "bare", run |-> run]] /\ t = "mark"
           \/ cred' = [cred EXCEPT ![op.svc] = [state |-> "marked", run |-> run]] /\ t = "fill"
  BY DEF ClearCredentials, CreateCredentials, MarkCredentials, SetCred, At, Preparing
<1>2. op.step \in Preparing \ {"directories", "private_tmp"} /\ op.step \notin Spawned \cup Notified
      /\ t \notin {"limits", "fork"} \cup Spawned
  BY <1>1 DEF Preparing, Spawned, Notified
<1>3. /\ Control' /\ SameDaemon
      /\ op'.svc = op.svc /\ op'.n = op.n /\ op'.step = t /\ op.svc \in Services /\ op.n \in 1 .. starts /\ up
      /\ cred' = cred /\ op.step \notin {"mark", "fill"} /\ t \notin {"create", "mark", "fill"} => CredInv'
      /\ TmpsInv' /\ NotesInv' /\ SockInv' /\ DirsInv' /\ ProcsInv' /\ TreeInv' /\ OrphansEnd'
  BY <1>1, <1>2, GoKeeps DEF Bounds
<1>4. CredInv'
  <2>1. CredInv /\ ~ held[op.svc].credential_directory /\ run \in Nat \ {0}
    <3>1. held[op.svc].phase = "down"
      BY <1>2 DEF FilesIInv, OpInv
    <3>2. ~ held[op.svc].credential_directory
      BY <1>1, <1>3, <3>1 DEF FilesIInv, HeldInv
    <3> QED BY <3>2, CountersAre DEF FilesIInv
  <2>2. 0 \in 0 .. run /\ run \in 0 .. run /\ 0 # run
    BY <2>1
  <2>3. CASE t = "directories"
    BY <1>1, <1>3, <2>3
  <2>4. CASE t = "create"
    <3>1. cred' = [cred EXCEPT ![op.svc] = [state |-> "none", run |-> 0]]
      BY <1>1, <2>4 DEF NoCred
    <3> QED BY <1>1, <1>3, <2>1, <2>2, <2>4, <3>1, CredSet
  <2>5. CASE t = "mark"
    <3>1. cred' = [cred EXCEPT ![op.svc] = [state |-> "bare", run |-> run]]
      BY <1>1, <2>5
    <3> QED BY <1>1, <1>3, <2>1, <2>2, <2>5, <3>1, CredSet
  <2>6. CASE t = "fill"
    <3>1. cred' = [cred EXCEPT ![op.svc] = [state |-> "marked", run |-> run]]
      BY <1>1, <2>6
    <3> QED BY <1>1, <1>3, <2>1, <2>2, <2>6, <3>1, CredSet
  <2> QED BY <1>1, <2>3, <2>4, <2>5, <2>6
<1> QED BY <1>3, <1>4 DEF FilesIInv, Control

\* The step of a start whose service keeps its phase.
LEMMA GoOp ==
  ASSUME OpInv, up, Bounds, NEW t \in Working, op.step \in Working, op' = [op EXCEPT !.step = t],
         held'[op.svc].phase = held[op.svc].phase, held'[op.svc].main = held[op.svc].main,
         t \in Preparing <=> op.step \in Preparing
  PROVE  OpInv' /\ op'.svc = op.svc /\ op'.n = op.n /\ op'.step = t
<1>1. op = [svc |-> op.svc, step |-> op.step, n |-> op.n]
  BY DEF OpInv
<1>2. op' = [svc |-> op.svc, step |-> t, n |-> op.n]
  BY <1>1
<1>3. op'.svc = op.svc /\ op'.step = t /\ op'.n = op.n
  BY <1>2
<1>4. starts' = starts /\ plan' = plan /\ run' = run /\ up' = up /\ Services' = Services
  BY PlanKept DEF Bounds
<1>5. /\ plan \in Plans /\ up \in BOOLEAN /\ run \in 1 .. MaxRuns /\ starts \in 0 .. MaxStarts
      /\ up /\ op.svc \in Services /\ op.n \in 1 .. starts
      /\ op.step \in Preparing => held[op.svc].phase = "down"
      /\ op.step \in Unspawned \cup Spawned => held[op.svc].phase \in {"down", "prepared", "backoff"}
      /\ op.step \in Unspawned \cup Spawned /\ held[op.svc].phase = "prepared" => held[op.svc].main = op.n
  BY DEF OpInv
<1>6. t \in Steps /\ (t \in Preparing \/ t \in Unspawned \cup Spawned) /\ (op.step \in Preparing \/ op.step \in Unspawned \cup Spawned)
      /\ ~ (t \in Preparing /\ t \in Unspawned \cup Spawned)
  BY DEF Steps, Working, Preparing, Unspawned, Spawned
<1> QED BY <1>2, <1>3, <1>4, <1>5, <1>6 DEF OpInv

\* The end of a start.
LEMMA IdleOp ==
  ASSUME OpInv, up, Bounds, op' = Idle
  PROVE  OpInv' /\ op'.svc = "" /\ op'.n = 0 /\ op'.step = "idle"
<1>1. starts' = starts /\ plan' = plan /\ run' = run /\ up' = up
  BY DEF Bounds
<1>2. op'.svc = "" /\ op'.n = 0 /\ op'.step = "idle" /\ op' = [svc |-> op'.svc, step |-> op'.step, n |-> op'.n]
  BY IdleIs
<1>3. op'.step \notin Working /\ op'.step \in Steps /\ op'.step \notin Preparing \cup Unspawned \cup Spawned
  BY <1>2 DEF Working, Preparing, Unspawned, Spawned, Steps
<1>4. plan \in Plans /\ up \in BOOLEAN /\ run \in 1 .. MaxRuns /\ starts \in 0 .. MaxStarts
  BY DEF OpInv
<1> QED BY <1>1, <1>2, <1>3, <1>4 DEF OpInv

\* FillCredentials.
LEMMA FillKeeps ==
  ASSUME FilesIInv, FillCredentials, Remembered
  PROVE  FilesIInv'
<1> DEFINE s == op.svc
           h == held[s]
<1>1. /\ up /\ op.step = "fill" /\ op' = [op EXCEPT !.step = "directories"] /\ Bounds
      /\ cred' = [cred EXCEPT ![s] = [state |-> "full", run |-> run]]
      /\ held' = [held EXCEPT ![s].credential_directory = TRUE]
      /\ UNCHANGED <<dirs, full, tmps, notes, tree, sock>>
  BY DEF FillCredentials, At, SetCred, Go, Bounds
<1>2. OpInv /\ HeldInv /\ CredInv /\ TmpsInv /\ NotesInv /\ SockInv /\ DirsInv /\ ProcsInv /\ Control
  BY DEF FilesIInv, Control
<1>3. op.step \in Working /\ s \in Services /\ h.phase = "down" /\ op.step \in Preparing
  BY <1>1, <1>2 DEF OpInv, Working, Preparing
<1>4. /\ DOMAIN held' = DOMAIN held /\ \A r \in Services \ {s} : held'[r] = held[r]
      /\ held'[s] = [phase |-> h.phase, main |-> h.main, credential_directory |-> TRUE,
                     directories |-> h.directories, private_tmp_paths |-> h.private_tmp_paths,
                     notify_path |-> h.notify_path, cgroup_path |-> h.cgroup_path]
  <2>1. h = [phase |-> h.phase, main |-> h.main, credential_directory |-> h.credential_directory,
             directories |-> h.directories, private_tmp_paths |-> h.private_tmp_paths,
             notify_path |-> h.notify_path, cgroup_path |-> h.cgroup_path]
    BY <1>2, <1>3, HeldIs
  <2>2. DOMAIN held = Services
    BY <1>2 DEF HeldInv
  <2>3. /\ DOMAIN held' = DOMAIN held /\ \A r \in Services \ {s} : held'[r] = held[r]
        /\ held'[s] = [h EXCEPT !.credential_directory = TRUE]
    BY <1>1, <1>3, <2>2
  <2> HIDE DEF h
  <2> QED BY <2>1, <2>3
<1>5. /\ held'[s].phase = h.phase /\ held'[s].main = h.main /\ held'[s].credential_directory = TRUE
      /\ held'[s].directories = h.directories /\ held'[s].private_tmp_paths = h.private_tmp_paths
      /\ held'[s].notify_path = h.notify_path /\ held'[s].cgroup_path = h.cgroup_path
  BY <1>4
<1>6. OpInv' /\ op'.svc = op.svc /\ op'.n = op.n /\ op'.step = "directories"
  BY <1>1, <1>2, <1>3, <1>5, GoOp DEF Preparing, Working
<1>7. Control'
  <2>1. Fields(h, starts) /\ (h.cgroup_path => wants_cgroup(s)) /\ h.directories = <<>>
    BY <1>1, <1>2, <1>3 DEF HeldInv
  <2>2. Fields(held'[s], starts)
    BY <1>4, <1>5, <2>1 DEF Fields
  <2>3. Uses(held'[s]) = Uses(h)
    BY <1>5 DEF Uses
  <2> QED BY <1>1, <1>2, <1>3, <1>4, <1>5, <1>6, <2>1, <2>2, <2>3, UpdateControl
<1>8. starts \in Nat /\ run \in Nat \ {0} /\ SameDaemon
  <2>1. starts \in Nat /\ run \in Nat \ {0}
    BY <1>2, CountersAre
  <2> QED BY <1>1, <2>1 DEF SameDaemon, Bounds
<1>9. CredInv'
  <2>1. run \in 0 .. run
    BY <1>8
  <2> QED BY <1>1, <1>2, <1>3, <1>4, <1>5, <1>6, <1>8, <2>1, CredSet
<1>10. \A r \in Services : /\ held'[r].phase = held[r].phase /\ held'[r].main = held[r].main
                           /\ held'[r].directories = held[r].directories
                           /\ held'[r].private_tmp_paths = held[r].private_tmp_paths
                           /\ held'[r].notify_path = held[r].notify_path
                           /\ held'[r].cgroup_path = held[r].cgroup_path
  BY <1>3, <1>4, <1>5
<1>11. TmpsInv' /\ NotesInv' /\ SockInv'
  BY <1>1, <1>2, <1>8, <1>10, SameTmps, SameNotes, SameSock DEF Notified, Spawned
<1>12. DirsInv'
  BY <1>1, <1>2, <1>10, SameDirs DEF DirsInv, Bounds
<1>13. ProcsInv' /\ TreeInv' /\ OrphansEnd'
  <2>1. \A p \in tree.procs : p.n # op'.n
    BY <1>1, <1>2, <1>6 DEF ProcsInv, Spawned
  <2> QED BY <1>1, <1>6, <1>8, <1>10, <2>1, SameTree DEF Spawned
<1> QED BY <1>7, <1>9, <1>11, <1>12, <1>13 DEF FilesIInv, Control

\* FailCredentials.
LEMMA FailCredentialsKeeps ==
  ASSUME FilesIInv, FailCredentials, Remembered
  PROVE  FilesIInv'
<1> DEFINE s == op.svc
<1>1. /\ up /\ op.step \in {"mark", "fill"} /\ op' = Idle /\ Bounds /\ Ended(s)
      /\ cred' = [cred EXCEPT ![s] = [state |-> "none", run |-> 0]]
      /\ UNCHANGED <<dirs, full, tmps, notes, tree, sock>>
  BY DEF FailCredentials, NoCred, Bounds, Ended
<1>2. OpInv /\ HeldInv /\ CredInv /\ TmpsInv /\ NotesInv /\ SockInv /\ DirsInv /\ ProcsInv /\ Control
  BY DEF FilesIInv, Control
<1>3. op.step \in Working /\ s \in Services /\ held[s].phase = "down" /\ op.step \in Preparing
  BY <1>1, <1>2 DEF OpInv, Working, Preparing
<1>4. /\ \A r \in Services \ {s} : held'[r] = held[r]
      /\ held'[s].phase \in {"down", "backoff"}
      /\ held'[s] = [phase |-> held'[s].phase, main |-> 0, credential_directory |-> FALSE,
                     directories |-> <<>>, private_tmp_paths |-> 0, notify_path |-> 0,
                     cgroup_path |-> FALSE]
  BY <1>1, <1>2, <1>3, EndedIs
<1>5. /\ held'[s].main = 0 /\ held'[s].credential_directory = FALSE
      /\ held'[s].directories = <<>> /\ held'[s].private_tmp_paths = 0
      /\ held'[s].notify_path = 0 /\ held'[s].cgroup_path = FALSE
  BY <1>4
<1>6. Control' /\ op'.svc = "" /\ op'.n = 0 /\ op'.step = "idle"
  BY <1>1, <1>2, <1>3, EndedControl, IdleIs
<1>7. Fields(held[s], starts)
  BY <1>2, <1>3 DEF HeldInv
<1>8. held[s].main = 0 /\ held[s].private_tmp_paths = 0 /\ held[s].notify_path = 0 /\ ~ held[s].cgroup_path
  BY <1>3, <1>7 DEF Fields
<1>9. starts \in Nat /\ run \in Nat \ {0} /\ SameDaemon
  <2>1. starts \in Nat /\ run \in Nat \ {0}
    BY <1>2, CountersAre
  <2> QED BY <1>1, <2>1 DEF SameDaemon, Bounds
<1>10. CredInv'
  <2>1. 0 \in 0 .. run /\ 0 # run
    BY <1>9
  <2> QED BY <1>1, <1>2, <1>3, <1>4, <1>5, <1>6, <1>9, <2>1, CredSet
<1>11. \A r \in Services : /\ held'[r].phase = "listening" <=> held[r].phase = "listening"
                           /\ held'[r].phase = "prepared" => held[r].phase = "prepared"
                           /\ held'[r].main = held[r].main
                           /\ held'[r].directories \in {held[r].directories, <<>>}
                           /\ held'[r].private_tmp_paths = held[r].private_tmp_paths
                           /\ held'[r].notify_path = held[r].notify_path
                           /\ held'[r].cgroup_path => held[r].cgroup_path
  BY <1>3, <1>4, <1>5, <1>8
<1>12. TmpsInv' /\ NotesInv' /\ SockInv'
  BY <1>1, <1>2, <1>9, <1>11, SameTmps, SameNotes, SameSock DEF Notified, Spawned
<1>13. DirsInv'
  BY <1>1, <1>2, <1>11, SameDirs DEF DirsInv, Bounds
<1>14. ProcsInv' /\ TreeInv' /\ OrphansEnd'
  <2>1. \A p \in tree.procs : p.n # op'.n
    BY <1>2, <1>6, <1>9, ProcNumbers
  <2> QED BY <1>1, <1>6, <1>9, <1>11, <2>1, SameTree DEF Spawned
<1> QED BY <1>6, <1>10, <1>12, <1>13, <1>14 DEF FilesIInv, Control

-----------------------------------------------------------------------------
(***************************************************************************)
(* Directories.                                                            *)
(***************************************************************************)

\* More directories are there, and those of one service are new.
LEMMA DirsGrow ==
  ASSUME DirsInv, Remembered, dirs \subseteq dirs', full' = full, plan' = plan, NEW s \in Services,
         \A r \in Services \ {s} : held'[r].directories = held[r].directories,
         \/ held'[s].directories = held[s].directories
         \/ \A i \in DOMAIN held'[s].directories :
              /\ held'[s].directories[i].path \in Listed(s)
              /\ held'[s].directories[i].path \in dirs'
              /\ held'[s].directories[i].cleanup => held'[s].directories[i].path \notin dirs
  PROVE  DirsInv'
<1>1. Services' = Services /\ \A r \in Services : Listed(r)' = Listed(r)
  BY PlanKept
<1>2. ASSUME NEW r \in Services, NEW i \in DOMAIN held'[r].directories
      PROVE  LET d == held'[r].directories[i] IN
             /\ d.path \in Listed(r)
             /\ d.path \in dirs' \/ \E q \in Services \ {r} : d.path \in Listed(q)
             /\ d.cleanup /\ d.path \in dirs' => d.path \in made'
  <2>1. CASE held'[r].directories = held[r].directories
    BY <1>2, <2>1 DEF DirsInv, Remembered
  <2>2. CASE held'[r].directories # held[r].directories
    <3>1. r = s
      BY <2>2
    <3> QED BY <1>2, <2>2, <3>1 DEF Remembered
  <2> QED BY <2>1, <2>2
<1>3. full' \subseteq dirs'
  BY DEF DirsInv
<1> QED BY <1>1, <1>2, <1>3 DEF DirsInv

\* The directories of a descriptor are a sequence, and prepare_directories
\* removes only what was not there before.
LEMMA MadeIs ==
  ASSUME plan \in Plans, op.svc \in Services, NEW k \in 0 .. Len(plan[op.svc].directories)
  PROVE  /\ Len(plan[op.svc].directories) \in Nat /\ dirs \subseteq Present(k)
         /\ DOMAIN Made(k) = 1 .. k
         /\ \A i \in 1 .. k :
              /\ Made(k)[i].path \in Listed(op.svc) /\ Made(k)[i].path \in Present(k)
              /\ Made(k)[i].cleanup => Made(k)[i].path \notin dirs
<1> DEFINE ds == plan[op.svc].directories
<1>1. ds \in Seq([path : Path, runtime : BOOLEAN])
  BY PlansAssumption DEF Services, Descriptor
<1>2. Len(ds) \in Nat /\ DOMAIN ds = 1 .. Len(ds)
  BY <1>1
<1>3. \A j : dirs \subseteq Present(j)
  BY DEF Present
<1>4. DOMAIN Made(k) = 1 .. k /\ \A i \in 1 .. k : Made(k)[i] = Managed(ds[i], Present(i - 1))
  BY DEF Made
<1>5. ASSUME NEW i \in 1 .. k
      PROVE  /\ Made(k)[i].path \in Listed(op.svc) /\ Made(k)[i].path \in Present(k)
             /\ Made(k)[i].cleanup => Made(k)[i].path \notin dirs
  <2>1. Made(k)[i].path = ds[i].path /\ Made(k)[i].cleanup = (ds[i].runtime /\ ds[i].path \notin Present(i - 1))
    BY <1>4, <1>5 DEF Managed
  <2>2. i \in DOMAIN ds
    BY <1>2, <1>5
  <2>3. ds[i].path \in Listed(op.svc)
    BY <2>2 DEF Listed
  <2>4. ds[i].path \in Present(k)
    BY <1>5 DEF Present
  <2> HIDE DEF ds
  <2> QED BY <1>3, <2>1, <2>3, <2>4
<1> QED BY <1>2, <1>3, <1>4, <1>5

LEMMA DirectoriesKeep ==
  ASSUME FilesIInv, prepare_directories, Remembered
  PROVE  FilesIInv'
<1> DEFINE s == op.svc
           h == held[s]
           n == Len(plan[s].directories)
<1>1. /\ up /\ op.step = "directories" /\ Bounds
      /\ UNCHANGED <<cred, full, tmps, notes, tree, sock>>
  BY DEF prepare_directories, At, Bounds
<1>2. OpInv /\ HeldInv /\ CredInv /\ TmpsInv /\ NotesInv /\ SockInv /\ DirsInv /\ ProcsInv /\ Control
  BY DEF FilesIInv, Control
<1>3. op.step \in Working /\ s \in Services /\ h.phase = "down" /\ op.step \in Preparing /\ plan \in Plans
  BY <1>1, <1>2 DEF OpInv, Working, Preparing
<1>4. CASE dirs' = Present(n) /\ held' = [held EXCEPT ![s].directories = Made(n)] /\ Go("private_tmp")
  <2>1. /\ DOMAIN held' = DOMAIN held /\ \A r \in Services \ {s} : held'[r] = held[r]
        /\ held'[s] = [phase |-> h.phase, main |-> h.main, credential_directory |-> h.credential_directory,
                       directories |-> Made(n), private_tmp_paths |-> h.private_tmp_paths,
                       notify_path |-> h.notify_path, cgroup_path |-> h.cgroup_path]
    <3>1. h = [phase |-> h.phase, main |-> h.main, credential_directory |-> h.credential_directory,
               directories |-> h.directories, private_tmp_paths |-> h.private_tmp_paths,
               notify_path |-> h.notify_path, cgroup_path |-> h.cgroup_path]
      BY <1>2, <1>3, HeldIs
    <3>2. DOMAIN held = Services
      BY <1>2 DEF HeldInv
    <3>3. /\ DOMAIN held' = DOMAIN held /\ \A r \in Services \ {s} : held'[r] = held[r]
          /\ held'[s] = [h EXCEPT !.directories = Made(n)]
      BY <1>3, <1>4, <3>2
    <3> HIDE DEF h, n
    <3> QED BY <3>1, <3>3
  <2>2. /\ held'[s].phase = h.phase /\ held'[s].main = h.main
        /\ held'[s].credential_directory = h.credential_directory
        /\ held'[s].directories = Made(n) /\ held'[s].private_tmp_paths = h.private_tmp_paths
        /\ held'[s].notify_path = h.notify_path /\ held'[s].cgroup_path = h.cgroup_path
    <3> HIDE DEF h, n
    <3> QED BY <2>1
  <2>3. OpInv' /\ op'.svc = op.svc /\ op'.n = op.n /\ op'.step = "private_tmp"
    BY <1>1, <1>2, <1>3, <1>4, <2>2, GoOp DEF Go, Preparing, Working
  <2>4. Control'
    <3>1. Fields(h, starts) /\ (h.cgroup_path => wants_cgroup(s))
      BY <1>2, <1>3 DEF HeldInv
    <3>2. Fields(held'[s], starts)
      <4> HIDE DEF h, n
      <4> QED BY <2>1, <2>2, <3>1 DEF Fields
    <3>3. Uses(held'[s]) = Uses(h)
      BY <2>2 DEF Uses
    <3> QED BY <1>1, <1>2, <1>3, <2>1, <2>2, <2>3, <3>1, <3>2, <3>3, UpdateControl
  <2>5. starts \in Nat /\ SameDaemon
    <3>1. starts \in Nat
      BY <1>2, CountersAre
    <3> QED BY <1>1, <3>1 DEF SameDaemon, Bounds
  <2>6. \A r \in Services : /\ held'[r].phase = held[r].phase /\ held'[r].main = held[r].main
                            /\ held'[r].credential_directory = held[r].credential_directory
                            /\ held'[r].private_tmp_paths = held[r].private_tmp_paths
                            /\ held'[r].notify_path = held[r].notify_path
                            /\ held'[r].cgroup_path = held[r].cgroup_path
    BY <1>3, <2>1, <2>2
  <2>7. CredInv' /\ TmpsInv' /\ NotesInv' /\ SockInv'
    BY <1>1, <1>2, <2>3, <2>5, <2>6, SameCred, SameTmps, SameNotes, SameSock DEF Notified, Spawned
  <2>8. DirsInv'
    <3>0. n \in Nat
      BY <1>3, PlansAssumption DEF Services, Descriptor
    <3>1. /\ dirs \subseteq dirs' /\ DOMAIN Made(n) = 1 .. n
          /\ \A i \in 1 .. n :
               /\ Made(n)[i].path \in Listed(s) /\ Made(n)[i].path \in dirs'
               /\ Made(n)[i].cleanup => Made(n)[i].path \notin dirs
      BY <1>3, <1>4, <3>0, MadeIs
    <3>2. \A r \in Services \ {s} : held'[r].directories = held[r].directories
      BY <2>1
    <3> QED BY <1>1, <1>2, <1>3, <2>2, <3>1, <3>2, DirsGrow DEF Bounds
  <2>9. ProcsInv' /\ TreeInv' /\ OrphansEnd'
    <3>1. \A p \in tree.procs : p.n # op'.n
      BY <1>1, <1>2, <2>3 DEF ProcsInv, Spawned
    <3> QED BY <1>1, <2>3, <2>5, <2>6, <3>1, SameTree DEF Spawned
  <2> QED BY <2>4, <2>7, <2>8, <2>9 DEF FilesIInv, Control
<1>5. ASSUME NEW k \in 0 .. (n - 1), NEW parents, dirs' \in Emptied(Present(k) \cup parents, Made(k)),
             held' = held, Go("undo")
      PROVE  FilesIInv'
  <2>0. n \in Nat
    BY <1>3, PlansAssumption DEF Services, Descriptor
  <2>1. dirs \subseteq dirs'
    <3>1. k \in 0 .. n
      BY <2>0, <1>5
    <3>2. /\ dirs \subseteq Present(k)
          /\ \A i \in DOMAIN Made(k) : Made(k)[i].cleanup => Made(k)[i].path \notin dirs
      BY <1>3, <3>1, MadeIs
    <3>3. \A d \in (Present(k) \cup parents) \ dirs' : \E i \in DOMAIN Made(k) : Made(k)[i].path = d /\ Made(k)[i].cleanup
      BY <1>5, EmptiedIs
    <3> QED BY <3>2, <3>3
  <2>2. op.step \notin Spawned /\ "undo" \notin {"limits", "fork"} \cup Spawned /\ op.step \notin Notified
    BY <1>1 DEF Spawned, Notified
  <2>3. /\ Control' /\ CredInv' /\ TmpsInv' /\ NotesInv' /\ SockInv'
        /\ ProcsInv' /\ TreeInv' /\ OrphansEnd'
    BY <1>1, <1>5, <2>2, GoKeeps
  <2>4. DirsInv'
    BY <1>1, <1>2, <1>3, <1>5, <2>1, DirsGrow DEF Bounds
  <2> QED BY <2>3, <2>4 DEF FilesIInv, Control
<1> QED BY <1>4, <1>5 DEF prepare_directories

-----------------------------------------------------------------------------
(***************************************************************************)
(* The private /tmp, the notification socket and the listeners.            *)
(***************************************************************************)

LEMMA PrivateTmpKeeps ==
  ASSUME FilesIInv, prepare_private_tmp, Remembered
  PROVE  FilesIInv'
<1> DEFINE s == op.svc
           h == held[s]
           m == IF plan[s].private_tmp THEN op.n ELSE 0
<1>1. /\ up /\ op.step = "private_tmp" /\ Bounds /\ op' = Idle
      /\ UNCHANGED <<cred, dirs, full, notes, tree, sock>>
      /\ tmps' = IF plan[s].private_tmp THEN tmps \cup {[svc |-> s, n |-> op.n, run |-> run]} ELSE tmps
      /\ held' = [held EXCEPT ![s].private_tmp_paths = m, ![s].phase = "prepared", ![s].main = op.n]
  BY DEF prepare_private_tmp, At, Bounds
<1>2. OpInv /\ HeldInv /\ CredInv /\ TmpsInv /\ NotesInv /\ SockInv /\ DirsInv /\ ProcsInv /\ Control
  BY DEF FilesIInv, Control
<1>3. op.step \in Working /\ s \in Services /\ h.phase = "down" /\ op.step \in Preparing /\ op.n \in 1 .. starts
  BY <1>1, <1>2 DEF OpInv, Working, Preparing
<1>4. starts \in Nat /\ run \in Nat \ {0} /\ SameDaemon /\ op.n \in Nat /\ op.n # 0 /\ op.n <= starts
  <2>1. starts \in Nat /\ run \in Nat \ {0}
    BY <1>2, CountersAre
  <2> QED BY <1>1, <1>3, <2>1 DEF SameDaemon, Bounds
<1>5. Fields(h, starts) /\ (h.cgroup_path => wants_cgroup(s))
  BY <1>2, <1>3 DEF HeldInv
<1>6. h.private_tmp_paths = 0 /\ h.main = 0 /\ h.notify_path = 0 /\ ~ h.cgroup_path
  BY <1>3, <1>5 DEF Fields
<1>7. /\ DOMAIN held' = DOMAIN held /\ \A r \in Services \ {s} : held'[r] = held[r]
      /\ held'[s] = [phase |-> "prepared", main |-> op.n, credential_directory |-> h.credential_directory,
                     directories |-> h.directories, private_tmp_paths |-> m,
                     notify_path |-> h.notify_path, cgroup_path |-> h.cgroup_path]
  <2>1. h = [phase |-> h.phase, main |-> h.main, credential_directory |-> h.credential_directory,
             directories |-> h.directories, private_tmp_paths |-> h.private_tmp_paths,
             notify_path |-> h.notify_path, cgroup_path |-> h.cgroup_path]
    BY <1>2, <1>3, HeldIs
  <2>2. DOMAIN held = Services
    BY <1>2 DEF HeldInv
  <2> HIDE DEF m
  <2>3. /\ DOMAIN held' = DOMAIN held /\ \A r \in Services \ {s} : held'[r] = held[r]
        /\ held'[s] = [h EXCEPT !.private_tmp_paths = m, !.phase = "prepared", !.main = op.n]
    BY <1>1, <1>3, <2>2
  <2> HIDE DEF h
  <2> QED BY <2>1, <2>3
<1>8. /\ held'[s].phase = "prepared" /\ held'[s].main = op.n
      /\ held'[s].credential_directory = h.credential_directory
      /\ held'[s].directories = h.directories /\ held'[s].private_tmp_paths = m
      /\ held'[s].notify_path = h.notify_path /\ held'[s].cgroup_path = h.cgroup_path
  <2> HIDE DEF h, m
  <2> QED BY <1>7
<1>9. OpInv' /\ op'.svc = "" /\ op'.n = 0 /\ op'.step = "idle"
  BY <1>1, <1>2, IdleOp
<1>10. m \in {0, op.n} /\ m \in 0 .. starts
  BY <1>4
<1>11. Control'
  <2>1. Fields(held'[s], starts)
    <3>1. {op.n, m, 0} \subseteq 0 .. starts
      BY <1>4, <1>10
    <3> HIDE DEF h, m
    <3> QED BY <1>4, <1>5, <1>6, <1>7, <1>8, <3>1 DEF Fields, Phases
  <2>2. Uses(held'[s]) \subseteq {op.n}
    BY <1>8, <1>10 DEF Uses
  <2>3. ~ held'[s].cgroup_path /\ held'[s].phase = "prepared"
    BY <1>6, <1>8
  <2> HIDE DEF h, m
  <2> QED BY <1>1, <1>2, <1>3, <1>7, <1>9, <2>1, <2>2, <2>3, UpdateControl
<1>12. \A r \in Services : /\ held'[r].credential_directory = held[r].credential_directory
                           /\ held'[r].directories = held[r].directories
                           /\ held'[r].notify_path = held[r].notify_path
                           /\ held'[r].cgroup_path => held[r].cgroup_path /\ held'[r].main = held[r].main
                           /\ held'[r].phase = "listening" <=> held[r].phase = "listening"
                           /\ held'[r].phase = "listening" => held'[r].main = held[r].main
                           /\ held'[r].main \in {held[r].main, op.n}
                           /\ held'[r].phase = "prepared" => held[r].phase = "prepared" \/ held'[r].main = op.n
  BY <1>3, <1>6, <1>7, <1>8
<1>13. CredInv' /\ NotesInv' /\ SockInv'
  BY <1>1, <1>2, <1>4, <1>9, <1>12, SameCred, SameNotes, SameSock DEF Notified, Spawned
<1>14. DirsInv'
  BY <1>1, <1>2, <1>12, SameDirs DEF DirsInv, Bounds
<1>15. ProcsInv' /\ TreeInv' /\ OrphansEnd'
  <2>1. \A p \in tree.procs : p.n # op'.n
    BY <1>2, <1>4, <1>9, ProcNumbers
  <2> QED BY <1>1, <1>4, <1>9, <1>12, <2>1, SameTree DEF Spawned
<1>16. TmpsInv'
  <2>1. /\ plan' = plan /\ run' = run /\ up' = up /\ starts' = starts /\ Services' = Services
    BY <1>1, PlanKept DEF Bounds
  <2>2. run \in 1 .. run
    BY <1>4
  <2>3. ASSUME NEW t \in tmps'
        PROVE  /\ t = [svc |-> t.svc, n |-> t.n, run |-> t.run]
               /\ t.svc \in Services /\ t.n \in 1 .. starts /\ t.run \in 1 .. run
               /\ t.run = run => held'[t.svc].private_tmp_paths = t.n
    <3>1. CASE t \in tmps
      <4>1. /\ t = [svc |-> t.svc, n |-> t.n, run |-> t.run]
            /\ t.svc \in Services /\ t.n \in 1 .. starts /\ t.run \in 1 .. run
            /\ t.run = run => held[t.svc].private_tmp_paths = t.n
        BY <1>1, <1>2, <3>1 DEF TmpsInv, Made_by
      <4>2. t.n # 0
        BY <1>4, <4>1
      <4>3. t.run = run => t.svc # s
        BY <1>6, <4>1, <4>2
      <4> QED BY <1>7, <4>1, <4>3
    <3>2. CASE t \notin tmps
      <4>1. plan[s].private_tmp /\ t = [svc |-> s, n |-> op.n, run |-> run]
        BY <1>1, <2>3, <3>2
      <4> QED BY <1>3, <1>8, <2>2, <4>1
    <3> QED BY <3>1, <3>2
  <2>4. ASSUME NEW r \in Services, held'[r].private_tmp_paths # 0
        PROVE  \E t \in tmps' : t.svc = r /\ t.n = held'[r].private_tmp_paths
    <3>1. CASE r = s
      <4>1. plan[s].private_tmp /\ held'[s].private_tmp_paths = op.n
        BY <1>8, <2>4, <3>1
      <4>2. [svc |-> s, n |-> op.n, run |-> run] \in tmps'
        BY <1>1, <4>1
      <4> QED BY <3>1, <4>1, <4>2
    <3>2. CASE r # s
      <4>1. held'[r] = held[r]
        BY <1>7, <3>2
      <4>2. PICK t \in tmps : t.svc = r /\ t.n = held[r].private_tmp_paths
        BY <1>2, <2>4, <4>1 DEF TmpsInv
      <4>3. t \in tmps'
        BY <1>1, <4>2
      <4> QED BY <4>1, <4>2, <4>3
    <3> QED BY <3>1, <3>2
  <2> QED BY <2>1, <2>3, <2>4 DEF TmpsInv, Made_by
<1> QED BY <1>11, <1>13, <1>14, <1>15, <1>16 DEF FilesIInv, Control

LEMMA NotifyKeeps ==
  ASSUME FilesIInv, prepare_notify_socket, Remembered
  PROVE  FilesIInv'
<1>1. /\ op.step = "notify" /\ Go("cgroup") /\ Bounds /\ held' = held
      /\ notes' = notes \cup {[svc |-> op.svc, n |-> op.n, run |-> run]}
      /\ UNCHANGED <<cred, dirs, full, tmps, tree, sock>>
  BY DEF prepare_notify_socket, At, Bounds
<1>2. /\ op.step \in (Unspawned \cup Spawned) \ {"undo"} /\ "cgroup" \in Unspawned \cup Spawned
      /\ op.step \notin Spawned /\ "cgroup" \notin {"limits", "fork"} \cup Spawned
      /\ op.step \notin Notified /\ "cgroup" \in Notified
  BY <1>1 DEF Unspawned, Spawned, Notified
<1>3. /\ Control' /\ SameDaemon /\ op'.svc = op.svc /\ op'.n = op.n /\ op'.step = "cgroup"
      /\ op.svc \in Services /\ op.n \in 1 .. starts
      /\ CredInv' /\ TmpsInv' /\ SockInv' /\ DirsInv' /\ ProcsInv' /\ TreeInv' /\ OrphansEnd'
  BY <1>1, <1>2, GoKeeps
<1>4. NotesInv'
  <2>1. /\ plan' = plan /\ run' = run /\ up' = up /\ starts' = starts /\ Services' = Services
    BY <1>1, PlanKept DEF Bounds
  <2>2. run \in 1 .. run
    BY CountersAre DEF FilesIInv
  <2>3. ASSUME NEW x \in notes'
        PROVE  /\ x = [svc |-> x.svc, n |-> x.n, run |-> x.run]
               /\ x.svc \in Services /\ x.n \in 1 .. starts /\ x.run \in 1 .. run
               /\ up /\ x.run = run => held[x.svc].notify_path = x.n \/ (op'.svc = x.svc /\ op'.n = x.n)
    <3>1. CASE x \in notes
      BY <1>2, <3>1 DEF FilesIInv, NotesInv, Made_by, Notified
    <3>2. CASE x = [svc |-> op.svc, n |-> op.n, run |-> run]
      BY <1>3, <2>2, <3>2
    <3> QED BY <1>1, <3>1, <3>2
  <2> QED BY <1>1, <1>3, <2>1, <2>3 DEF NotesInv, Made_by
<1> QED BY <1>3, <1>4 DEF FilesIInv, Control

\* Listeners are bound, or released again.
LEMMA BindKeeps ==
  ASSUME SockInv, SameDaemon, starts \in Nat, NEW s \in Services, NEW xs \in SUBSET ToSet(plan[s].listeners),
         NEW n \in 0 .. starts, Bind(xs, n), \A r \in Services \ {s} : held'[r] = held[r],
         held'[s].phase = "listening" => held'[s].main = n /\ n # 0 /\ xs = ToSet(plan[s].listeners),
         n # 0 => held'[s].phase = "listening",
         held[s].phase # "listening"
  PROVE  SockInv'
<1>1. /\ Services' = Services /\ \A r \in Services : OwnListeners(r)' = OwnListeners(r)
      /\ 0 .. starts \subseteq 0 .. starts' /\ plan' = plan /\ run' = run /\ up' = up
  BY PlanKept DEF SameDaemon
<1>2. /\ DOMAIN sock' = DOMAIN sock
      /\ \A x \in DOMAIN sock : sock'[x] = IF x \in xs THEN n ELSE sock[x]
  BY DEF Bind
<1>3. DOMAIN sock = UNION {ToSet(plan[r].listeners) : r \in Services}
  BY DEF SockInv
<1>4. DOMAIN sock' = (UNION {ToSet(plan[r].listeners) : r \in Services})'
  BY <1>1, <1>2, <1>3
<1>5. \A r \in Services : /\ ToSet(plan[r].listeners) \subseteq DOMAIN sock
                          /\ OwnListeners(r) \subseteq ToSet(plan[r].listeners)
                          /\ r # s => OwnListeners(r) \cap xs = {}
  BY <1>3 DEF OwnListeners
<1>6. n # File /\ ~ (0 > 0)
  BY DEF File
<1>7. \A x \in DOMAIN sock' : sock'[x] \in {File} \cup 0 .. starts'
  BY <1>1, <1>2 DEF SockInv
<1>8. ASSUME NEW r \in Services
      PROVE  /\ held'[r].phase = "listening" => \A x \in ToSet(plan[r].listeners) : sock'[x] # File
             /\ \A x \in OwnListeners(r) :
                  /\ held'[r].phase = "listening" => sock'[x] = held'[r].main
                  /\ up /\ run = 1 /\ sock'[x] > 0 /\ plan[r].remove_on_stop => held'[r].phase = "listening"
  <2>1. CASE r = s
    <3>1. CASE held'[s].phase = "listening"
      BY <1>2, <1>5, <1>6, <2>1, <3>1
    <3>2. CASE held'[s].phase # "listening"
      <4>1. n = 0
        BY <3>2
      <4>2. \A x \in OwnListeners(s) : up /\ run = 1 /\ sock[x] > 0 /\ plan[s].remove_on_stop => FALSE
        BY DEF SockInv
      <4> QED BY <1>2, <1>5, <1>6, <2>1, <3>2, <4>1, <4>2
    <3> QED BY <3>1, <3>2
  <2>2. CASE r # s
    <3>1. held'[r] = held[r]
      BY <2>2
    <3>2. \A x \in OwnListeners(r) : sock'[x] = sock[x]
      BY <1>2, <1>5, <2>2
    <3>3. held[r].phase = "listening" => \A x \in ToSet(plan[r].listeners) : sock'[x] # File
      BY <1>2, <1>5, <1>6 DEF SockInv
    <3> QED BY <3>1, <3>2, <3>3 DEF SockInv
  <2> QED BY <2>1, <2>2
<1> QED BY <1>1, <1>4, <1>7, <1>8 DEF SockInv

LEMMA ListenersKeep ==
  ASSUME FilesIInv, open_listeners, Remembered
  PROVE  FilesIInv'
<1> DEFINE s == op.svc
           h == held[s]
           ls == plan[s].listeners
<1>1. /\ up /\ op.step = "listen" /\ Bounds
      /\ UNCHANGED <<cred, dirs, full, tmps, notes, tree>>
  BY DEF open_listeners, At, Bounds
<1>2. OpInv /\ HeldInv /\ CredInv /\ TmpsInv /\ NotesInv /\ SockInv /\ DirsInv /\ ProcsInv /\ Control
  BY DEF FilesIInv, Control
<1>3. /\ op.step \in Working /\ s \in Services /\ h.phase \in {"down", "prepared", "backoff"}
      /\ op.n \in 1 .. starts /\ plan \in Plans
  BY <1>1, <1>2 DEF OpInv, Working, Unspawned
<1>4. starts \in Nat /\ SameDaemon /\ op.n \in 0 .. starts /\ op.n # 0 /\ 0 \in 0 .. starts
  <2>1. starts \in Nat
    BY <1>2, CountersAre
  <2> QED BY <1>1, <1>3, <2>1 DEF SameDaemon, Bounds
<1>5. Fields(h, starts)
  BY <1>2, <1>3 DEF HeldInv
<1>6. h.notify_path = 0 /\ ~ h.cgroup_path
  BY <1>3, <1>5 DEF Fields
<1>7. CASE /\ Bind(ToSet(ls), op.n) /\ op' = Idle
           /\ held' = [held EXCEPT ![s].phase = "listening", ![s].main = op.n]
  <2>1. /\ DOMAIN held' = DOMAIN held /\ \A r \in Services \ {s} : held'[r] = held[r]
        /\ held'[s] = [phase |-> "listening", main |-> op.n, credential_directory |-> h.credential_directory,
                       directories |-> h.directories, private_tmp_paths |-> h.private_tmp_paths,
                       notify_path |-> h.notify_path, cgroup_path |-> h.cgroup_path]
    <3>1. h = [phase |-> h.phase, main |-> h.main, credential_directory |-> h.credential_directory,
               directories |-> h.directories, private_tmp_paths |-> h.private_tmp_paths,
               notify_path |-> h.notify_path, cgroup_path |-> h.cgroup_path]
      BY <1>2, <1>3, HeldIs
    <3>2. DOMAIN held = Services
      BY <1>2 DEF HeldInv
    <3>3. /\ DOMAIN held' = DOMAIN held /\ \A r \in Services \ {s} : held'[r] = held[r]
          /\ held'[s] = [h EXCEPT !.phase = "listening", !.main = op.n]
      BY <1>3, <1>7, <3>2
    <3> HIDE DEF h
    <3> QED BY <3>1, <3>3
  <2>2. /\ held'[s].phase = "listening" /\ held'[s].main = op.n
        /\ held'[s].credential_directory = h.credential_directory
        /\ held'[s].directories = h.directories /\ held'[s].private_tmp_paths = h.private_tmp_paths
        /\ held'[s].notify_path = h.notify_path /\ held'[s].cgroup_path = h.cgroup_path
    <3> HIDE DEF h
    <3> QED BY <2>1
  <2>3. OpInv' /\ op'.svc = "" /\ op'.n = 0 /\ op'.step = "idle"
    BY <1>1, <1>2, <1>7, IdleOp
  <2>4. Control'
    <3>1. Fields(held'[s], starts)
      <4>1. {op.n, h.private_tmp_paths, 0} \subseteq 0 .. starts
        BY <1>4, <1>5 DEF Fields
      <4> HIDE DEF h
      <4> QED BY <1>4, <1>5, <1>6, <2>1, <2>2, <4>1 DEF Fields, Phases
    <3>2. Uses(held'[s]) \subseteq Uses(h) \cup {op.n}
      BY <2>2 DEF Uses
    <3>3. ~ held'[s].cgroup_path /\ held'[s].phase = "listening"
      BY <1>6, <2>2
    <3> QED BY <1>1, <1>2, <1>3, <1>7, <2>1, <2>3, <3>1, <3>2, <3>3, UpdateControl
  <2>5. \A r \in Services : /\ held'[r].credential_directory = held[r].credential_directory
                            /\ held'[r].directories = held[r].directories
                            /\ held'[r].private_tmp_paths = held[r].private_tmp_paths
                            /\ held'[r].notify_path = held[r].notify_path
                            /\ held'[r].cgroup_path => held[r].cgroup_path /\ held'[r].main = held[r].main
                            /\ held'[r].main \in {held[r].main, op.n}
                            /\ held'[r].phase = "prepared" => held[r].phase = "prepared"
    BY <1>3, <1>6, <2>1, <2>2
  <2>6. CredInv' /\ TmpsInv' /\ NotesInv'
    BY <1>1, <1>2, <1>4, <2>3, <2>5, SameCred, SameTmps, SameNotes DEF Notified, Spawned
  <2>7. DirsInv'
    BY <1>1, <1>2, <2>5, SameDirs DEF DirsInv, Bounds
  <2>8. SockInv'
    BY <1>2, <1>3, <1>4, <1>7, <2>1, <2>2, BindKeeps
  <2>9. ProcsInv' /\ TreeInv' /\ OrphansEnd'
    <3>1. \A p \in tree.procs : p.n # op'.n
      BY <1>2, <1>4, <2>3, ProcNumbers
    <3> QED BY <1>1, <1>4, <2>3, <2>5, <3>1, SameTree DEF Spawned
  <2> QED BY <2>4, <2>6, <2>7, <2>8, <2>9 DEF FilesIInv, Control
<1>8. ASSUME NEW k \in 0 .. Len(ls), Bind({ls[i] : i \in 1 .. k}, None), held' = held, Go("undo")
      PROVE  FilesIInv'
  <2>1. {ls[i] : i \in 1 .. k} \subseteq ToSet(ls)
    <3>1. ls \in Seq(Names)
      BY <1>3, PlansAssumption DEF Services, Descriptor, Path
    <3> QED BY <3>1, <1>8 DEF ToSet
  <2>2. /\ op.step \in (Unspawned \cup Spawned) \ {"undo"} /\ "undo" \in Unspawned \cup Spawned
        /\ op.step \notin Spawned /\ "undo" \notin {"limits", "fork"} \cup Spawned
        /\ op.step \notin Notified
    BY <1>1 DEF Unspawned, Spawned, Notified
  <2>3. /\ Control' /\ CredInv' /\ TmpsInv' /\ NotesInv' /\ DirsInv'
        /\ ProcsInv' /\ TreeInv' /\ OrphansEnd'
    BY <1>1, <1>8, <2>2, GoKeeps
  <2>4. SockInv'
    <3> DEFINE xs == {ls[i] : i \in 1 .. k}
    <3>1. Bind(xs, 0)
      BY <1>8 DEF None
    <3>2. xs \in SUBSET ToSet(ls)
      BY <2>1
    <3>3. held[s].phase # "listening"
      BY <1>3
    <3> HIDE DEF xs
    <3> QED BY <1>2, <1>3, <1>4, <1>8, <3>1, <3>2, <3>3, BindKeeps
  <2> QED BY <2>3, <2>4 DEF FilesIInv, Control
<1> QED BY <1>7, <1>8 DEF open_listeners

-----------------------------------------------------------------------------
(***************************************************************************)
(* Control groups and processes.                                           *)
(***************************************************************************)

\* A step of spawn_main before the process exists.
LEMMA GroupStep ==
  ASSUME FilesIInv, plan' = plan, run' = run, up' = up, starts' = starts, held' = held,
         op'.svc = op.svc, op'.n = op.n, op.svc \in Services, op.step \notin Spawned,
         TreeOK(tree'), tree'.procs = tree.procs,
         \A r \in Services : Limits(tree, r) => Limits(tree', r),
         op'.step \in {"limits", "fork"},
         wants_cgroup(op.svc) => Group(op.svc) \in tree'.dirs,
         op'.step = "fork" /\ wants_cgroup(op.svc) => Limits(tree', op.svc),
         op'.step = "limits" => wants_cgroup(op.svc)
  PROVE  ProcsInv' /\ TreeInv' /\ OrphansEnd'
<1>1. /\ Services' = Services /\ Groups' = Groups /\ looks_for_orphans' = looks_for_orphans
      /\ \A r \in Services : /\ wants_cgroup(r)' = wants_cgroup(r) /\ Group(r)' = Group(r)
                             /\ Inner(r)' = Inner(r)
  BY PlanKept
<1>2. ProcsInv /\ TreeInv
  BY DEF FilesIInv
<1>3. op'.step \notin Spawned
  BY DEF Spawned
<1>4. ProcsInv'
  <2>1. ASSUME NEW p \in tree.procs
        PROVE  /\ p = [svc |-> p.svc, n |-> p.n, run |-> p.run, role |-> p.role, cg |-> p.cg]
               /\ p.svc \in Services /\ p.n \in 1 .. starts /\ p.run \in 1 .. run
               /\ p.role \in {"main", "child"}
               /\ p.cg \in {Elsewhere, Group(p.svc)} \/ (p.cg = Inner(p.svc) /\ plan[p.svc].delegate # {})
               /\ p.n # op.n
               /\ \A r \in Services : p.n = held[r].main => p.svc = r /\ held[r].phase # "prepared"
    BY <1>2 DEF ProcsInv
  <2>2. \A p, q \in tree.procs : p.n = q.n /\ p.role = "main" /\ q.role = "main" => p = q
    BY <1>2 DEF ProcsInv
  <2> QED BY <1>1, <2>1, <2>2 DEF ProcsInv
<1>5. TreeInv'
  <2>1. TreeOK(tree)'
    BY <1>1 DEF TreeOK
  <2>2. \A r \in Services : Limits(tree', r) => Limits(tree, r)'
    BY <1>1 DEF Limits
  <2>3. ASSUME NEW r \in Services, held'[r].cgroup_path
        PROVE  Limits(tree, r)' /\ Inside(r, held[r].main)'
    BY <1>1, <1>2, <2>2, <2>3 DEF TreeInv, Inside, Main
  <2>4. /\ wants_cgroup(op.svc)' = wants_cgroup(op.svc) /\ Group(op.svc)' = Group(op.svc)
        /\ Limits(tree', op.svc) => Limits(tree, op.svc)'
    BY <1>1 DEF wants_cgroup, Group, Limits
  <2> QED BY <1>1, <1>3, <2>1, <2>2, <2>3, <2>4 DEF TreeInv, Spawned
<1>6. OrphansEnd'
  BY <1>1 DEF FilesIInv, OrphansEnd
<1> QED BY <1>4, <1>5, <1>6

\* The group of a service, and those above it, are made.
LEMMA MakeDirectoriesIs ==
  ASSUME plan \in Plans, NEW s \in Services, TreeOK(tree), NEW t, t = MakeDirectories(tree, Group(s))
  PROVE  /\ TreeOK(t) /\ t.procs = tree.procs /\ Group(s) \in t.dirs
         /\ \A r \in Services : Limits(tree, r) => Limits(t, r)
<1>1. Whole(tree)
  BY DEF TreeOK, Whole
<1>2. t = [dirs |-> tree.dirs \cup Ancestors(Group(s)) \cup {Group(s)}, filtered |-> tree.filtered,
           procs |-> tree.procs, enabled |-> tree.enabled]
  BY <1>1 DEF MakeDirectories, Whole
<1>3. /\ Whole(t) /\ t.dirs = tree.dirs \cup Ancestors(Group(s)) \cup {Group(s)}
      /\ t.filtered = tree.filtered /\ t.procs = tree.procs /\ t.enabled = tree.enabled
  BY <1>2 DEF Whole
<1>4. Group(s) \in Groups /\ Ancestors(Group(s)) \subseteq Groups /\ Group(s) \in Path
  BY ServiceGroups, GroupsClosed
<1>5. ASSUME NEW a \in Ancestors(Group(s)) PROVE Ancestors(a) \subseteq Ancestors(Group(s))
  <2>1. a \in Path
    BY <1>4, <1>5, GroupsClosed
  <2>2. \A b \in Ancestors(a) : b \in Path
    BY <2>1, AncestorIs DEF Path
  <2> QED BY <1>4, <1>5, <2>1, <2>2, WithinOrder DEF Path
<1>6. \A g \in t.dirs : Ancestors(g) \subseteq t.dirs
  BY <1>3, <1>5 DEF TreeOK
<1>7. ASSUME NEW r \in Services, Inner(r) \in t.dirs PROVE plan[r].delegate # {}
  <2>1. CASE Inner(r) \in tree.dirs
    BY <2>1 DEF TreeOK
  <2>2. CASE Inner(r) \in Ancestors(Group(s)) \cup {Group(s)}
    <3>1. r # s
      BY <2>2, ServiceGroups
    <3>2. Inner(r) \in Path /\ Group(r) \in Path /\ Within(Group(r), Inner(r))
      BY ServiceGroups
    <3>3. Within(Inner(r), Group(s))
      BY <1>4, <2>2, <3>2, WithinOrder DEF Path, Below
    <3>4. Within(Group(r), Group(s))
      BY <1>4, <3>2, <3>3, WithinOrder DEF Path
    <3> QED BY <3>1, <3>4, GroupsApart
  <2> QED BY <1>3, <1>7, <2>1, <2>2
<1>8. TreeOK(t)
  BY <1>3, <1>4, <1>6, <1>7 DEF TreeOK, Whole
<1> QED BY <1>3, <1>8 DEF Limits

LEMMA CreateCgroupKeeps ==
  ASSUME FilesIInv, CreateCgroup, Remembered
  PROVE  FilesIInv'
<1>1. PICK t \in {"limits", "fork"} :
        /\ op.step = "cgroup" /\ Go(t) /\ Bounds /\ held' = held
        /\ UNCHANGED <<cred, dirs, full, tmps, notes, sock>>
        /\ \/ t = "limits" /\ wants_cgroup(op.svc) /\ tree' = MakeDirectories(tree, Group(op.svc))
           \/ t = "fork" /\ ~ wants_cgroup(op.svc) /\ tree' = tree
  BY DEF CreateCgroup, At, Bounds
<1>2. /\ op.step \in (Unspawned \cup Spawned) \ {"undo"} /\ t \in Unspawned \cup Spawned
      /\ op.step \notin Spawned /\ t \in Notified
  BY <1>1 DEF Unspawned, Spawned, Notified
<1>3. /\ Control' /\ SameDaemon /\ op'.svc = op.svc /\ op'.n = op.n /\ op'.step = t /\ op.svc \in Services
      /\ CredInv' /\ TmpsInv' /\ NotesInv' /\ SockInv' /\ DirsInv'
  BY <1>1, <1>2, GoKeeps
<1>4. TreeOK(tree) /\ plan \in Plans
  BY DEF FilesIInv, TreeInv, OpInv
<1>5. /\ TreeOK(tree') /\ tree'.procs = tree.procs
      /\ \A r \in Services : Limits(tree, r) => Limits(tree', r)
      /\ wants_cgroup(op.svc) => Group(op.svc) \in tree'.dirs
  <2>1. CASE tree' = tree /\ ~ wants_cgroup(op.svc)
    BY <1>4, <2>1
  <2>2. CASE tree' = MakeDirectories(tree, Group(op.svc))
    BY <1>3, <1>4, <2>2, MakeDirectoriesIs
  <2> QED BY <1>1, <2>1, <2>2
<1>6. ProcsInv' /\ TreeInv' /\ OrphansEnd'
  BY <1>1, <1>2, <1>3, <1>5, GroupStep DEF Bounds
<1> QED BY <1>3, <1>6 DEF FilesIInv, Control

LEMMA PrepareCgroupKeeps ==
  ASSUME FilesIInv, prepare_cgroup, Remembered
  PROVE  FilesIInv'
<1>1. /\ op.step = "limits" /\ Go("fork") /\ Bounds /\ held' = held /\ tree' = Limited(op.svc)
      /\ UNCHANGED <<cred, dirs, full, tmps, notes, sock>>
      /\ plan[op.svc].controllers \subseteq Host
  BY DEF prepare_cgroup, At, Bounds, CanEnable
<1>2. /\ op.step \in (Unspawned \cup Spawned) \ {"undo"} /\ "fork" \in Unspawned \cup Spawned
      /\ op.step \notin Spawned /\ "fork" \in Notified
  BY <1>1 DEF Unspawned, Spawned, Notified
<1>3. /\ Control' /\ SameDaemon /\ op'.svc = op.svc /\ op'.n = op.n /\ op'.step = "fork" /\ op.svc \in Services
      /\ CredInv' /\ TmpsInv' /\ NotesInv' /\ SockInv' /\ DirsInv'
  BY <1>1, <1>2, GoKeeps
<1>4. TreeOK(tree) /\ plan \in Plans /\ wants_cgroup(op.svc) /\ Group(op.svc) \in tree.dirs
  BY <1>1 DEF FilesIInv, TreeInv, OpInv
<1>5. /\ tree'.dirs = tree.dirs /\ tree'.procs = tree.procs
      /\ tree'.filtered = tree.filtered \cup (IF plan[op.svc].devices THEN {Group(op.svc)} ELSE {})
      /\ \A a \in Ancestors(Group(op.svc)) : plan[op.svc].controllers \subseteq tree'.enabled[a]
  BY <1>1, <1>3, <1>4, LimitedIs
<1>6. Shrunk(tree', op.svc)
  BY <1>1, <1>3, <1>4, ShrunkLimited
<1>7. Limits(tree', op.svc)
  BY <1>4, <1>5 DEF Limits
<1>8. TreeOK(tree') /\ \A r \in Services : Limits(tree, r) => Limits(tree', r)
  BY <1>6, <1>7 DEF Shrunk
<1>9. ProcsInv' /\ TreeInv' /\ OrphansEnd'
  BY <1>1, <1>2, <1>3, <1>4, <1>5, <1>7, <1>8, GroupStep DEF Bounds
<1> QED BY <1>3, <1>9 DEF FilesIInv, Control

\* A process that may be in the tree.
ProcOK(q) ==
  /\ q = [svc |-> q.svc, n |-> q.n, run |-> q.run, role |-> q.role, cg |-> q.cg]
  /\ q.svc \in Services /\ q.n \in 1 .. starts /\ q.run \in 1 .. run
  /\ q.role \in {"main", "child"}
  /\ q.cg \in {Elsewhere, Group(q.svc)} \/ (q.cg = Inner(q.svc) /\ plan[q.svc].delegate # {})

\* A process that may join them.
Joins(q) ==
  /\ ProcOK(q)
  /\ q.n = op.n => op'.step \in Spawned /\ q.svc = op.svc /\ q.run = run
  /\ \A r \in Services : q.n = held[r].main =>
        /\ q.svc = r
        /\ held[r].phase = "prepared" => op.svc = r /\ op'.step \in Spawned
        /\ held[r].cgroup_path /\ q.role = "main" => q.cg \in {Group(r), Inner(r)}
  /\ q.run < run /\ q.cg # Elsewhere /\ up /\ looks_for_orphans => plan[q.svc].delegate # {}

\* Processes appear, move and end.
LEMMA ProcsStep ==
  ASSUME FilesIInv, plan' = plan, run' = run, up' = up, starts' = starts, held' = held,
         op'.svc = op.svc, op'.n = op.n,
         op'.step = op.step \/ (op.step \in {"fork"} \cup Spawned /\ op'.step \in Spawned),
         op.step \in Working => op.svc \in Services,
         NEW old, NEW new, tree'.procs = (tree.procs \ old) \cup new,
         \A q \in new : Joins(q),
         \A q \in new : \A p \in (tree.procs \ old) \cup new :
            q.role = "main" /\ p.role = "main" /\ p.n = q.n => p = q,
         TreeOK(tree'), tree.dirs \subseteq tree'.dirs,
         \A r \in Services : Limits(tree, r) => Limits(tree', r),
         op'.step = "register" /\ wants_cgroup(op.svc) =>
            \A p \in tree'.procs : p.n = op.n /\ p.role = "main" => p.cg \in {Group(op.svc), Inner(op.svc)}
  PROVE  ProcsInv' /\ TreeInv' /\ OrphansEnd'
<1>1. /\ Services' = Services /\ Groups' = Groups /\ looks_for_orphans' = looks_for_orphans
      /\ \A r \in Services : /\ wants_cgroup(r)' = wants_cgroup(r) /\ Group(r)' = Group(r)
                             /\ Inner(r)' = Inner(r)
  BY PlanKept
<1>2. ProcsInv /\ TreeInv
  BY DEF FilesIInv
<1>3. op.step \in Spawned => op'.step \in Spawned
  OBVIOUS
<1>4. ASSUME NEW p \in tree'.procs
      PROVE  Joins(p)
  <2>1. CASE p \in new
    BY <2>1
  <2>2. CASE p \in tree.procs
    <3>1. ProcOK(p)
      BY <1>2, <2>2 DEF ProcsInv, ProcOK
    <3>2. /\ p.n = op.n => op.step \in Spawned /\ p.svc = op.svc /\ p.run = run
          /\ \A r \in Services : p.n = held[r].main => p.svc = r
          /\ \A r \in Services : p.n = held[r].main /\ held[r].phase = "prepared" => op.svc = r /\ op.step \in Spawned
      BY <1>2, <2>2 DEF ProcsInv
    <3>3. \A r \in Services : p.n = held[r].main /\ held[r].cgroup_path /\ p.role = "main" => p.cg \in {Group(r), Inner(r)}
      BY <1>2, <2>2 DEF TreeInv, Inside, Main
    <3>4. p.run < run /\ p.cg # Elsewhere /\ up /\ looks_for_orphans => plan[p.svc].delegate # {}
      BY <2>2 DEF FilesIInv, OrphansEnd
    <3> QED BY <1>3, <3>1, <3>2, <3>3, <3>4 DEF Joins
  <2> QED BY <1>4, <2>1, <2>2
<1>5. ProcsInv'
  <2>1. \A p, q \in tree'.procs : p.n = q.n /\ p.role = "main" /\ q.role = "main" => p = q
    BY <1>2 DEF ProcsInv
  <2>2. ASSUME NEW p \in tree'.procs
        PROVE  /\ p = [svc |-> p.svc, n |-> p.n, run |-> p.run, role |-> p.role, cg |-> p.cg]
               /\ p.svc \in Services /\ p.n \in 1 .. starts /\ p.run \in 1 .. run
               /\ p.role \in {"main", "child"}
               /\ p.cg \in {Elsewhere, Group(p.svc)} \/ (p.cg = Inner(p.svc) /\ plan[p.svc].delegate # {})
    BY <1>4, <2>2 DEF ProcOK, Joins
  <2>3. ASSUME NEW p \in tree'.procs
        PROVE  /\ p.n = op.n => op'.step \in Spawned /\ p.svc = op.svc /\ p.run = run
               /\ \A r \in Services : p.n = held[r].main =>
                     p.svc = r /\ (held[r].phase = "prepared" => op.svc = r /\ op'.step \in Spawned)
    BY <1>4, <2>3 DEF Joins
  <2> QED BY <1>1, <2>1, <2>2, <2>3 DEF ProcsInv
<1>6. TreeInv'
  <2>1. TreeOK(tree)'
    BY <1>1 DEF TreeOK
  <2>2. \A r \in Services : Limits(tree', r) => Limits(tree, r)'
    BY <1>1 DEF Limits
  <2>3. ASSUME NEW r \in Services, held'[r].cgroup_path
        PROVE  Limits(tree, r)' /\ Inside(r, held[r].main)'
    <3>1. Limits(tree, r)'
      BY <1>2, <2>2, <2>3 DEF TreeInv
    <3>2. \A p \in tree'.procs : p.n = held[r].main /\ p.role = "main" => p.cg \in {Group(r), Inner(r)}
      BY <1>4, <2>3 DEF Joins
    <3> QED BY <1>1, <3>1, <3>2 DEF Inside, Main
  <2>4. op'.step \in {"limits", "fork"} \cup Spawned => op.svc \in Services
    BY DEF Working, Unspawned, Spawned
  <2>5. /\ wants_cgroup(op.svc)' = wants_cgroup(op.svc) /\ Group(op.svc)' = Group(op.svc)
        /\ Inner(op.svc)' = Inner(op.svc)
        /\ Limits(tree', op.svc) => Limits(tree, op.svc)'
    BY <1>1 DEF wants_cgroup, Group, Inner, Limits
  <2>6. op'.step \in {"fork"} \cup Spawned /\ wants_cgroup(op.svc) => Limits(tree, op.svc)'
    BY <1>2, <2>4, <2>5 DEF TreeInv, Spawned
  <2>7. op'.step \in {"limits", "fork"} \cup Spawned /\ wants_cgroup(op.svc) => Group(op.svc) \in tree'.dirs
    <3>1. op'.step \in {"fork"} \cup Spawned \/ op'.step = "limits" => op.step \in {"limits", "fork"} \cup Spawned
      BY DEF Spawned
    <3>2. op.step \in {"limits", "fork"} \cup Spawned /\ wants_cgroup(op.svc) => Group(op.svc) \in tree.dirs
      BY <1>2 DEF TreeInv
    <3> QED BY <3>1, <3>2
  <2>8. op'.step = "limits" => wants_cgroup(op.svc)
    BY <1>2 DEF TreeInv, Spawned
  <2>9. op'.step = "register" /\ wants_cgroup(op.svc) => Inside(op.svc, op.n)'
    BY <1>1, <2>5 DEF Inside, Main
  <2> QED BY <1>1, <2>1, <2>3, <2>5, <2>6, <2>7, <2>8, <2>9 DEF TreeInv
<1>7. OrphansEnd'
  BY <1>1, <1>4 DEF OrphansEnd, Joins
<1> QED BY <1>5, <1>6, <1>7

\* A step that leaves the supervisor and the files alone.
LEMMA StillKeeps ==
  ASSUME FilesIInv, UNCHANGED <<plan, up, run, starts, op, held, cred, dirs, tmps, notes, sock>>,
         full' \subseteq dirs, Remembered \/ made' = made
  PROVE  /\ Control' /\ CredInv' /\ TmpsInv' /\ NotesInv' /\ SockInv' /\ DirsInv'
         /\ tree' = tree => FilesIInv'
<1>1. /\ Services' = Services /\ Groups' = Groups /\ looks_for_orphans' = looks_for_orphans
      /\ \A r \in Services : /\ wants_cgroup(r)' = wants_cgroup(r) /\ Group(r)' = Group(r)
                             /\ Inner(r)' = Inner(r) /\ OwnListeners(r)' = OwnListeners(r)
                             /\ Listed(r)' = Listed(r)
  BY PlanKept
<1>2. OpInv'
  BY <1>1 DEF FilesIInv, OpInv
<1>3. HeldInv' /\ NumbersInv'
  BY <1>1 DEF FilesIInv, HeldInv, NumbersInv
<1>4. CredInv' /\ TmpsInv' /\ NotesInv'
  BY <1>1 DEF FilesIInv, CredInv, TmpsInv, NotesInv, Made_by
<1>5. SockInv'
  BY <1>1 DEF FilesIInv, SockInv
<1>6. DirsInv'
  <2>1. CASE made' = made
    BY <1>1, <2>1 DEF FilesIInv, DirsInv
  <2> QED BY <2>1, SameDirs DEF FilesIInv
<1>7. ASSUME tree' = tree PROVE ProcsInv' /\ TreeInv' /\ OrphansEnd'
  <2>1. ProcsInv'
    BY <1>1, <1>7 DEF FilesIInv, ProcsInv
  <2>2. TreeOK(tree)' /\ \A r \in Services : Limits(tree, r)' = Limits(tree, r)
    BY <1>1, <1>7 DEF FilesIInv, TreeInv, TreeOK, Limits
  <2>3. /\ wants_cgroup(op.svc)' = wants_cgroup(op.svc) /\ Group(op.svc)' = Group(op.svc)
        /\ Inner(op.svc)' = Inner(op.svc) /\ Limits(tree, op.svc)' = Limits(tree, op.svc)
    BY <1>7 DEF wants_cgroup, Group, Inner, Limits
  <2>4. /\ \A r \in Services : Inside(r, held[r].main)' = Inside(r, held[r].main)
        /\ Inside(op.svc, op.n)' = Inside(op.svc, op.n)
    BY <1>1, <1>7, <2>3 DEF Inside, Main
  <2>5. TreeInv'
    BY <1>1, <1>7, <2>2, <2>3, <2>4 DEF FilesIInv, TreeInv
  <2>6. OrphansEnd'
    BY <1>1, <1>7 DEF FilesIInv, OrphansEnd
  <2> QED BY <2>1, <2>5, <2>6
<1> QED BY <1>2, <1>3, <1>4, <1>5, <1>6, <1>7 DEF FilesIInv, Control

\* The processes change and the groups do not.
LEMMA ProcsOnly ==
  ASSUME TreeOK(tree), NEW ps, NEW t, t = [tree EXCEPT !.procs = ps],
         \A p \in ps : p.cg \in tree.dirs \cup {Elsewhere}
  PROVE  /\ TreeOK(t) /\ t.procs = ps /\ t.dirs = tree.dirs /\ tree.dirs \subseteq t.dirs
         /\ \A r \in Services : Limits(tree, r) => Limits(t, r)
<1>1. tree = [dirs |-> tree.dirs, filtered |-> tree.filtered, procs |-> tree.procs, enabled |-> tree.enabled]
  BY DEF TreeOK
<1>2. t = [dirs |-> tree.dirs, filtered |-> tree.filtered, procs |-> ps, enabled |-> tree.enabled]
  BY <1>1
<1>3. /\ t.dirs = tree.dirs /\ t.filtered = tree.filtered /\ t.procs = ps /\ t.enabled = tree.enabled
  BY <1>2
<1>4. TreeOK(t)
  BY <1>2, <1>3 DEF TreeOK
<1> QED BY <1>3, <1>4 DEF Limits

LEMMA EndKeeps ==
  ASSUME FilesIInv, NEW p \in tree.procs, End(p), Remembered
  PROVE  FilesIInv'
<1>1. /\ UNCHANGED <<plan, up, run, starts, op, held, cred, dirs, full, tmps, notes, sock>>
      /\ tree' = [tree EXCEPT !.procs = tree.procs \ {p}]
  BY DEF End
<1>2. TreeOK(tree) /\ OpInv
  BY DEF FilesIInv, TreeInv
<1>3. /\ TreeOK(tree') /\ tree'.procs = tree.procs \ {p} /\ tree.dirs \subseteq tree'.dirs
      /\ \A r \in Services : Limits(tree, r) => Limits(tree', r)
  BY <1>1, <1>2, ProcsOnly DEF TreeOK
<1>4. Control' /\ CredInv' /\ TmpsInv' /\ NotesInv' /\ SockInv' /\ DirsInv'
  BY <1>1, StillKeeps DEF FilesIInv, DirsInv
<1>5. op.step \in Working => op.svc \in Services
  BY <1>2 DEF OpInv
<1>6. op'.step = "register" /\ wants_cgroup(op.svc) =>
         \A q \in tree'.procs : q.n = op.n /\ q.role = "main" => q.cg \in {Group(op.svc), Inner(op.svc)}
  BY <1>1, <1>3 DEF FilesIInv, TreeInv, Inside, Main
<1>7. ProcsInv' /\ TreeInv' /\ OrphansEnd'
  <2> DEFINE old == {p}
             new == {}
  <2>1. tree'.procs = (tree.procs \ old) \cup new
    BY <1>3
  <2>2. \A q \in new : Joins(q)
    OBVIOUS
  <2>3. \A q \in new : \A x \in (tree.procs \ old) \cup new :
           q.role = "main" /\ x.role = "main" /\ x.n = q.n => x = q
    OBVIOUS
  <2>4. op'.step = op.step \/ (op.step \in {"fork"} \cup Spawned /\ op'.step \in Spawned)
    BY <1>1
  <2>5. /\ plan' = plan /\ run' = run /\ up' = up /\ starts' = starts /\ held' = held
        /\ op'.svc = op.svc /\ op'.n = op.n
    BY <1>1
  <2> HIDE DEF old, new
  <2>6. /\ TreeOK(tree') /\ tree.dirs \subseteq tree'.dirs
        /\ \A r \in Services : Limits(tree, r) => Limits(tree', r)
    BY <1>3
  <2> QED BY <1>5, <1>6, <2>1, <2>2, <2>3, <2>4, <2>5, <2>6, ProcsStep
<1> QED BY <1>4, <1>7 DEF FilesIInv, Control

LEMMA ForkChildKeeps ==
  ASSUME FilesIInv, NEW p \in tree.procs, ForkChild(p), Remembered
  PROVE  FilesIInv'
<1> DEFINE c == [p EXCEPT !.role = "child"]
<1>1. /\ UNCHANGED <<plan, up, run, starts, op, held, cred, dirs, full, tmps, notes, sock>>
      /\ tree' = [tree EXCEPT !.procs = tree.procs \cup {c}]
  BY DEF ForkChild
<1>2. TreeOK(tree) /\ OpInv /\ ProcsInv
  BY DEF FilesIInv, TreeInv
<1>3. ProcOK(p)
  BY <1>2 DEF ProcsInv, ProcOK
<1>4. /\ c = [svc |-> p.svc, n |-> p.n, run |-> p.run, role |-> "child", cg |-> p.cg]
      /\ c.svc = p.svc /\ c.n = p.n /\ c.run = p.run /\ c.role = "child" /\ c.cg = p.cg
  <2>1. p = [svc |-> p.svc, n |-> p.n, run |-> p.run, role |-> p.role, cg |-> p.cg]
    BY <1>3 DEF ProcOK
  <2>2. c = [svc |-> p.svc, n |-> p.n, run |-> p.run, role |-> "child", cg |-> p.cg]
    BY <2>1
  <2> HIDE DEF c
  <2> QED BY <2>2
<1> HIDE DEF c
<1>5. ProcOK(c)
  BY <1>3, <1>4 DEF ProcOK
<1>6. /\ TreeOK(tree') /\ tree'.procs = tree.procs \cup {c} /\ tree.dirs \subseteq tree'.dirs
      /\ \A r \in Services : Limits(tree, r) => Limits(tree', r)
  BY <1>1, <1>2, <1>4, ProcsOnly DEF TreeOK
<1>7. Control' /\ CredInv' /\ TmpsInv' /\ NotesInv' /\ SockInv' /\ DirsInv'
  BY <1>1, StillKeeps DEF FilesIInv, DirsInv
<1>8. op.step \in Working => op.svc \in Services
  BY <1>2 DEF OpInv
<1>9. op'.step = "register" /\ wants_cgroup(op.svc) =>
         \A q \in tree'.procs : q.n = op.n /\ q.role = "main" => q.cg \in {Group(op.svc), Inner(op.svc)}
  BY <1>1, <1>4, <1>6 DEF FilesIInv, TreeInv, Inside, Main
<1>10. /\ c.n = op.n => op'.step \in Spawned /\ c.svc = op.svc /\ c.run = run
       /\ \A r \in Services : c.n = held[r].main =>
             /\ c.svc = r
             /\ held[r].phase = "prepared" => op.svc = r /\ op'.step \in Spawned
       /\ c.run < run /\ c.cg # Elsewhere /\ up /\ looks_for_orphans => plan[c.svc].delegate # {}
  BY <1>1, <1>2, <1>4 DEF ProcsInv, FilesIInv, OrphansEnd
<1>11. ProcsInv' /\ TreeInv' /\ OrphansEnd'
  <2> DEFINE old == {}
             new == {c}
  <2>1. tree'.procs = (tree.procs \ old) \cup new
    BY <1>6
  <2>2. \A q \in new : Joins(q)
    BY <1>4, <1>5, <1>10 DEF Joins
  <2>3. \A q \in new : \A x \in (tree.procs \ old) \cup new :
           q.role = "main" /\ x.role = "main" /\ x.n = q.n => x = q
    BY <1>4
  <2>4. op'.step = op.step \/ (op.step \in {"fork"} \cup Spawned /\ op'.step \in Spawned)
    BY <1>1
  <2>5. /\ plan' = plan /\ run' = run /\ up' = up /\ starts' = starts /\ held' = held
        /\ op'.svc = op.svc /\ op'.n = op.n
    BY <1>1
  <2> HIDE DEF old, new
  <2> QED BY <1>6, <1>8, <1>9, <2>1, <2>2, <2>3, <2>4, <2>5, ProcsStep
<1> QED BY <1>7, <1>11 DEF FilesIInv, Control

\* Files are written to directories that exist.
LEMMA WriteFileKeeps ==
  ASSUME FilesIInv, NEW p \in tree.procs, WriteFile(p), Remembered
  PROVE  FilesIInv'
<1>1. /\ UNCHANGED <<plan, up, run, starts, op, held, cred, dirs, tmps, notes, tree, sock>>
      /\ full' \subseteq dirs
  BY DEF WriteFile, FilesIInv, DirsInv
<1> QED BY <1>1, StillKeeps

\* A process changes its group.
LEMMA MovedIs ==
  ASSUME NEW p, ProcOK(p), NEW g, NEW c, c = [p EXCEPT !.cg = g]
  PROVE  /\ c = [svc |-> c.svc, n |-> c.n, run |-> c.run, role |-> c.role, cg |-> c.cg]
         /\ c.svc = p.svc /\ c.n = p.n /\ c.run = p.run /\ c.role = p.role /\ c.cg = g
<1>1. p = [svc |-> p.svc, n |-> p.n, run |-> p.run, role |-> p.role, cg |-> p.cg]
  BY DEF ProcOK
<1>2. c = [svc |-> p.svc, n |-> p.n, run |-> p.run, role |-> p.role, cg |-> g]
  BY <1>1
<1> QED BY <1>2

LEMMA MoveDownKeeps ==
  ASSUME FilesIInv, NEW p \in tree.procs, MoveDown(p), Remembered
  PROVE  FilesIInv'
<1> DEFINE g == Inner(p.svc)
           c == [p EXCEPT !.cg = g]
<1>1. /\ UNCHANGED <<plan, up, run, starts, op, held, cred, dirs, full, tmps, notes, sock>>
      /\ p.cg # Elsewhere /\ plan[p.svc].delegate # {} /\ p.cg = Group(p.svc)
      /\ tree' = attach_to_cgroup([tree EXCEPT !.dirs = tree.dirs \cup {g}], p, g)
  BY DEF MoveDown
<1>2. TreeOK(tree) /\ OpInv /\ ProcsInv /\ plan \in Plans
  BY DEF FilesIInv, TreeInv, OpInv
<1>3. ProcOK(p) /\ p.svc \in Services
  BY <1>2 DEF ProcsInv, ProcOK
<1>4. /\ c = [svc |-> c.svc, n |-> c.n, run |-> c.run, role |-> c.role, cg |-> c.cg]
      /\ c.svc = p.svc /\ c.n = p.n /\ c.run = p.run /\ c.role = p.role /\ c.cg = g
  BY <1>3, MovedIs
<1>5. tree' = [dirs |-> tree.dirs \cup {g}, filtered |-> tree.filtered,
               procs |-> (tree.procs \ {p}) \cup {c}, enabled |-> tree.enabled]
  <2>1. tree = [dirs |-> tree.dirs, filtered |-> tree.filtered, procs |-> tree.procs, enabled |-> tree.enabled]
    BY <1>2 DEF TreeOK
  <2> HIDE DEF g
  <2>2. tree' = [[tree EXCEPT !.dirs = tree.dirs \cup {g}] EXCEPT !.procs = (@ \ {p}) \cup {c}]
    BY <1>1 DEF attach_to_cgroup
  <2> HIDE DEF c
  <2> QED BY <2>1, <2>2
<1> HIDE DEF c
<1>6. /\ tree'.dirs = tree.dirs \cup {g} /\ tree'.filtered = tree.filtered
      /\ tree'.procs = (tree.procs \ {p}) \cup {c} /\ tree'.enabled = tree.enabled
  BY <1>5
<1>7. /\ g \in Groups /\ Ancestors(g) = Ancestors(Group(p.svc)) \cup {Group(p.svc)}
  BY <1>2, <1>3, ServiceGroups
<1>8. Ancestors(g) \subseteq tree.dirs
  <2>1. Group(p.svc) \in tree.dirs
    BY <1>1, <1>2 DEF TreeOK
  <2> QED BY <1>2, <1>7, <2>1 DEF TreeOK
<1>9. \A r \in Services : Inner(r) = g => r = p.svc
  BY <1>2, <1>3, GroupsApart
<1>10. TreeOK(tree')
  <2> HIDE DEF g
  <2>1. \A h \in tree'.dirs : Ancestors(h) \subseteq tree'.dirs
    BY <1>2, <1>6, <1>8 DEF TreeOK
  <2>2. \A r \in Services : Inner(r) \in tree'.dirs => plan[r].delegate # {}
    BY <1>1, <1>2, <1>6, <1>9 DEF TreeOK
  <2>3. \A q \in tree'.procs : q.cg \in tree'.dirs \cup {Elsewhere}
    BY <1>2, <1>4, <1>6 DEF TreeOK
  <2> QED BY <1>2, <1>5, <1>6, <1>7, <2>1, <2>2, <2>3 DEF TreeOK
<1>11. tree.dirs \subseteq tree'.dirs /\ \A r \in Services : Limits(tree, r) => Limits(tree', r)
  BY <1>6 DEF Limits
<1>12. Control' /\ CredInv' /\ TmpsInv' /\ NotesInv' /\ SockInv' /\ DirsInv'
  BY <1>1, StillKeeps DEF FilesIInv, DirsInv
<1>13. op.step \in Working => op.svc \in Services
  BY <1>2 DEF OpInv
<1>14. Joins(c)
  <2>1. ProcOK(c)
    BY <1>1, <1>3, <1>4 DEF ProcOK
  <2>2. /\ c.n = op.n => op'.step \in Spawned /\ c.svc = op.svc /\ c.run = run
        /\ \A r \in Services : c.n = held[r].main =>
             /\ c.svc = r
             /\ held[r].phase = "prepared" => op.svc = r /\ op'.step \in Spawned
    BY <1>1, <1>2, <1>4 DEF ProcsInv
  <2> QED BY <1>1, <1>4, <2>1, <2>2 DEF Joins
<1>15. op'.step = "register" /\ wants_cgroup(op.svc) =>
         \A q \in tree'.procs : q.n = op.n /\ q.role = "main" => q.cg \in {Group(op.svc), Inner(op.svc)}
  <2>1. op'.step = "register" /\ wants_cgroup(op.svc) =>
           \A q \in tree.procs : q.n = op.n /\ q.role = "main" => q.cg \in {Group(op.svc), Inner(op.svc)}
    BY <1>1 DEF FilesIInv, TreeInv, Inside, Main
  <2>2. c.n = op.n => c.cg = Inner(op.svc)
    BY <1>2, <1>4 DEF ProcsInv
  <2> QED BY <1>6, <2>1, <2>2
<1>16. ProcsInv' /\ TreeInv' /\ OrphansEnd'
  <2> DEFINE old == {p}
             new == {c}
  <2>1. tree'.procs = (tree.procs \ old) \cup new
    BY <1>6
  <2>2. \A q \in new : Joins(q)
    BY <1>14
  <2>3. \A q \in new : \A x \in (tree.procs \ old) \cup new :
           q.role = "main" /\ x.role = "main" /\ x.n = q.n => x = q
    BY <1>2, <1>4 DEF ProcsInv
  <2>4. op'.step = op.step \/ (op.step \in {"fork"} \cup Spawned /\ op'.step \in Spawned)
    BY <1>1
  <2>5. /\ plan' = plan /\ run' = run /\ up' = up /\ starts' = starts /\ held' = held
        /\ op'.svc = op.svc /\ op'.n = op.n
    BY <1>1
  <2> HIDE DEF old, new
  <2> QED BY <1>10, <1>11, <1>13, <1>15, <2>1, <2>2, <2>3, <2>4, <2>5, ProcsStep
<1> QED BY <1>12, <1>16 DEF FilesIInv, Control

\* The service of the start in progress after its preparation.
LEMMA SpawningIs ==
  ASSUME FilesIInv, op.step \in Unspawned \cup Spawned
  PROVE  /\ op.svc \in Services /\ op.n \in 1 .. starts /\ op.n # 0 /\ up
         /\ held[op.svc].phase \in {"down", "prepared", "backoff"} /\ ~ held[op.svc].cgroup_path
         /\ \A r \in Services : held[r].main = op.n => r = op.svc
<1>1. op.step \in Working /\ OpInv /\ HeldInv /\ NumbersInv
  BY DEF FilesIInv, Working
<1>2. /\ op.svc \in Services /\ op.n \in 1 .. starts /\ up
      /\ held[op.svc].phase \in {"down", "prepared", "backoff"}
  BY <1>1 DEF OpInv
<1>3. starts \in Nat
  BY <1>1, CountersAre
<1>4. op.n # 0
  BY <1>2, <1>3
<1>5. ~ held[op.svc].cgroup_path
  BY <1>1, <1>2 DEF HeldInv, Fields
<1>6. \A r \in Services : held[r].main = op.n => r = op.svc
  BY <1>1, <1>4 DEF NumbersInv, Uses
<1> QED BY <1>2, <1>4, <1>5, <1>6

LEMMA ForkKeeps ==
  ASSUME FilesIInv, Fork, Remembered
  PROVE  FilesIInv'
<1> DEFINE c == [svc |-> op.svc, n |-> op.n, run |-> run, role |-> "main", cg |-> Elsewhere]
<1>1. /\ op.step = "fork" /\ Go("attach") /\ Bounds /\ held' = held
      /\ UNCHANGED <<cred, dirs, full, tmps, notes, sock>>
      /\ tree' = [tree EXCEPT !.procs = tree.procs \cup {c}]
  BY DEF Fork, At, Bounds
<1>2. /\ op.step \in (Unspawned \cup Spawned) \ {"undo"} /\ "attach" \in Unspawned \cup Spawned
      /\ op.step \notin Spawned /\ "attach" \in Notified /\ "attach" \in Spawned
  BY <1>1 DEF Unspawned, Spawned, Notified
<1>3. /\ Control' /\ op'.svc = op.svc /\ op'.n = op.n /\ op'.step = "attach"
      /\ CredInv' /\ TmpsInv' /\ NotesInv' /\ SockInv' /\ DirsInv'
  BY <1>1, <1>2, GoKeeps
<1>4. TreeOK(tree) /\ OpInv /\ ProcsInv
  BY DEF FilesIInv, TreeInv
<1>5. run \in Nat \ {0}
  BY <1>4, CountersAre
<1>6. /\ c.svc = op.svc /\ c.n = op.n /\ c.run = run /\ c.role = "main" /\ c.cg = Elsewhere
      /\ c = [svc |-> c.svc, n |-> c.n, run |-> c.run, role |-> c.role, cg |-> c.cg]
  OBVIOUS
<1> HIDE DEF c
<1>7. /\ op.svc \in Services /\ op.n \in 1 .. starts /\ ~ held[op.svc].cgroup_path
      /\ \A r \in Services : held[r].main = op.n => r = op.svc
  BY <1>2, SpawningIs
<1>8. /\ TreeOK(tree') /\ tree'.procs = tree.procs \cup {c} /\ tree.dirs \subseteq tree'.dirs
      /\ \A r \in Services : Limits(tree, r) => Limits(tree', r)
  BY <1>1, <1>4, <1>6, ProcsOnly DEF TreeOK
<1>9. Joins(c)
  <2>1. ProcOK(c)
    BY <1>5, <1>6, <1>7 DEF ProcOK
  <2> QED BY <1>2, <1>3, <1>6, <1>7, <2>1 DEF Joins
<1>10. ProcsInv' /\ TreeInv' /\ OrphansEnd'
  <2> DEFINE old == {}
             new == {c}
  <2>1. tree'.procs = (tree.procs \ old) \cup new
    BY <1>8
  <2>2. \A q \in new : Joins(q)
    BY <1>9
  <2>3. \A q \in new : \A x \in (tree.procs \ old) \cup new :
           q.role = "main" /\ x.role = "main" /\ x.n = q.n => x = q
    BY <1>2, <1>4, <1>6 DEF ProcsInv
  <2>4. op'.step = op.step \/ (op.step \in {"fork"} \cup Spawned /\ op'.step \in Spawned)
    BY <1>1, <1>2, <1>3
  <2>5. /\ plan' = plan /\ run' = run /\ up' = up /\ starts' = starts /\ held' = held
        /\ op'.svc = op.svc /\ op'.n = op.n
    BY <1>1, <1>3 DEF Bounds
  <2>6. op'.step # "register"
    BY <1>3
  <2> HIDE DEF old, new
  <2> QED BY <1>7, <1>8, <2>1, <2>2, <2>3, <2>4, <2>5, <2>6, ProcsStep
<1> QED BY <1>3, <1>10 DEF FilesIInv, Control

LEMMA AttachKeeps ==
  ASSUME FilesIInv, Attach, Remembered
  PROVE  FilesIInv'
<1>1. /\ op.step = "attach" /\ Go("register") /\ Bounds /\ held' = held
      /\ UNCHANGED <<cred, dirs, full, tmps, notes, sock>>
  BY DEF Attach, At, Bounds
<1>2. /\ op.step \in (Unspawned \cup Spawned) \ {"undo"} /\ "register" \in Unspawned \cup Spawned
      /\ op.step \in Spawned /\ "register" \in Notified /\ "register" \in Spawned
  BY <1>1 DEF Unspawned, Spawned, Notified
<1>3. /\ Control' /\ op'.svc = op.svc /\ op'.n = op.n /\ op'.step = "register"
      /\ CredInv' /\ TmpsInv' /\ NotesInv' /\ SockInv' /\ DirsInv'
  BY <1>1, <1>2, GoKeeps
<1>4. TreeOK(tree) /\ OpInv /\ ProcsInv /\ run \in Nat
  BY CountersAre DEF FilesIInv, TreeInv
<1>5. /\ op.svc \in Services /\ op.n \in 1 .. starts /\ ~ held[op.svc].cgroup_path
      /\ \A r \in Services : held[r].main = op.n => r = op.svc
  BY <1>2, SpawningIs
<1>6. op'.step = op.step \/ (op.step \in {"fork"} \cup Spawned /\ op'.step \in Spawned)
  BY <1>2, <1>3
<1>7. /\ plan' = plan /\ run' = run /\ up' = up /\ starts' = starts /\ held' = held
      /\ op'.svc = op.svc /\ op'.n = op.n
  BY <1>1, <1>3 DEF Bounds
<1>8. CASE tree' = tree /\ (wants_cgroup(op.svc) => Main(op.n) = {})
  <2> DEFINE old == {}
             new == {}
  <2>1. tree'.procs = (tree.procs \ old) \cup new
    BY <1>8
  <2>2. \A q \in new : Joins(q)
    OBVIOUS
  <2>3. \A q \in new : \A x \in (tree.procs \ old) \cup new :
           q.role = "main" /\ x.role = "main" /\ x.n = q.n => x = q
    OBVIOUS
  <2>4. op'.step = "register" /\ wants_cgroup(op.svc) =>
           \A p \in tree'.procs : p.n = op.n /\ p.role = "main" => p.cg \in {Group(op.svc), Inner(op.svc)}
    BY <1>8 DEF Main
  <2>5. TreeOK(tree') /\ tree.dirs \subseteq tree'.dirs /\ \A r \in Services : Limits(tree, r) => Limits(tree', r)
    BY <1>4, <1>8
  <2> HIDE DEF old, new
  <2>6. ProcsInv' /\ TreeInv' /\ OrphansEnd'
    BY <1>5, <1>6, <1>7, <2>1, <2>2, <2>3, <2>4, <2>5, ProcsStep
  <2> QED BY <1>3, <2>6 DEF FilesIInv, Control
<1>9. ASSUME NEW p \in Main(op.n), MayEnter(tree, Group(op.svc)), tree' = attach_to_cgroup(tree, p, Group(op.svc))
      PROVE  FilesIInv'
  <2> DEFINE g == Group(op.svc)
             c == [p EXCEPT !.cg = g]
             old == {p}
             new == {c}
  <2>1. p \in tree.procs /\ p.n = op.n /\ p.role = "main" /\ g \in tree.dirs
    BY <1>9 DEF Main, MayEnter
  <2>2. ProcOK(p) /\ p.svc = op.svc /\ p.run = run
    BY <1>4, <2>1 DEF ProcsInv, ProcOK
  <2>3. /\ c = [svc |-> c.svc, n |-> c.n, run |-> c.run, role |-> c.role, cg |-> c.cg]
        /\ c.svc = p.svc /\ c.n = p.n /\ c.run = p.run /\ c.role = p.role /\ c.cg = g
    BY <2>2, MovedIs
  <2>4. tree' = [tree EXCEPT !.procs = (tree.procs \ {p}) \cup {c}]
    BY <1>9 DEF attach_to_cgroup
  <2> HIDE DEF c
  <2>5. \A q \in (tree.procs \ {p}) \cup {c} : q.cg \in tree.dirs \cup {Elsewhere}
    BY <1>4, <2>1, <2>3 DEF TreeOK
  <2>6. /\ TreeOK(tree') /\ tree'.procs = (tree.procs \ {p}) \cup {c} /\ tree.dirs \subseteq tree'.dirs
        /\ \A r \in Services : Limits(tree, r) => Limits(tree', r)
    <3> DEFINE ps == (tree.procs \ {p}) \cup {c}
    <3>0. tree' = [tree EXCEPT !.procs = ps] /\ \A q \in ps : q.cg \in tree.dirs \cup {Elsewhere}
      BY <2>4, <2>5
    <3> HIDE DEF ps
    <3>1. /\ TreeOK(tree') /\ tree'.procs = ps /\ tree.dirs \subseteq tree'.dirs
          /\ \A r \in Services : Limits(tree, r) => Limits(tree', r)
      BY <1>4, <3>0, ProcsOnly
    <3> QED BY <3>1 DEF ps
  <2>7. Joins(c)
    <3>1. ProcOK(c)
      BY <2>2, <2>3 DEF ProcOK
    <3> QED BY <1>2, <1>3, <1>4, <1>5, <2>1, <2>2, <2>3, <3>1 DEF Joins
  <2>8. \A q \in new : \A x \in (tree.procs \ old) \cup new :
           q.role = "main" /\ x.role = "main" /\ x.n = q.n => x = q
    BY <1>4, <2>1, <2>3 DEF ProcsInv
  <2>9. op'.step = "register" /\ wants_cgroup(op.svc) =>
           \A q \in tree'.procs : q.n = op.n /\ q.role = "main" => q.cg \in {Group(op.svc), Inner(op.svc)}
    BY <2>1, <2>3, <2>6, <2>8
  <2>10. tree'.procs = (tree.procs \ old) \cup new /\ \A q \in new : Joins(q)
    BY <2>6, <2>7
  <2>11. TreeOK(tree') /\ tree.dirs \subseteq tree'.dirs /\ \A r \in Services : Limits(tree, r) => Limits(tree', r)
    BY <2>6
  <2> HIDE DEF old, new, g
  <2>12. ProcsInv' /\ TreeInv' /\ OrphansEnd'
    BY <1>5, <1>6, <1>7, <2>8, <2>9, <2>10, <2>11, ProcsStep
  <2> QED BY <1>3, <2>12 DEF FilesIInv, Control
<1>10. CASE wants_cgroup(op.svc) /\ Main(op.n) # {}
  <2>1. (CHOOSE p \in Main(op.n) : TRUE) \in Main(op.n)
    BY <1>10
  <2> QED BY <1>9, <1>10, <2>1 DEF Attach
<1> QED BY <1>8, <1>10 DEF Attach

LEMMA RegisterKeeps ==
  ASSUME FilesIInv, Register, Remembered
  PROVE  FilesIInv'
<1> DEFINE s == op.svc
           h == held[s]
           w == wants_cgroup(s)
<1>1. /\ op.step = "register" /\ Bounds /\ op' = Idle
      /\ UNCHANGED <<cred, dirs, full, tmps, notes, tree, sock>>
      /\ held' = [held EXCEPT ![s] = [h EXCEPT !.phase = "running", !.main = op.n, !.notify_path = op.n,
                                               !.cgroup_path = w]]
  BY DEF Register, At, Bounds
<1>2. /\ OpInv /\ HeldInv /\ CredInv /\ TmpsInv /\ NotesInv /\ SockInv /\ DirsInv /\ ProcsInv /\ TreeInv /\ Control
  BY DEF FilesIInv, Control
<1>3. op.step \in Unspawned \cup Spawned /\ op.step \in Spawned
  BY <1>1 DEF Spawned
<1>4. /\ s \in Services /\ op.n \in 1 .. starts /\ op.n # 0 /\ up
      /\ h.phase \in {"down", "prepared", "backoff"} /\ ~ h.cgroup_path
      /\ \A r \in Services : held[r].main = op.n => r = s
  BY <1>3, SpawningIs
<1>5. starts \in Nat /\ run \in Nat /\ SameDaemon /\ op.n <= starts
  <2>1. starts \in Nat /\ run \in Nat
    BY <1>2, CountersAre
  <2> QED BY <1>1, <1>4, <2>1 DEF SameDaemon, Bounds
<1>6. Fields(h, starts)
  BY <1>2, <1>4 DEF HeldInv
<1>7. h.notify_path = 0
  BY <1>4, <1>6 DEF Fields
<1>8. w \in BOOLEAN
  BY DEF wants_cgroup
<1>9. /\ DOMAIN held' = DOMAIN held /\ \A r \in Services \ {s} : held'[r] = held[r]
      /\ held'[s] = [phase |-> "running", main |-> op.n, credential_directory |-> h.credential_directory,
                     directories |-> h.directories, private_tmp_paths |-> h.private_tmp_paths,
                     notify_path |-> op.n, cgroup_path |-> w]
  <2>1. h = [phase |-> h.phase, main |-> h.main, credential_directory |-> h.credential_directory,
             directories |-> h.directories, private_tmp_paths |-> h.private_tmp_paths,
             notify_path |-> h.notify_path, cgroup_path |-> h.cgroup_path]
    BY <1>2, <1>4, HeldIs
  <2>2. DOMAIN held = Services
    BY <1>2 DEF HeldInv
  <2> HIDE DEF w
  <2>3. /\ DOMAIN held' = DOMAIN held /\ \A r \in Services \ {s} : held'[r] = held[r]
        /\ held'[s] = [h EXCEPT !.phase = "running", !.main = op.n, !.notify_path = op.n, !.cgroup_path = w]
    BY <1>1, <1>4, <2>2
  <2> HIDE DEF h
  <2> QED BY <2>1, <2>3
<1>10. /\ held'[s].phase = "running" /\ held'[s].main = op.n
       /\ held'[s].credential_directory = h.credential_directory
       /\ held'[s].directories = h.directories /\ held'[s].private_tmp_paths = h.private_tmp_paths
       /\ held'[s].notify_path = op.n /\ held'[s].cgroup_path = w
  <2> HIDE DEF h, w
  <2> QED BY <1>9
<1>11. OpInv' /\ op'.svc = "" /\ op'.n = 0 /\ op'.step = "idle"
  BY <1>1, <1>2, <1>4, IdleOp
<1>12. Control'
  <2>1. Fields(held'[s], starts)
    <3>1. {op.n, h.private_tmp_paths} \subseteq 0 .. starts
      BY <1>4, <1>5, <1>6 DEF Fields
    <3> HIDE DEF h, w
    <3> QED BY <1>4, <1>6, <1>8, <1>9, <1>10, <3>1 DEF Fields, Phases
  <2>2. Uses(held'[s]) \subseteq Uses(held[s]) \cup {op.n}
    BY <1>10 DEF Uses
  <2>3. held'[s].phase \notin {"down", "backoff"} /\ (held'[s].cgroup_path => wants_cgroup(s))
    BY <1>10
  <2> HIDE DEF h, w
  <2> QED BY <1>1, <1>2, <1>4, <1>9, <1>11, <2>1, <2>2, <2>3, UpdateControl
<1> HIDE DEF w
<1>13. \A r \in Services : /\ held'[r].credential_directory = held[r].credential_directory
                           /\ held'[r].directories = held[r].directories
                           /\ held'[r].private_tmp_paths = held[r].private_tmp_paths
                           /\ held'[r].phase = "listening" <=> held[r].phase = "listening"
                           /\ held'[r].phase = "listening" => held'[r].main = held[r].main
  BY <1>4, <1>9, <1>10
<1>14. CredInv' /\ TmpsInv' /\ SockInv'
  BY <1>1, <1>2, <1>5, <1>11, <1>13, SameCred, SameTmps, SameSock
<1>15. DirsInv'
  BY <1>1, <1>2, <1>13, SameDirs DEF DirsInv, Bounds
<1>16. /\ plan' = plan /\ run' = run /\ up' = up /\ starts' = starts /\ Services' = Services
       /\ Groups' = Groups /\ looks_for_orphans' = looks_for_orphans
       /\ \A r \in Services : wants_cgroup(r)' = wants_cgroup(r) /\ Group(r)' = Group(r) /\ Inner(r)' = Inner(r)
  BY <1>1, PlanKept DEF Bounds
<1>17. NotesInv'
  <2>1. ASSUME NEW x \in notes
        PROVE  /\ x.svc \in Services /\ x.n \in 1 .. starts /\ x.run \in 1 .. run
               /\ x = [svc |-> x.svc, n |-> x.n, run |-> x.run]
               /\ x.run = run => held'[x.svc].notify_path = x.n
    <3>1. /\ x.svc \in Services /\ x.n \in 1 .. starts /\ x.run \in 1 .. run
          /\ x = [svc |-> x.svc, n |-> x.n, run |-> x.run]
          /\ x.run = run => held[x.svc].notify_path = x.n \/ (op.svc = x.svc /\ op.n = x.n)
      BY <1>2, <1>4 DEF NotesInv, Made_by
    <3>2. x.n # 0
      BY <1>5, <3>1
    <3> QED BY <1>7, <1>9, <1>10, <3>1, <3>2
  <2> QED BY <1>1, <1>16, <2>1 DEF NotesInv, Made_by
<1>18. ProcsInv'
  <2>1. ASSUME NEW p \in tree.procs
        PROVE  /\ p = [svc |-> p.svc, n |-> p.n, run |-> p.run, role |-> p.role, cg |-> p.cg]
               /\ p.svc \in Services /\ p.n \in 1 .. starts /\ p.run \in 1 .. run
               /\ p.role \in {"main", "child"}
               /\ p.cg \in {Elsewhere, Group(p.svc)} \/ (p.cg = Inner(p.svc) /\ plan[p.svc].delegate # {})
    BY <1>2 DEF ProcsInv
  <2>2. ASSUME NEW p \in tree.procs
        PROVE  /\ p.n # 0
               /\ \A r \in Services : p.n = held'[r].main => p.svc = r /\ held'[r].phase # "prepared"
    <3>1. p.n # 0
      BY <1>2, <1>5, ProcNumbers
    <3>2. ASSUME NEW r \in Services, p.n = held'[r].main PROVE p.svc = r /\ held'[r].phase # "prepared"
      <4>1. CASE r = s
        BY <1>2, <1>10, <3>2, <4>1 DEF ProcsInv
      <4>2. CASE r # s
        BY <1>2, <1>9, <3>2, <4>2 DEF ProcsInv
      <4> QED BY <4>1, <4>2
    <3> QED BY <3>1, <3>2
  <2>3. \A p, q \in tree.procs : p.n = q.n /\ p.role = "main" /\ q.role = "main" => p = q
    BY <1>2 DEF ProcsInv
  <2> QED BY <1>1, <1>11, <1>16, <2>1, <2>2, <2>3 DEF ProcsInv
<1>19. TreeInv'
  <2>1. TreeOK(tree)'
    BY <1>1, <1>2, <1>16 DEF TreeInv, TreeOK
  <2>2. \A r \in Services : Limits(tree, r)' = Limits(tree, r)
    BY <1>1, <1>16 DEF Limits
  <2>3. ASSUME NEW r \in Services, held'[r].cgroup_path
        PROVE  Limits(tree, r)' /\ Inside(r, held[r].main)'
    <3>1. CASE r = s
      <4>1. wants_cgroup(s)
        BY <1>10, <2>3, <3>1 DEF w
      <4>2. Limits(tree, s) /\ Inside(s, op.n)
        BY <1>1, <1>2, <1>3, <4>1 DEF TreeInv
      <4>3. Limits(tree, r)'
        BY <2>2, <3>1, <4>2
      <4>4. Group(r)' = Group(s) /\ Inner(r)' = Inner(s) /\ held[r]'.main = op.n
        BY <1>10, <1>16, <3>1
      <4>5. Inside(r, held[r].main)'
        BY <1>1, <4>2, <4>4 DEF Inside, Main
      <4> QED BY <4>3, <4>5
    <3>2. CASE r # s
      <4>1. held'[r] = held[r]
        BY <1>9, <3>2
      <4>2. Limits(tree, r) /\ Inside(r, held[r].main)
        BY <1>2, <2>3, <4>1 DEF TreeInv
      <4> QED BY <1>1, <1>16, <2>2, <4>1, <4>2 DEF Inside, Main
    <3> QED BY <3>1, <3>2
  <2> QED BY <1>11, <1>16, <2>1, <2>3 DEF TreeInv, Spawned
<1>20. OrphansEnd'
  BY <1>1, <1>16 DEF FilesIInv, OrphansEnd
<1> QED BY <1>12, <1>14, <1>15, <1>17, <1>18, <1>19, <1>20 DEF FilesIInv, Control

\* The main process has ended and the rest of the service waits for CallOff.
LEMMA ExitKeeps ==
  ASSUME FilesIInv, NEW s \in Services, handle_exit(s), Remembered
  PROVE  FilesIInv'
<1> DEFINE h == held[s]
<1>1. CASE MarkSpawnFailed(s)
  BY <1>1, ServiceEnds, EndingKeeps
<1>2. ASSUME ~ MarkSpawnFailed(s) PROVE FilesIInv'
  <2>1. /\ up /\ op = Idle /\ h.phase = "running" /\ Bounds
        /\ UNCHANGED <<op, dirs, cred, tmps, full, sock>>
        /\ notes' = {x \in notes : x.n # h.notify_path}
        /\ tree' = tree \/ tree' = cleanup_cgroup(tree, Group(s))
        /\ held' = [held EXCEPT ![s] = [h EXCEPT !.phase = "exited", !.main = 0, !.notify_path = 0,
                                                 !.cgroup_path = FALSE]]
    BY <1>2 DEF handle_exit, Bounds
  <2>2. /\ OpInv /\ HeldInv /\ CredInv /\ TmpsInv /\ NotesInv /\ SockInv /\ DirsInv /\ ProcsInv /\ Control
        /\ TreeOK(tree) /\ plan \in Plans
    BY DEF FilesIInv, Control, TreeInv, OpInv
  <2>3. /\ op.svc = "" /\ op.n = 0 /\ op.step = "idle" /\ op' = Idle
        /\ OpInv' /\ op'.svc = "" /\ op'.n = 0 /\ op'.step = "idle"
    BY <2>1, <2>2, IdleIs, IdleOp
  <2>4. op.step \notin Working /\ op.step \notin Notified /\ op'.step \notin Working
    BY <2>3 DEF Working, Preparing, Unspawned, Spawned, Notified
  <2>5. starts \in Nat /\ run \in Nat /\ SameDaemon
    BY <2>1, <2>2, CountersAre DEF SameDaemon, Bounds
  <2>6. Fields(h, starts)
    BY <2>2 DEF HeldInv
  <2>7. /\ DOMAIN held' = DOMAIN held /\ \A r \in Services \ {s} : held'[r] = held[r]
        /\ held'[s] = [phase |-> "exited", main |-> 0, credential_directory |-> h.credential_directory,
                       directories |-> h.directories, private_tmp_paths |-> h.private_tmp_paths,
                       notify_path |-> 0, cgroup_path |-> FALSE]
    <3>1. h = [phase |-> h.phase, main |-> h.main, credential_directory |-> h.credential_directory,
               directories |-> h.directories, private_tmp_paths |-> h.private_tmp_paths,
               notify_path |-> h.notify_path, cgroup_path |-> h.cgroup_path]
      BY <2>2, HeldIs
    <3>2. DOMAIN held = Services
      BY <2>2 DEF HeldInv
    <3>3. /\ DOMAIN held' = DOMAIN held /\ \A r \in Services \ {s} : held'[r] = held[r]
          /\ held'[s] = [h EXCEPT !.phase = "exited", !.main = 0, !.notify_path = 0, !.cgroup_path = FALSE]
      BY <2>1, <3>2
    <3> HIDE DEF h
    <3> QED BY <3>1, <3>3
  <2>8. /\ held'[s].phase = "exited" /\ held'[s].main = 0
        /\ held'[s].credential_directory = h.credential_directory
        /\ held'[s].directories = h.directories /\ held'[s].private_tmp_paths = h.private_tmp_paths
        /\ held'[s].notify_path = 0 /\ held'[s].cgroup_path = FALSE
    <3> HIDE DEF h
    <3> QED BY <2>7
  <2>9. Control'
    <3>1. Fields(held'[s], starts)
      <4>1. {0, h.private_tmp_paths} \subseteq 0 .. starts
        BY <2>5, <2>6 DEF Fields
      <4> HIDE DEF h
      <4> QED BY <2>6, <2>7, <2>8, <4>1 DEF Fields, Phases
    <3>2. Uses(held'[s]) \subseteq Uses(held[s]) \cup {op.n}
      BY <2>8 DEF Uses
    <3>3. held'[s].phase \notin {"down", "backoff"} /\ ~ held'[s].cgroup_path
      BY <2>8
    <3>4. op'.n \in {op.n, 0}
      BY <2>3
    <3> HIDE DEF h
    <3> QED BY <2>1, <2>2, <2>3, <2>4, <2>7, <3>1, <3>2, <3>3, <3>4, UpdateControl
  <2>10. \A r \in Services : /\ held'[r].credential_directory = held[r].credential_directory
                             /\ held'[r].directories = held[r].directories
                             /\ held'[r].private_tmp_paths = held[r].private_tmp_paths
                             /\ held'[r].phase = "listening" <=> held[r].phase = "listening"
                             /\ held'[r].phase = "listening" => held'[r].main = held[r].main
    BY <2>1, <2>7, <2>8
  <2>11. CredInv' /\ TmpsInv' /\ SockInv'
    BY <2>1, <2>2, <2>3, <2>5, <2>10, SameCred, SameTmps, SameSock
  <2>12. DirsInv'
    BY <2>1, <2>2, <2>10, SameDirs DEF DirsInv, Bounds
  <2>13. Shrunk(tree', s)
    <3>1. Shrunk(tree, s)
      BY <2>2 DEF Shrunk
    <3> QED BY <2>1, <2>2, <3>1, ShrunkCleanup
  <2>14. ProcsInv' /\ TreeInv' /\ OrphansEnd'
    BY <2>1, <2>3, <2>4, <2>7, <2>8, <2>13, ShrunkKeeps DEF Bounds
  <2>15. NotesInv'
    <3>1. notes' \subseteq notes /\ \A x \in notes' : x.run = run => x.svc # s
      BY <2>1, <2>4, NotesEnd
    <3>2. plan' = plan /\ run' = run /\ up' = up /\ starts' = starts /\ Services' = Services
      BY <2>1, PlanKept DEF Bounds
    <3>3. ASSUME NEW x \in notes'
          PROVE  /\ x.svc \in Services /\ x.n \in 1 .. starts /\ x.run \in 1 .. run
                 /\ x = [svc |-> x.svc, n |-> x.n, run |-> x.run]
                 /\ x.run = run => held'[x.svc].notify_path = x.n
      <4>1. /\ x.svc \in Services /\ x.n \in 1 .. starts /\ x.run \in 1 .. run
            /\ x = [svc |-> x.svc, n |-> x.n, run |-> x.run]
            /\ x.run = run => held[x.svc].notify_path = x.n
        BY <2>1, <2>2, <2>4, <3>1 DEF NotesInv, Made_by, Notified
      <4> QED BY <2>7, <3>1, <4>1
    <3> QED BY <3>2, <3>3 DEF NotesInv, Made_by
  <2> QED BY <2>9, <2>11, <2>12, <2>14, <2>15 DEF FilesIInv, Control
<1> QED BY <1>1, <1>2

-----------------------------------------------------------------------------
(***************************************************************************)
(* The end of a daemon and the start of the next.                          *)
(***************************************************************************)

\* The fields of a service at rest.
LEMMA RestFields ==
  ASSUME NEW n \in Nat
  PROVE  /\ Fields(Rest, n) /\ Uses(Rest) = {} /\ Rest.phase = "down" /\ Rest.main = 0
         /\ Rest.credential_directory = FALSE /\ Rest.directories = <<>>
         /\ Rest.private_tmp_paths = 0 /\ Rest.notify_path = 0 /\ Rest.cgroup_path = FALSE
<1>1. /\ Rest.phase = "down" /\ Rest.main = 0
      /\ Rest.credential_directory = FALSE /\ Rest.directories = <<>>
      /\ Rest.private_tmp_paths = 0 /\ Rest.notify_path = 0 /\ Rest.cgroup_path = FALSE
  BY DEF Rest
<1>2. Fields(Rest, n)
  <2>1. Rest = [phase |-> "down", main |-> 0, credential_directory |-> FALSE,
                directories |-> <<>>, private_tmp_paths |-> 0, notify_path |-> 0,
                cgroup_path |-> FALSE]
    BY DEF Rest
  <2> QED BY <2>1, RestIs
<1>3. Uses(Rest) = {}
  BY <1>1 DEF Uses
<1> QED BY <1>1, <1>2, <1>3

\* When no daemon runs, or has only just come up, every service is at rest.
LEMMA AtRest ==
  ASSUME NEW n \in Nat, held' = [s \in Services |-> Rest], op' = Idle, plan' = plan, starts' = n
  PROVE  /\ HeldInv' /\ NumbersInv'
         /\ \A s \in Services :
              /\ held'[s].phase = "down" /\ held'[s].main = 0
              /\ held'[s].credential_directory = FALSE /\ held'[s].directories = <<>>
              /\ held'[s].private_tmp_paths = 0 /\ held'[s].notify_path = 0 /\ held'[s].cgroup_path = FALSE
         /\ op'.step = "idle" /\ op'.n = 0 /\ op'.svc = ""
<1>1. /\ Fields(Rest, n) /\ Uses(Rest) = {} /\ Rest.phase = "down" /\ Rest.main = 0
      /\ Rest.credential_directory = FALSE /\ Rest.directories = <<>>
      /\ Rest.private_tmp_paths = 0 /\ Rest.notify_path = 0 /\ Rest.cgroup_path = FALSE
  BY RestFields
<1>2. Services' = Services /\ DOMAIN held' = Services /\ \A s \in Services : held'[s] = Rest
  BY PlanKept
<1>3. HeldInv'
  BY <1>1, <1>2 DEF HeldInv
<1>4. NumbersInv'
  BY <1>1, <1>2 DEF NumbersInv
<1> QED BY <1>1, <1>2, <1>3, <1>4, IdleIs

\* Credential directories of any state.
Directories(c) ==
  /\ DOMAIN c = Services
  /\ \A s \in Services : /\ c[s] = [state |-> c[s].state, run |-> c[s].run]
                         /\ c[s].state \in {"none", "bare", "marked", "full", "foreign"}
                         /\ c[s].run \in 0 .. run

LEMMA DownKeeps ==
  ASSUME FilesIInv, up, Down, UNCHANGED <<plan, run, starts, full, tmps, notes, sock>>,
         dirs \subseteq dirs', Remembered, TreeOK(tree'), tree'.procs \subseteq tree.procs,
         Directories(cred')
  PROVE  FilesIInv'
<1>1. /\ plan' = plan /\ run' = run /\ starts' = starts /\ Services' = Services /\ Groups' = Groups
      /\ \A r \in Services : /\ Group(r)' = Group(r) /\ Inner(r)' = Inner(r)
                             /\ OwnListeners(r)' = OwnListeners(r)
  BY PlanKept
<1>2. up' = FALSE /\ op' = Idle /\ held' = [s \in Services |-> Rest]
  BY DEF Down
<1>3. starts \in Nat /\ run \in Nat \ {0} /\ OpInv /\ ProcsInv /\ TreeOK(tree)
  BY CountersAre DEF FilesIInv, TreeInv
<1>4. /\ HeldInv' /\ NumbersInv'
      /\ \A s \in Services :
           /\ held'[s].phase = "down" /\ held'[s].main = 0
           /\ held'[s].credential_directory = FALSE /\ held'[s].directories = <<>>
           /\ held'[s].private_tmp_paths = 0 /\ held'[s].notify_path = 0 /\ held'[s].cgroup_path = FALSE
      /\ op'.step = "idle" /\ op'.n = 0 /\ op'.svc = ""
  BY <1>1, <1>2, <1>3, AtRest
<1>5. OpInv'
  <2>1. "idle" \notin Working /\ "idle" \in Steps
    BY DEF Working, Preparing, Unspawned, Spawned, Steps
  <2>2. op' = [svc |-> op'.svc, step |-> op'.step, n |-> op'.n]
    BY <1>2, IdleIs
  <2> QED BY <1>1, <1>2, <1>3, <1>4, <2>1, <2>2 DEF OpInv, Working
<1>6. CredInv'
  BY <1>1, <1>2, <1>4 DEF CredInv, Directories
<1>7. TmpsInv' /\ NotesInv'
  BY <1>1, <1>2, <1>4 DEF FilesIInv, TmpsInv, NotesInv, Made_by
<1>8. SockInv'
  <2>1. SockInv /\ sock' = sock
    BY DEF FilesIInv
  <2>2. UNION {ToSet(plan'[s].listeners) : s \in Services'} = UNION {ToSet(plan[s].listeners) : s \in Services}
    BY <1>1
  <2> QED BY <1>1, <1>2, <1>4, <2>1, <2>2 DEF SockInv
<1>9. DirsInv'
  <2>1. full' \subseteq dirs'
    BY DEF FilesIInv, DirsInv
  <2>2. DOMAIN <<>> = {}
    OBVIOUS
  <2>3. \A s \in Services : DOMAIN held'[s].directories = {}
    BY <1>4, <2>2
  <2> QED BY <1>1, <2>1, <2>3 DEF DirsInv
<1>11. ProcsInv'
  <2>1. ASSUME NEW p \in tree'.procs
        PROVE  /\ p = [svc |-> p.svc, n |-> p.n, run |-> p.run, role |-> p.role, cg |-> p.cg]
               /\ p.svc \in Services /\ p.n \in 1 .. starts /\ p.run \in 1 .. run
               /\ p.role \in {"main", "child"}
               /\ p.cg \in {Elsewhere, Group(p.svc)} \/ (p.cg = Inner(p.svc) /\ plan[p.svc].delegate # {})
               /\ p.n # 0
    BY <1>3, ProcNumbers DEF ProcsInv
  <2>2. \A p, q \in tree'.procs : p.n = q.n /\ p.role = "main" /\ q.role = "main" => p = q
    BY <1>3 DEF ProcsInv
  <2> QED BY <1>1, <1>4, <2>1, <2>2 DEF ProcsInv
<1>12. TreeInv'
  <2>1. TreeOK(tree)'
    BY <1>1 DEF TreeOK
  <2> QED BY <1>1, <1>4, <2>1 DEF TreeInv, Spawned
<1>13. OrphansEnd'
  BY <1>2 DEF OrphansEnd
<1> QED BY <1>4, <1>5, <1>6, <1>7, <1>8, <1>9, <1>11, <1>12, <1>13 DEF FilesIInv

\* Killed at any moment.
LEMMA CrashKeeps ==
  ASSUME FilesIInv, Crash, Remembered
  PROVE  FilesIInv'
<1> DEFINE ps == {p \in tree.procs : p.role = "child" \/ plan[p.svc].user}
<1>1. /\ up /\ Down /\ UNCHANGED <<plan, run, starts, full, tmps, notes, sock>>
      /\ tree' = [tree EXCEPT !.procs = ps]
  BY DEF Crash
<1>2. dirs \subseteq dirs'
  BY DEF Crash, Present
<1>3. CredInv
  BY DEF FilesIInv
<1>4. Directories(cred')
  <2>1. CASE cred' = cred
    BY <1>3, <2>1 DEF CredInv, Directories
  <2>2. ASSUME NEW r \in Services, cred' = [cred EXCEPT ![r].state = "bare"]
        PROVE  Directories(cred')
    <3>1. cred[r] = [state |-> cred[r].state, run |-> cred[r].run] /\ DOMAIN cred = Services
      BY <1>3 DEF CredInv
    <3>2. cred' = [cred EXCEPT ![r] = [cred[r] EXCEPT !.state = "bare"]]
      BY <2>2
    <3>3. [cred[r] EXCEPT !.state = "bare"] = [state |-> "bare", run |-> cred[r].run]
      BY <3>1
    <3>4. /\ DOMAIN cred' = Services /\ cred'[r] = [state |-> "bare", run |-> cred[r].run]
          /\ \A s \in Services \ {r} : cred'[s] = cred[s]
      BY <3>1, <3>2, <3>3
    <3>5. ASSUME NEW s \in Services
          PROVE  /\ cred'[s] = [state |-> cred'[s].state, run |-> cred'[s].run]
                 /\ cred'[s].state \in {"none", "bare", "marked", "full", "foreign"}
                 /\ cred'[s].run \in 0 .. run
      <4>1. CASE s = r
        BY <1>3, <3>4, <4>1 DEF CredInv
      <4>2. CASE s # r
        BY <1>3, <3>4, <4>2 DEF CredInv
      <4> QED BY <4>1, <4>2
    <3> QED BY <3>4, <3>5 DEF Directories
  <2>3. cred' = cred \/ \E r \in Services : cred' = [cred EXCEPT ![r].state = "bare"]
    BY DEF Crash
  <2> QED BY <2>1, <2>2, <2>3
<1>5. TreeOK(tree') /\ tree'.procs \subseteq tree.procs
  <2>1. TreeOK(tree) /\ \A p \in ps : p \in tree.procs /\ p.cg \in tree.dirs \cup {Elsewhere}
    BY DEF FilesIInv, TreeInv, TreeOK
  <2> HIDE DEF ps
  <2>2. TreeOK(tree') /\ tree'.procs = ps
    BY <1>1, <2>1, ProcsOnly
  <2> QED BY <2>1, <2>2
<1> QED BY <1>1, <1>2, <1>4, <1>5, DownKeeps

LEMMA DroppedKeeps ==
  ASSUME FilesIInv, Dropped, Remembered
  PROVE  FilesIInv'
<1>1. /\ up /\ Down /\ UNCHANGED <<plan, run, starts, full, tmps, notes, sock>>
      /\ dirs' = dirs /\ cred' = cred /\ tree' = tree
  BY DEF Dropped
<1>2. Directories(cred')
  BY <1>1 DEF FilesIInv, CredInv, Directories
<1>3. TreeOK(tree') /\ tree'.procs \subseteq tree.procs
  BY <1>1 DEF FilesIInv, TreeInv
<1> QED BY <1>1, <1>2, <1>3, DownKeeps

\* reconcile_cgroup_tree leaves a tree, and no process in a group without
\* children.
LEMMA ReconcileIs ==
  ASSUME plan \in Plans, TreeOK(tree), NEW u \in reconcile_cgroup_tree(tree)
  PROVE  TreeOK(u) /\ u.procs = {p \in tree.procs : p.cg \notin Leaves(tree)}
<1> DEFINE k == reconcile_cgroup(tree, Leaves(tree))
<1>1. Whole(tree) /\ tree = [dirs |-> tree.dirs, filtered |-> tree.filtered, procs |-> tree.procs, enabled |-> tree.enabled]
  BY DEF TreeOK, Whole
<1>2. k = [dirs |-> tree.dirs, filtered |-> tree.filtered,
           procs |-> {p \in tree.procs : p.cg \notin Leaves(tree)}, enabled |-> tree.enabled]
  BY <1>1 DEF reconcile_cgroup
<1>3. PICK gs \in SUBSET {g \in k.dirs \ {<<>>} : ~ Populated(k, g)} :
        /\ \A g \in gs : \A h \in k.dirs : Below(g, h) => h \in gs
        /\ u = [Without(k, gs) EXCEPT !.filtered = {}]
  BY DEF reconcile_cgroup_tree
<1> HIDE DEF k
<1>4. /\ k.dirs = tree.dirs /\ k.procs = {p \in tree.procs : p.cg \notin Leaves(tree)} /\ k.enabled = tree.enabled
  BY <1>2
<1>5. u = [dirs |-> tree.dirs \ gs, filtered |-> {}, procs |-> k.procs,
           enabled |-> [g \in DOMAIN tree.enabled |-> IF g \in gs THEN {} ELSE tree.enabled[g]]]
  <2> DEFINE d == tree.dirs \ gs
             e == [g \in DOMAIN tree.enabled |-> IF g \in gs THEN {} ELSE tree.enabled[g]]
             w == Without(k, gs)
  <2>1. w = [dirs |-> d, filtered |-> k.filtered \ gs, procs |-> k.procs, enabled |-> e]
    BY <1>4 DEF Without
  <2>2. u = [w EXCEPT !.filtered = {}]
    BY <1>3
  <2> HIDE DEF d, e, w
  <2>3. u = [dirs |-> d, filtered |-> {}, procs |-> k.procs, enabled |-> e]
    BY <2>1, <2>2
  <2> QED BY <2>3 DEF d, e
<1>6. /\ u.dirs = tree.dirs \ gs /\ u.filtered = {} /\ u.procs = k.procs /\ DOMAIN u.enabled = DOMAIN tree.enabled
      /\ u = [dirs |-> u.dirs, filtered |-> u.filtered, procs |-> u.procs, enabled |-> u.enabled]
  BY <1>5
<1>7. \A g \in tree.dirs : g \in Path /\ g # Elsewhere /\ Ancestors(g) \subseteq tree.dirs
  BY GroupsClosed DEF TreeOK
<1>8. ASSUME NEW g \in u.dirs, NEW a \in Ancestors(g) PROVE a \in u.dirs
  <2>1. g \in tree.dirs /\ g \notin gs /\ a \in tree.dirs /\ a \in Path /\ g \in Path
    BY <1>6, <1>7, <1>8
  <2>2. Below(a, g)
    BY <1>8, <2>1, WithinOrder DEF Path
  <2> QED BY <1>3, <1>4, <1>6, <2>1, <2>2
<1>9. ASSUME NEW p \in u.procs PROVE p.cg \in u.dirs \cup {Elsewhere}
  <2>1. p \in k.procs /\ p.cg \in tree.dirs \cup {Elsewhere}
    BY <1>4, <1>6 DEF TreeOK
  <2>2. CASE p.cg = Elsewhere
    BY <2>2
  <2>3. CASE p.cg # Elsewhere /\ p.cg \in tree.dirs
    <3>1. Within(p.cg, p.cg)
      BY <1>7, <2>3, WithinOrder DEF Path
    <3>2. Populated(k, p.cg)
      BY <2>1, <2>3, <3>1 DEF Populated
    <3> QED BY <1>3, <1>6, <2>3, <3>2
  <2> QED BY <2>1, <2>2, <2>3
<1>10. /\ u.dirs \subseteq Groups /\ DOMAIN u.enabled = Groups
       /\ \A s \in Services : Inner(s) \in u.dirs => plan[s].delegate # {}
  BY <1>6 DEF TreeOK
<1>11. u.filtered \subseteq Groups
  BY <1>6
<1>12. TreeOK(u)
  BY <1>6, <1>8, <1>9, <1>10, <1>11 DEF TreeOK
<1> QED BY <1>4, <1>6, <1>12

\* The group of a service has no child but the one that delegation allows.
LEMMA OnlyChild ==
  ASSUME plan \in Plans, TreeOK(tree), NEW s \in Services, plan[s].delegate = {}, Group(s) \in tree.dirs
  PROVE  Group(s) \in Leaves(tree)
<1> SUFFICES ASSUME NEW h \in tree.dirs, h # <<>>, Front(h) = Group(s) PROVE FALSE
  BY ServiceGroups DEF Leaves, Children
<1>1. h \in Groups /\ h \in Path /\ Group(s) \in Path /\ Group(s) # <<>>
  BY GroupsClosed, ServiceGroups DEF TreeOK
<1>2. /\ Len(h) \in Nat \ {0} /\ Group(s) = SubSeq(h, 1, Len(h) - 1)
  <2>1. Len(h) \in Nat /\ (Len(h) = 0 => h = <<>>)
    BY <1>1 DEF Path
  <2> QED BY <2>1 DEF Front
<1>3. Group(s) \in Ancestors(h)
  BY <1>2 DEF Ancestors
<1>4. Within(Group(s), h) /\ Group(s) # h
  BY <1>1, <1>3, WithinOrder DEF Path, Below
<1>5. PICK r \in Services : h \in Ancestors(Inner(r)) \cup {Inner(r)}
  BY <1>1 DEF Groups
<1>6. Inner(r) \in Path /\ Within(h, Inner(r))
  <2>1. Inner(r) \in Path
    BY ServiceGroups
  <2> QED BY <1>1, <1>5, <2>1, WithinOrder DEF Path, Below
<1>7. Within(Group(s), Inner(r))
  BY <1>1, <1>4, <1>6, WithinOrder DEF Path
<1>8. r = s
  BY <1>7, GroupsApart
<1>9. h \in Ancestors(Group(s)) \cup {Group(s)} \/ h = Inner(s)
  BY <1>5, <1>8, ServiceGroups
<1>10. h \notin Ancestors(Group(s))
  <2>1. h \in Ancestors(Group(s)) => Len(h) < Len(Group(s))
    BY <1>1, AncestorIs DEF Path
  <2>2. Len(Group(s)) < Len(h) /\ Len(Group(s)) \in Nat
    BY <1>1, <1>3, AncestorIs DEF Path
  <2> QED BY <1>2, <2>1, <2>2
<1>11. h = Inner(s)
  BY <1>4, <1>9, <1>10
<1> QED BY <1>11 DEF TreeOK

\* The next daemon: everything is of an earlier run, and nothing is held.
LEMMA BootKeeps ==
  ASSUME FilesIInv, Boot, Remembered
  PROVE  FilesIInv'
<1>1. /\ ~ up /\ run < MaxRuns /\ up' = TRUE /\ run' = run + 1 /\ tree' \in reconcile_orphans
      /\ UNCHANGED <<plan, starts, op, held, cred, dirs, full, tmps, notes, sock>>
  BY DEF Boot
<1>2. starts \in Nat /\ run \in Nat \ {0} /\ MaxRuns \in Nat /\ plan \in Plans /\ OpInv /\ ProcsInv /\ TreeOK(tree)
  BY CountersAre DEF FilesIInv, TreeInv
<1>3. op = Idle /\ held = [s \in Services |-> Rest]
  BY <1>1, <1>2 DEF OpInv
<1>4. /\ HeldInv' /\ NumbersInv'
      /\ \A s \in Services :
           /\ held'[s].phase = "down" /\ held'[s].main = 0
           /\ held'[s].credential_directory = FALSE /\ held'[s].directories = <<>>
           /\ held'[s].private_tmp_paths = 0 /\ held'[s].notify_path = 0 /\ held'[s].cgroup_path = FALSE
      /\ op'.step = "idle" /\ op'.n = 0 /\ op'.svc = ""
  BY <1>1, <1>2, <1>3, AtRest
<1>5. /\ plan' = plan /\ starts' = starts /\ Services' = Services /\ Groups' = Groups
      /\ looks_for_orphans' = looks_for_orphans
      /\ \A r \in Services : /\ Group(r)' = Group(r) /\ Inner(r)' = Inner(r)
                             /\ OwnListeners(r)' = OwnListeners(r)
  BY <1>1, PlanKept
<1>6. /\ run' \in 1 .. MaxRuns /\ run' # 1 /\ 1 .. run \subseteq 1 .. run' /\ 0 .. run \subseteq 0 .. run'
      /\ \A n \in 0 .. run : n # run'
  BY <1>1, <1>2
<1>7. OpInv'
  <2>1. "idle" \notin Working /\ "idle" \in Steps
    BY DEF Working, Preparing, Unspawned, Spawned, Steps
  <2>2. op' = [svc |-> op'.svc, step |-> op'.step, n |-> op'.n]
    BY <1>1, <1>3, IdleIs
  <2>3. starts' \in 0 .. MaxStarts
    BY <1>2, <1>5 DEF OpInv
  <2> QED BY <1>1, <1>2, <1>4, <1>5, <1>6, <2>1, <2>2, <2>3 DEF OpInv, Working
<1>8. CredInv'
  <2>1. ASSUME NEW s \in Services
        PROVE  /\ cred[s] = [state |-> cred[s].state, run |-> cred[s].run]
               /\ cred[s].state \in {"none", "bare", "marked", "full", "foreign"}
               /\ cred[s].run \in 0 .. run' /\ cred[s].run # run'
    BY <1>6 DEF FilesIInv, CredInv
  <2>2. DOMAIN cred = Services /\ cred' = cred
    BY <1>1 DEF FilesIInv, CredInv
  <2> QED BY <1>4, <1>5, <2>1, <2>2 DEF CredInv
<1>9. TmpsInv' /\ NotesInv'
  <2>1. ASSUME NEW t \in tmps \cup notes
        PROVE  /\ t = [svc |-> t.svc, n |-> t.n, run |-> t.run]
               /\ t.svc \in Services /\ t.n \in 1 .. starts /\ t.run \in 1 .. run' /\ t.run # run'
    <3>1. /\ t = [svc |-> t.svc, n |-> t.n, run |-> t.run]
          /\ t.svc \in Services /\ t.n \in 1 .. starts /\ t.run \in 1 .. run
      BY DEF FilesIInv, TmpsInv, NotesInv, Made_by
    <3>2. t.run \in 0 .. run
      BY <1>2, <3>1
    <3> QED BY <1>6, <3>1, <3>2
  <2>2. tmps' = tmps /\ notes' = notes
    BY <1>1
  <2> QED BY <1>4, <1>5, <2>1, <2>2 DEF TmpsInv, NotesInv, Made_by
<1>10. SockInv'
  <2>1. SockInv /\ sock' = sock
    BY <1>1 DEF FilesIInv
  <2>2. UNION {ToSet(plan'[s].listeners) : s \in Services'} = UNION {ToSet(plan[s].listeners) : s \in Services}
    BY <1>5
  <2> QED BY <1>4, <1>5, <1>6, <2>1, <2>2 DEF SockInv
<1>11. DirsInv'
  BY <1>1, SameDirs DEF FilesIInv, DirsInv
<1>12. TreeOK(tree') /\ tree'.procs \subseteq tree.procs
  BY <1>1, <1>2, ReconcileIs DEF reconcile_orphans
<1>13. ProcsInv'
  <2>1. ASSUME NEW p \in tree'.procs
        PROVE  /\ p = [svc |-> p.svc, n |-> p.n, run |-> p.run, role |-> p.role, cg |-> p.cg]
               /\ p.svc \in Services /\ p.n \in 1 .. starts /\ p.run \in 1 .. run'
               /\ p.role \in {"main", "child"}
               /\ p.cg \in {Elsewhere, Group(p.svc)} \/ (p.cg = Inner(p.svc) /\ plan[p.svc].delegate # {})
               /\ p.n # 0
    <3>1. /\ p = [svc |-> p.svc, n |-> p.n, run |-> p.run, role |-> p.role, cg |-> p.cg]
          /\ p.svc \in Services /\ p.n \in 1 .. starts /\ p.run \in 1 .. run
          /\ p.role \in {"main", "child"}
          /\ p.cg \in {Elsewhere, Group(p.svc)} \/ (p.cg = Inner(p.svc) /\ plan[p.svc].delegate # {})
      BY <1>2, <1>12 DEF ProcsInv
    <3>2. p.n # 0
      BY <1>2, <1>12, ProcNumbers
    <3> QED BY <1>6, <3>1, <3>2
  <2>2. \A p, q \in tree'.procs : p.n = q.n /\ p.role = "main" /\ q.role = "main" => p = q
    BY <1>2, <1>12 DEF ProcsInv
  <2> QED BY <1>4, <1>5, <2>1, <2>2 DEF ProcsInv
<1>14. TreeInv'
  <2>1. TreeOK(tree)'
    BY <1>5, <1>12 DEF TreeOK
  <2> QED BY <1>4, <1>5, <2>1 DEF TreeInv, Spawned
<1>15. OrphansEnd'
  <2> SUFFICES ASSUME looks_for_orphans, NEW p \in tree'.procs, p.cg # Elsewhere, plan[p.svc].delegate = {}
               PROVE  FALSE
    BY <1>5 DEF OrphansEnd
  <2>1. p \in tree.procs /\ p.cg \notin Leaves(tree)
    <3>1. tree' \in reconcile_cgroup_tree(tree)
      BY <1>1 DEF reconcile_orphans
    <3> QED BY <1>2, <3>1, ReconcileIs
  <2>2. p.svc \in Services /\ p.cg = Group(p.svc)
    BY <1>2, <2>1 DEF ProcsInv
  <2>3. Group(p.svc) \in tree.dirs
    BY <1>2, <2>1, <2>2 DEF TreeOK
  <2> QED BY <1>2, <2>1, <2>2, <2>3, OnlyChild
<1> QED BY <1>4, <1>7, <1>8, <1>9, <1>10, <1>11, <1>13, <1>14, <1>15 DEF FilesIInv

-----------------------------------------------------------------------------
(***************************************************************************)
(* The theorems.                                                           *)
(***************************************************************************)

LEMMA FilesInit ==
  ASSUME Init
  PROVE  FilesIInv
<1>1. /\ plan \in Plans /\ up = TRUE /\ run = 1 /\ starts = 0 /\ op = Idle /\ held = [s \in Services |-> Rest]
      /\ full = {} /\ tmps = {} /\ notes = {}
      /\ sock \in [UNION {ToSet(plan[s].listeners) : s \in Services} -> {None, File}]
      /\ tree = [dirs |-> {<<>>}, filtered |-> {}, procs |-> {}, enabled |-> [g \in Groups |-> {}]]
  BY DEF Init
<1>2. MaxStarts \in Nat /\ MaxRuns \in Nat \ {0}
  BY PlansAssumption
<1>3. op.svc = "" /\ op.step = "idle" /\ op.n = 0 /\ op = [svc |-> op.svc, step |-> op.step, n |-> op.n]
  BY <1>1, IdleIs
<1>4. "idle" \notin Working /\ "idle" \in Steps
  BY DEF Working, Preparing, Unspawned, Spawned, Steps
<1>5. OpInv
  <2>1. run \in 1 .. MaxRuns /\ starts \in 0 .. MaxStarts /\ up \in BOOLEAN
    BY <1>1, <1>2
  <2> QED BY <1>1, <1>3, <1>4, <2>1 DEF OpInv, Working
<1>6. /\ Fields(Rest, 0) /\ Uses(Rest) = {} /\ Rest.phase = "down" /\ Rest.main = 0
      /\ Rest.credential_directory = FALSE /\ Rest.directories = <<>>
      /\ Rest.private_tmp_paths = 0 /\ Rest.notify_path = 0 /\ Rest.cgroup_path = FALSE
  BY RestFields
<1>7. DOMAIN held = Services /\ \A s \in Services : held[s] = Rest
  BY <1>1
<1>8. HeldInv /\ NumbersInv
  BY <1>1, <1>6, <1>7 DEF HeldInv, NumbersInv
<1>9. CredInv
  <2>1. PICK f : cred = [s \in Services |-> IF s \in f THEN [state |-> "foreign", run |-> 0] ELSE NoCred]
    BY DEF Init
  <2>2. NoCred = [state |-> "none", run |-> 0]
    BY DEF NoCred
  <2>3. DOMAIN cred = Services
    BY <2>1
  <2>4. ASSUME NEW s \in Services
        PROVE  /\ cred[s] = [state |-> cred[s].state, run |-> cred[s].run]
               /\ cred[s].state \in {"none", "bare", "marked", "full", "foreign"}
               /\ cred[s].run \in 0 .. run /\ cred[s].run # run
    <3>1. cred[s] = [state |-> "foreign", run |-> 0] \/ cred[s] = [state |-> "none", run |-> 0]
      BY <2>1, <2>2
    <3> QED BY <1>1, <3>1
  <2> QED BY <1>3, <1>6, <1>7, <2>3, <2>4 DEF CredInv
<1>10. TmpsInv /\ NotesInv
  BY <1>1, <1>6, <1>7 DEF TmpsInv, NotesInv
<1>11. SockInv
  <2>1. DOMAIN sock = UNION {ToSet(plan[s].listeners) : s \in Services}
    BY <1>1
  <2>2. \A x \in DOMAIN sock : sock[x] \in {0, -1}
    BY <1>1 DEF None, File
  <2>3. \A s \in Services : OwnListeners(s) \subseteq DOMAIN sock
    BY <2>1 DEF OwnListeners
  <2> QED BY <1>1, <1>6, <1>7, <2>1, <2>2, <2>3 DEF SockInv, File
<1>12. DirsInv
  <2>1. DOMAIN <<>> = {}
    OBVIOUS
  <2> QED BY <1>1, <1>6, <1>7, <2>1 DEF DirsInv
<1>13. /\ tree.dirs = {<<>>} /\ tree.filtered = {} /\ tree.procs = {} /\ tree.enabled = [g \in Groups |-> {}]
       /\ tree = [dirs |-> tree.dirs, filtered |-> tree.filtered, procs |-> tree.procs, enabled |-> tree.enabled]
  BY <1>1
<1>14. ProcsInv /\ OrphansEnd
  BY <1>13 DEF ProcsInv, OrphansEnd
<1>15. TreeInv
  <2>1. Ancestors(<<>>) = {}
    BY DEF Ancestors
  <2>2. <<>> \in Groups
    BY DEF Groups
  <2>3. \A s \in Services : Inner(s) # <<>>
    BY <1>1, <2>1, ServiceGroups
  <2>4. DOMAIN tree.enabled = Groups
    BY <1>13
  <2>5. TreeOK(tree)
    BY <1>13, <2>1, <2>2, <2>3, <2>4 DEF TreeOK
  <2> QED BY <1>3, <1>6, <1>7, <2>5 DEF TreeInv, Spawned
<1> QED BY <1>5, <1>8, <1>9, <1>10, <1>11, <1>12, <1>14, <1>15 DEF FilesIInv

LEMMA FilesNext ==
  ASSUME FilesIInv, [Next]_vars
  PROVE  FilesIInv'
<1>1. CASE UNCHANGED vars
  <2>1. /\ UNCHANGED <<plan, up, run, starts, op, held, cred, dirs, tmps, notes, sock>>
        /\ full' = full /\ tree' = tree /\ made' = made
    BY <1>1 DEF vars
  <2>2. full' \subseteq dirs
    BY <2>1 DEF FilesIInv, DirsInv
  <2> QED BY <2>1, <2>2, StillKeeps
<1>2. CASE Step /\ Remembered
  <2> USE <1>2
  <2>1. CASE \E s \in Services : Start(s) \/ Spawn(s) \/ Respawn(s)
    BY <2>1, BeginKeeps
  <2>2. CASE \E s \in Services : CallOff(s) \/ close_listeners(s) \/ Drop(s)
    BY <2>2, ServiceEnds, EndingKeeps
  <2>3. CASE \E s \in Services : handle_exit(s)
    BY <2>3, ExitKeeps
  <2>4. CASE ClearCredentials \/ CreateCredentials \/ MarkCredentials
    BY <2>4, CredentialsKeep
  <2>5. CASE FillCredentials
    BY <2>5, FillKeeps
  <2>6. CASE FailPreparing \/ UndoStart
    BY <2>6, PreparingEnds, EndingKeeps
  <2>7. CASE FailCredentials
    BY <2>7, FailCredentialsKeeps
  <2>8. CASE prepare_directories
    BY <2>8, DirectoriesKeep
  <2>9. CASE prepare_private_tmp
    BY <2>9, PrivateTmpKeeps
  <2>10. CASE prepare_notify_socket
    BY <2>10, NotifyKeeps
  <2>11. CASE FailSpawning \/ FailAttach \/ FailRegister
    BY <2>11, SpawningEnds, EndingKeeps
  <2>12. CASE CreateCgroup \/ prepare_cgroup
    BY <2>12, CreateCgroupKeeps, PrepareCgroupKeeps
  <2>13. CASE FailLimits
    BY <2>13, LimitsEnd, EndingKeeps
  <2>14. CASE Fork \/ Attach \/ Register
    BY <2>14, ForkKeeps, AttachKeeps, RegisterKeeps
  <2>15. CASE \E p \in tree.procs : ForkChild(p) \/ MoveDown(p) \/ WriteFile(p) \/ End(p)
    BY <2>15, ForkChildKeeps, MoveDownKeeps, WriteFileKeeps, EndKeeps
  <2>16. CASE Crash \/ Dropped \/ Boot
    BY <2>16, CrashKeeps, DroppedKeeps, BootKeeps
  <2>17. CASE open_listeners
    BY <2>17, ListenersKeep
  <2> QED BY <2>1, <2>2, <2>3, <2>4, <2>5, <2>6, <2>7, <2>8, <2>9, <2>10, <2>11, <2>12,
             <2>13, <2>14, <2>15, <2>16, <2>17 DEF Step
<1> QED BY <1>1, <1>2 DEF Next, Remembered

\* FilesIInv is an invariant: no order of starts, failures, ends, kills and
\* new daemons leads out of it.
THEOREM FilesInductive == Spec => []FilesIInv
BY FilesInit, FilesNext, PTL DEF Spec

LEMMA FilesAgree ==
  ASSUME FilesIInv
  PROVE  FilesInv
<1>1. /\ OpInv /\ HeldInv /\ CredInv /\ TmpsInv /\ NotesInv /\ SockInv /\ DirsInv /\ ProcsInv /\ TreeInv
  BY DEF FilesIInv
<1>2. starts \in Nat /\ starts <= MaxStarts /\ MaxStarts \in Nat
  BY <1>1, CountersAre
<1>3. TypeOK
  <2>1. up \in BOOLEAN /\ run \in 1 .. MaxRuns /\ starts \in 0 .. MaxStarts
    BY <1>1 DEF OpInv
  <2>2. op.svc \in Services \cup {""} /\ op.n \in 0 .. MaxStarts
    <3>1. (op.svc \in Services /\ op.n \in 1 .. starts) \/ (op.svc = "" /\ op.n = 0)
      BY <1>1 DEF OpInv
    <3>2. op.svc \in Services \cup {""}
      BY <3>1
    <3>3. op.n \in 1 .. starts \/ op.n = 0
      BY <3>1
    <3>4. 1 .. starts \subseteq 0 .. MaxStarts /\ 0 \in 0 .. MaxStarts
      BY <1>2
    <3> QED BY <3>2, <3>3, <3>4
  <2>3. \A s \in Services :
          /\ held[s].phase \in {"down", "prepared", "running", "listening", "exited", "backoff"}
          /\ cred[s].state \in {"none", "bare", "marked", "full", "foreign"}
    BY <1>1 DEF HeldInv, Fields, Phases, CredInv
  <2>4. \A x \in DOMAIN sock : sock[x] \in {File} \cup 0 .. MaxStarts
    <3>1. 0 .. starts \subseteq 0 .. MaxStarts
      BY <1>2
    <3> QED BY <1>1, <3>1 DEF SockInv
  <2>5. \A t \in tmps \cup notes : t.svc \in Services /\ t.run \in 1 .. run
    BY <1>1 DEF TmpsInv, NotesInv, Made_by
  <2>6. /\ \A g \in tree.dirs : Ancestors(g) \subseteq tree.dirs
        /\ \A p \in tree.procs : p.cg \in tree.dirs \cup {Elsewhere}
    BY <1>1 DEF TreeInv, TreeOK
  <2> QED BY <1>1, <2>1, <2>2, <2>3, <2>4, <2>5, <2>6 DEF TypeOK, DirsInv
<1>4. NothingIsLost
  <2> SUFFICES ASSUME up, op = Idle
               PROVE  /\ \A t \in tmps : t.run = run => held[t.svc].private_tmp_paths = t.n
                      /\ \A x \in notes : x.run = run => held[x.svc].notify_path = x.n
                      /\ \A s \in Services : cred[s].run = run => held[s].credential_directory
                      /\ \A s \in Services : \A x \in OwnListeners(s) :
                            (run = 1 /\ sock[x] > 0 /\ plan[s].remove_on_stop) => held[s].phase = "listening"
    BY DEF NothingIsLost
  <2>1. op.step = "idle"
    BY IdleIs
  <2>2. \A t \in tmps : t.run = run => held[t.svc].private_tmp_paths = t.n
    BY <1>1 DEF TmpsInv
  <2>3. \A x \in notes : x.run = run => held[x.svc].notify_path = x.n
    BY <1>1, <2>1 DEF NotesInv, Spawned
  <2>4. \A s \in Services : cred[s].run = run => held[s].credential_directory
    BY <1>1, <2>1 DEF CredInv
  <2>5. \A s \in Services : \A x \in OwnListeners(s) :
          (run = 1 /\ sock[x] > 0 /\ plan[s].remove_on_stop) => held[s].phase = "listening"
    BY <1>1 DEF SockInv
  <2> QED BY <2>2, <2>3, <2>4, <2>5
<1>5. ResourcesStay
  <2> SUFFICES ASSUME NEW s \in Services
               PROVE  /\ held[s].credential_directory => cred[s].state = "full"
                      /\ held[s].phase = "listening" => \A x \in OwnListeners(s) : sock[x] = held[s].main
                      /\ held[s].private_tmp_paths # 0 =>
                            \E t \in tmps : t.svc = s /\ t.n = held[s].private_tmp_paths
                      /\ \A i \in DOMAIN held[s].directories :
                            \/ held[s].directories[i].path \in dirs
                            \/ \E r \in Services \ {s} : \E j \in DOMAIN plan[r].directories :
                                  plan[r].directories[j].path = held[s].directories[i].path
    BY DEF ResourcesStay
  <2>1. held[s].credential_directory => cred[s].state = "full"
    BY <1>1 DEF CredInv
  <2>2. held[s].phase = "listening" => \A x \in OwnListeners(s) : sock[x] = held[s].main
    BY <1>1 DEF SockInv
  <2>3. held[s].private_tmp_paths # 0 => \E t \in tmps : t.svc = s /\ t.n = held[s].private_tmp_paths
    BY <1>1 DEF TmpsInv
  <2>4. ASSUME NEW i \in DOMAIN held[s].directories
        PROVE  \/ held[s].directories[i].path \in dirs
               \/ \E r \in Services \ {s} : \E j \in DOMAIN plan[r].directories :
                     plan[r].directories[j].path = held[s].directories[i].path
    BY <1>1 DEF DirsInv, Listed
  <2> QED BY <2>1, <2>2, <2>3, <2>4
<1> QED BY <1>3, <1>4, <1>5 DEF FilesInv

\* What exists is held and what is held exists: no error path of start or
\* spawn_main, early end, restart or restart of the daemon loses a credential
\* directory, a private /tmp, a notification socket or the path of a listener,
\* and none of them is taken from a service that still uses it.
THEOREM FilesAreHeld == Spec => []FilesInv
BY FilesInductive, FilesAgree, PTL

LEMMA GroupsHold ==
  ASSUME FilesIInv
  PROVE  GroupsInv
<1>1. TreeInv /\ OrphansEnd /\ plan \in Plans
  BY DEF FilesIInv, OpInv
<1>2. ASSUME NEW s \in Services, held[s].cgroup_path
      PROVE  /\ \A p \in Main(held[s].main) : p.cg # Elsewhere /\ Within(Group(s), p.cg)
             /\ \A a \in Ancestors(Group(s)) : plan[s].controllers \subseteq tree.enabled[a]
             /\ plan[s].devices => Group(s) \in tree.filtered
  <2>1. Limits(tree, s) /\ Inside(s, held[s].main)
    BY <1>1, <1>2 DEF TreeInv
  <2>2. /\ Group(s) # Elsewhere /\ Inner(s) # Elsewhere
        /\ Within(Group(s), Group(s)) /\ Within(Group(s), Inner(s))
    BY <1>1, ServiceGroups
  <2> QED BY <2>1, <2>2 DEF Limits, Inside
<1> QED BY <1>1, <1>2 DEF GroupsInv, Contained

\* A running service is in its control group or below, the slices above it pass
\* on the controllers it is limited by and its device filter is in place, even
\* while other services of the slice come and go; and a daemon that looks for
\* processes of an earlier one ends those it finds in a group.
THEOREM GroupsHoldTheirs == Spec => []GroupsInv
BY FilesInductive, GroupsHold, PTL

\* A service that ends takes nothing that is not its own.
LEMMA EndingForeign ==
  ASSUME FilesIInv, NEW s, Ending(s)
  PROVE  /\ dirs \ dirs' \subseteq made
         /\ \A r \in Services : cred[r].state = "foreign" => cred'[r] = cred[r]
         /\ \A x \in DOMAIN sock : sock[x] = File => sock'[x] = File
<1>1. /\ s \in Services /\ cleanup_directories(s) /\ sock' \in {sock, Closed(s)}
      /\ DirsInv /\ CredInv /\ SockInv
  BY DEF Ending, FilesIInv
<1>2. dirs \ dirs' \subseteq made
  <2>1. dirs' \in Emptied(dirs, held[s].directories)
    BY <1>1 DEF cleanup_directories
  <2> SUFFICES ASSUME NEW d \in dirs \ dirs' PROVE d \in made
    OBVIOUS
  <2>2. PICK i \in DOMAIN held[s].directories :
          held[s].directories[i].path = d /\ held[s].directories[i].cleanup
    BY <2>1, EmptiedIs
  <2> QED BY <1>1, <2>2 DEF DirsInv
<1>3. \A r \in Services : cred[r].state = "foreign" => cred'[r] = cred[r]
  <2>1. cred' = [cred EXCEPT ![s] = IF held[s].credential_directory THEN NoCred ELSE cred[s]]
    BY <1>1 DEF cleanup_directories
  <2>2. cred[s].state = "foreign" => ~ held[s].credential_directory
    BY <1>1 DEF CredInv
  <2> QED BY <1>1, <2>1, <2>2 DEF CredInv
<1>4. \A x \in DOMAIN sock : sock[x] = File => sock'[x] = File
  <2>1. CASE sock' = sock
    BY <2>1
  <2>2. CASE sock' = Closed(s)
    <3> SUFFICES ASSUME NEW x \in DOMAIN sock, sock[x] = File PROVE sock'[x] = File
      OBVIOUS
    <3>1. ~ (held[s].phase = "listening" /\ x \in ToSet(plan[s].listeners))
      BY <1>1 DEF SockInv
    <3> QED BY <2>2, <3>1 DEF Closed
  <2> QED BY <1>1, <2>1, <2>2
<1> QED BY <1>2, <1>3, <1>4

\* Credential directories change only when they are FractalD's.
LEMMA CredentialsForeign ==
  ASSUME FilesIInv,
         ClearCredentials \/ CreateCredentials \/ MarkCredentials \/ FillCredentials \/ FailCredentials
  PROVE  /\ dirs' = dirs /\ sock' = sock
         /\ \A r \in Services : cred[r].state = "foreign" => cred'[r] = cred[r]
<1>1. dirs' = dirs /\ sock' = sock
  BY DEF ClearCredentials, CreateCredentials, MarkCredentials, FillCredentials, FailCredentials
<1>2. CredInv
  BY DEF FilesIInv
<1>3. cred' = cred \/ (cred[op.svc].state # "foreign" /\ \E c : cred' = [cred EXCEPT ![op.svc] = c])
  <2>1. CASE ClearCredentials
    BY <2>1 DEF ClearCredentials
  <2>2. CASE CreateCredentials
    BY <1>2, <2>2 DEF CreateCredentials, CredInv, At, SetCred
  <2>3. CASE MarkCredentials
    BY <1>2, <2>3 DEF MarkCredentials, CredInv, At, SetCred
  <2>4. CASE FillCredentials
    BY <1>2, <2>4 DEF FillCredentials, CredInv, At, SetCred
  <2>5. CASE FailCredentials
    BY <1>2, <2>5 DEF FailCredentials, CredInv
  <2> QED BY <2>1, <2>2, <2>3, <2>4, <2>5
<1> QED BY <1>1, <1>2, <1>3 DEF CredInv

LEMMA DirectoriesForeign ==
  ASSUME FilesIInv, prepare_directories
  PROVE  dirs \subseteq dirs' /\ cred' = cred /\ sock' = sock
<1> DEFINE n == Len(plan[op.svc].directories)
<1>1. op.step = "directories" /\ cred' = cred /\ sock' = sock
  BY DEF prepare_directories, At
<1>2. plan \in Plans /\ op.svc \in Services
  <2>1. op.step \in Working
    BY <1>1 DEF Working, Preparing
  <2> QED BY <2>1 DEF FilesIInv, OpInv
<1>3. n \in Nat
  BY <1>2, PlansAssumption DEF Services, Descriptor
<1>4. ASSUME dirs' = Present(n) PROVE dirs \subseteq dirs'
  <2>1. n \in 0 .. n
    BY <1>3
  <2>2. dirs \subseteq Present(n)
    BY <1>2, <2>1, MadeIs
  <2> QED BY <1>4, <2>2
<1>5. ASSUME NEW k \in 0 .. (n - 1), NEW parents, dirs' \in Emptied(Present(k) \cup parents, Made(k))
      PROVE  dirs \subseteq dirs'
  <2>1. k \in 0 .. n
    BY <1>3, <1>5
  <2>2. /\ dirs \subseteq Present(k)
        /\ \A i \in DOMAIN Made(k) : Made(k)[i].cleanup => Made(k)[i].path \notin dirs
    BY <1>2, <2>1, MadeIs
  <2>3. \A d \in (Present(k) \cup parents) \ dirs' : \E i \in DOMAIN Made(k) : Made(k)[i].path = d /\ Made(k)[i].cleanup
    BY <1>5, EmptiedIs
  <2> QED BY <2>2, <2>3
<1> QED BY <1>1, <1>4, <1>5 DEF prepare_directories

LEMMA ListenersForeign ==
  ASSUME open_listeners
  PROVE  /\ dirs' = dirs /\ cred' = cred
         /\ \A x \in DOMAIN sock : sock[x] = File => sock'[x] = File
<1>1. dirs' = dirs /\ cred' = cred
  BY DEF open_listeners
<1>2. ASSUME NEW xs, NEW n, Free(xs), Bind(xs, n)
      PROVE  \A x \in DOMAIN sock : sock[x] = File => sock'[x] = File
  BY <1>2 DEF Free, Bind
<1> QED BY <1>1, <1>2 DEF open_listeners

LEMMA CrashForeign ==
  ASSUME FilesIInv, Crash
  PROVE  /\ dirs \subseteq dirs' /\ sock' = sock
         /\ \A r \in Services : cred[r].state = "foreign" => cred'[r] = cred[r]
<1>1. dirs \subseteq dirs' /\ sock' = sock
  BY DEF Crash, Present
<1>2. DOMAIN cred = Services
  BY DEF FilesIInv, CredInv
<1>3. cred' = cred \/ \E s \in Services : cred[s].state \in {"marked", "full"} /\ cred' = [cred EXCEPT ![s].state = "bare"]
  BY DEF Crash
<1> QED BY <1>1, <1>2, <1>3

\* Every step keeps what FractalD has not made.
LEMMA ForeignNext ==
  ASSUME FilesIInv, [Next]_vars
  PROVE  /\ dirs \ dirs' \subseteq made
         /\ \A s \in Services : cred[s].state = "foreign" => cred'[s] = cred[s]
         /\ \A x \in DOMAIN sock : sock[x] = File => sock'[x] = File
<1>1. CASE dirs' = dirs /\ cred' = cred /\ sock' = sock
  BY <1>1
<1>2. CASE UNCHANGED vars
  BY <1>1, <1>2 DEF vars
<1>3. CASE \E s \in Services : CallOff(s) \/ close_listeners(s) \/ Drop(s)
  BY <1>3, ServiceEnds, EndingForeign
<1>4. CASE \E s \in Services : handle_exit(s)
  <2>1. PICK s \in Services : handle_exit(s)
    BY <1>4
  <2>2. CASE MarkSpawnFailed(s)
    BY <2>1, <2>2, ServiceEnds, EndingForeign
  <2>3. CASE ~ MarkSpawnFailed(s)
    BY <1>1, <2>1, <2>3 DEF handle_exit
  <2> QED BY <2>2, <2>3
<1>5. CASE FailPreparing \/ UndoStart \/ FailLimits \/ FailSpawning \/ FailAttach \/ FailRegister
  BY <1>5, PreparingEnds, LimitsEnd, SpawningEnds, EndingForeign
<1>6. CASE ClearCredentials \/ CreateCredentials \/ MarkCredentials \/ FillCredentials \/ FailCredentials
  BY <1>6, CredentialsForeign
<1>7. CASE prepare_directories
  BY <1>7, DirectoriesForeign
<1>8. CASE open_listeners
  BY <1>8, ListenersForeign
<1>9. CASE Crash
  BY <1>9, CrashForeign
<1>10. CASE \E s \in Services : Start(s) \/ Spawn(s) \/ Respawn(s)
  BY <1>1, <1>10 DEF Start, Spawn, Respawn
<1>11. CASE prepare_private_tmp \/ prepare_notify_socket \/ CreateCgroup \/ prepare_cgroup
  BY <1>1, <1>11 DEF prepare_private_tmp, prepare_notify_socket, CreateCgroup, prepare_cgroup
<1>12. CASE Fork \/ Attach \/ Register \/ Dropped \/ Boot
  BY <1>1, <1>12 DEF Fork, Attach, Register, Dropped, Boot
<1>13. CASE \E p \in tree.procs : ForkChild(p) \/ MoveDown(p) \/ WriteFile(p) \/ End(p)
  BY <1>1, <1>13 DEF ForkChild, MoveDown, WriteFile, End
<1> QED BY <1>2, <1>3, <1>4, <1>5, <1>6, <1>7, <1>8, <1>9, <1>10, <1>11, <1>12, <1>13 DEF Next, Step

\* Nothing that FractalD has not made is removed, by any step, error path or
\* clean-up: not a directory that was there before the service, not a
\* credential directory without the marker, not a file in the way of a listener.
THEOREM ForeignStays == Spec => ForeignIsKept
<1>1. FilesIInv /\ [Next]_vars =>
        [/\ dirs \ dirs' \subseteq made
         /\ \A s \in Services : cred[s].state = "foreign" => cred'[s] = cred[s]
         /\ \A x \in DOMAIN sock : sock[x] = File => sock'[x] = File]_vars
  BY ForeignNext
<1> QED BY <1>1, FilesInductive, PTL DEF Spec, ForeignIsKept
=============================================================================
