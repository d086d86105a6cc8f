--------------------------- MODULE HostToolsProofs ---------------------------
(* Theorems about the tools of the host: the accounts, the markers and the *)
(* index of the package trigger, the machine id, the kernels, the storage  *)
(* services, and the resolver with its files, its cache and its client.    *)
(*                                                                         *)
(* A step of the host is a step of one tool that leaves the others alone,  *)
(* so the invariant of each tool is shown of its own steps.                *)
EXTENDS HostTools, FiniteSetTheorems, SequenceTheorems, TLAPS

(* ------------------------------- numbers ------------------------------- *)

(***************************************************************************)
(* The least of two numbers.                                               *)
(***************************************************************************)
LEMMA LeastOfTwo ==
  ASSUME NEW a \in Int, NEW b \in Int
  PROVE  Min({a, b}) \in {a, b} /\ Min({a, b}) <= a
<1>1. \E x \in {a, b} : \A y \in {a, b} : x <= y
  OBVIOUS
<1> QED BY <1>1 DEF Min

(***************************************************************************)
(* The greatest of two numbers.                                            *)
(***************************************************************************)
LEMMA GreatestOfTwo ==
  ASSUME NEW a \in Int, NEW b \in Int
  PROVE  Max({a, b}) \in {a, b} /\ Max({a, b}) >= b
<1>1. \E x \in {a, b} : \A y \in {a, b} : x >= y
  OBVIOUS
<1> QED BY <1>1 DEF Max

(***************************************************************************)
(* The least of a set of numbers.                                          *)
(***************************************************************************)
LEMMA LeastOf ==
  ASSUME NEW S \in SUBSET Nat, S # {}
  PROVE  Min(S) \in S /\ \A m \in S : Min(S) <= m
<1>1. IsWellFoundedOn(OpToRel(<, Nat), Nat)
  BY NatLessThanWellFounded
<1>2. PICK n \in S : \A m \in S : <<m, n>> \notin OpToRel(<, Nat)
  BY <1>1, WFMin
<1>3. \A m \in S : ~ (m < n)
  BY <1>2 DEF OpToRel
<1>4. \A m \in S : n <= m
  BY <1>3
<1> QED BY <1>4 DEF Min

(***************************************************************************)
(* The greatest of a set of numbers between two bounds.                    *)
(***************************************************************************)
LEMMA GreatestOf ==
  ASSUME NEW low \in Nat, NEW high \in Nat, NEW S \in SUBSET (low .. high), S # {}
  PROVE  Max(S) \in S
<1> DEFINE T == {n \in Nat : high - n \in S}
<1>1. T # {}
  <2>1. PICK x : x \in S
    OBVIOUS
  <2>2. high - x \in Nat /\ high - (high - x) = x
    BY <2>1
  <2> QED BY <2>1, <2>2
<1>2. PICK m \in T : \A n \in T : m <= n
  BY <1>1, LeastOf
<1>3. high - m \in S /\ \A y \in S : high - m >= y
  <2>1. high - m \in S /\ m \in Nat
    BY <1>2
  <2>2. ASSUME NEW y \in S PROVE high - m >= y
    <3>1. y \in Nat /\ high - y \in Nat /\ high - (high - y) = y
      OBVIOUS
    <3>2. high - y \in T
      BY <3>1
    <3>3. m <= high - y
      BY <1>2, <3>2
    <3> QED BY <2>1, <3>1, <3>3
  <2> QED BY <2>1, <2>2
<1>4. \E x \in S : \A y \in S : x >= y
  BY <1>3
<1> QED BY <1>4 DEF Max

(* ------------------------------- accounts ------------------------------ *)

Files == {"passwd", "group", "shadow", "gshadow"}
EtcFields == Files \cup {"hasShadow", "hasGshadow"}
DbFields == EtcFields \cup {"range", "changed", "err"}

\* What holds of account files at every instant, on disk and in memory.
Sound(db) ==
  /\ \A n \in DOMAIN db.group : DOMAIN db.group[n] = {"gid", "members"}
  /\ \A m, n \in DOMAIN db.passwd : db.passwd[m].uid = db.passwd[n].uid => m = n
  /\ \A m, n \in DOMAIN db.group : db.group[m].gid = db.group[n].gid => m = n
  /\ DOMAIN db.gshadow \subseteq DOMAIN db.group

\* What holds of account files that no run has left half written: a user of
\* its own group has it, and the shadow files that exist are complete.
Whole(db) ==
  /\ \A u \in DOMAIN db.passwd : db.passwd[u].own =>
        u \in DOMAIN db.group /\ db.group[u].gid = db.passwd[u].gid
  /\ db.hasShadow => DOMAIN db.passwd \subseteq DOMAIN db.shadow
  /\ db.hasGshadow => DOMAIN db.group \subseteq DOMAIN db.gshadow

\* The files b have all that the files a have.
Extends(a, b) ==
  /\ \A n \in DOMAIN a.passwd : n \in DOMAIN b.passwd /\ b.passwd[n] = a.passwd[n]
  /\ \A n \in DOMAIN a.group : /\ n \in DOMAIN b.group
                               /\ b.group[n].gid = a.group[n].gid
                               /\ a.group[n].members \subseteq b.group[n].members
  /\ DOMAIN a.shadow \subseteq DOMAIN b.shadow
  /\ \A n \in DOMAIN a.gshadow : n \in DOMAIN b.gshadow /\ a.gshadow[n] \subseteq b.gshadow[n]
  /\ b.hasShadow = a.hasShadow /\ b.hasGshadow = a.hasGshadow

\* The databases in memory.
DbOK(db) ==
  /\ DOMAIN db = DbFields
  /\ db.range.low \in Nat /\ db.range.high \in Nat
  /\ db.changed \subseteq Files /\ db.err \in BOOLEAN
  /\ Sound(db)

\* What a directive may make of the databases in memory.
Grown(a, b) ==
  /\ DbOK(b) /\ Extends(a, b)
  /\ a.changed \subseteq b.changed
  /\ \A f \in Files : f \notin b.changed => b[f] = a[f]
  /\ Whole(a) => Whole(b)

(***************************************************************************)
(* Databases that nothing is done to have grown.                           *)
(***************************************************************************)
LEMMA GrownSelf ==
  ASSUME NEW a, DbOK(a)
  PROVE  Grown(a, a)
BY DEF Grown, Extends

(***************************************************************************)
(* Two changes that let the databases grow are one.                        *)
(***************************************************************************)
LEMMA GrownTwice ==
  ASSUME NEW a, NEW b, NEW c, Grown(a, b), Grown(b, c)
  PROVE  Grown(a, c)
<1>1. Extends(a, c)
  BY DEF Grown, Extends
<1>2. \A f \in Files : f \notin c.changed => c[f] = a[f]
  BY DEF Grown
<1> QED BY <1>1, <1>2 DEF Grown

(***************************************************************************)
(* A directive that is an error leaves the databases as they are.          *)
(***************************************************************************)
LEMMA FailedGrows ==
  ASSUME NEW a, DbOK(a)
  PROVE  Grown(a, Failed(a)) /\ Failed(a).err
<1> DEFINE b == [a EXCEPT !.err = TRUE]
<1>1. /\ DOMAIN b = DbFields /\ b.err = TRUE
      /\ \A f \in DbFields \ {"err"} : b[f] = a[f]
  BY DEF DbOK, DbFields, EtcFields, Files
<1> HIDE DEF b
<1>2. /\ b.passwd = a.passwd /\ b.group = a.group /\ b.shadow = a.shadow /\ b.gshadow = a.gshadow
      /\ b.hasShadow = a.hasShadow /\ b.hasGshadow = a.hasGshadow
      /\ b.range = a.range /\ b.changed = a.changed
  BY <1>1 DEF DbFields, EtcFields, Files
<1>3. DbOK(b) /\ Extends(a, b) /\ (Whole(a) => Whole(b))
  BY <1>1, <1>2 DEF DbOK, Sound, Extends, Whole
<1>4. \A f \in Files : b[f] = a[f]
  BY <1>1 DEF DbFields, EtcFields, Files
<1>5. Grown(a, b) /\ b.err
  BY <1>1, <1>2, <1>3, <1>4 DEF Grown
<1> QED BY <1>5 DEF Failed, b

(***************************************************************************)
(* What append does to the databases: one file has one line more, and is   *)
(* marked.                                                                 *)
(***************************************************************************)
LEMMA Appended ==
  ASSUME NEW a, DOMAIN a = DbFields, NEW file \in Files, NEW name, NEW line
  PROVE  LET b == append(a, file, name, line)
         IN  /\ DOMAIN b = DbFields
             /\ b[file] = Extended(a[file], name, line)
             /\ b.changed = a.changed \cup {file}
             /\ \A f \in DbFields \ {file, "changed"} : b[f] = a[f]
BY DEF append, DbFields, EtcFields, Files

(***************************************************************************)
(* A group made with a number no group has lets the databases grow, and the*)
(* group is there unless there was no number (create_group).               *)
(***************************************************************************)
LEMMA GroupGrows ==
  ASSUME NEW a, NEW name, NEW id, DbOK(a), name \notin DOMAIN a.group,
         \A n \in DOMAIN a.group : a.group[n].gid # id
  PROVE  LET b == create_group(a, name, id)
         IN  /\ Grown(a, b)
             /\ ~b.err => /\ name \in DOMAIN b.group /\ b.group[name].gid = id
                          /\ b.passwd = a.passwd /\ id # NoNumber
<1>1. CASE id = NoNumber
  BY <1>1, FailedGrows DEF create_group
<1>2. CASE id # NoNumber
  <2> DEFINE line == [gid |-> id, members |-> {}]
             one == append(a, "group", name, line)
             two == append(one, "gshadow", name, {})
             b == IF a.hasGshadow THEN two ELSE one
  <2>1. DOMAIN a = DbFields /\ "group" \in Files /\ "gshadow" \in Files
    BY DEF DbOK, Files
  <2>2. /\ DOMAIN one = DbFields /\ one.group = Extended(a.group, name, line)
        /\ one.changed = a.changed \cup {"group"}
        /\ \A f \in DbFields \ {"group", "changed"} : one[f] = a[f]
    BY <2>1, Appended
  <2> HIDE DEF one
  <2>3. /\ DOMAIN two = DbFields /\ two.gshadow = Extended(one.gshadow, name, {})
        /\ two.changed = one.changed \cup {"gshadow"}
        /\ \A f \in DbFields \ {"gshadow", "changed"} : two[f] = one[f]
    BY <2>1, <2>2, Appended
  <2> HIDE DEF two
  <2>4. /\ DOMAIN b = DbFields
        /\ \A f \in DbFields \ {"group", "gshadow", "changed"} : b[f] = a[f]
        /\ b.group = Extended(a.group, name, line)
        /\ \/ a.hasGshadow /\ b.gshadow = Extended(a.gshadow, name, {})
                 /\ b.changed = a.changed \cup {"group", "gshadow"}
           \/ ~a.hasGshadow /\ b.gshadow = a.gshadow /\ b.changed = a.changed \cup {"group"}
    BY <2>2, <2>3 DEF DbFields, EtcFields, Files
  <2> HIDE DEF b
  <2>5. /\ b.passwd = a.passwd /\ b.shadow = a.shadow
        /\ b.hasShadow = a.hasShadow /\ b.hasGshadow = a.hasGshadow
        /\ b.range = a.range /\ b.err = a.err
    BY <2>4 DEF DbFields, EtcFields, Files
  <2>6. /\ DOMAIN b.group = DOMAIN a.group \cup {name}
        /\ b.group[name] = line /\ \A n \in DOMAIN a.group : b.group[n] = a.group[n]
    BY <2>4 DEF Extended
  <2>7. /\ DOMAIN line = {"gid", "members"} /\ line.gid = id
    OBVIOUS
  <2> HIDE DEF line
  <2>8. \/ /\ a.hasGshadow /\ DOMAIN b.gshadow = DOMAIN a.gshadow \cup {name}
           /\ \A n \in DOMAIN a.gshadow : n # name => b.gshadow[n] = a.gshadow[n]
        \/ ~a.hasGshadow /\ b.gshadow = a.gshadow
    BY <2>4 DEF Extended
  <2>9. Sound(b)
    BY <2>5, <2>6, <2>7, <2>8 DEF Sound, DbOK
  <2>10. Extends(a, b)
    BY <2>5, <2>6, <2>8 DEF Extends, Sound, DbOK
  <2>11. Whole(a) => Whole(b)
    BY <2>5, <2>6, <2>8 DEF Whole
  <2>12. b.changed \subseteq Files /\ a.changed \subseteq b.changed
    BY <2>4 DEF DbOK, Files
  <2>13. \A f \in Files : f \notin b.changed => b[f] = a[f]
    BY <2>4 DEF Files, DbFields, EtcFields
  <2>14. Grown(a, b)
    BY <2>4, <2>5, <2>9, <2>10, <2>11, <2>12, <2>13 DEF Grown, DbOK
  <2>15. create_group(a, name, id) = b
    BY <1>2 DEF create_group, b, two, one, line
  <2> QED BY <1>2, <2>5, <2>6, <2>7, <2>14, <2>15
<1> QED BY <1>1, <1>2

(***************************************************************************)
(* A user made with a number no user has, and with its own group if it is  *)
(* to have one, lets the databases grow (create_user).                     *)
(***************************************************************************)
LEMMA UserGrows ==
  ASSUME NEW a, NEW name, NEW line, DbOK(a), name \notin DOMAIN a.passwd,
         \A n \in DOMAIN a.passwd : a.passwd[n].uid # line.uid,
         line.own => name \in DOMAIN a.group /\ a.group[name].gid = line.gid
  PROVE  LET b == create_user(a, name, line)
         IN  Grown(a, b) /\ (~b.err => name \in DOMAIN b.passwd)
<1>1. CASE NoNumber \in {line.uid, line.gid}
  BY <1>1, FailedGrows DEF create_user
<1>2. CASE NoNumber \notin {line.uid, line.gid}
  <2> DEFINE one == append(a, "passwd", name, line)
             two == append(one, "shadow", name, {})
             b == IF a.hasShadow THEN two ELSE one
  <2>1. DOMAIN a = DbFields /\ "passwd" \in Files /\ "shadow" \in Files
    BY DEF DbOK, Files
  <2>2. /\ DOMAIN one = DbFields /\ one.passwd = Extended(a.passwd, name, line)
        /\ one.changed = a.changed \cup {"passwd"}
        /\ \A f \in DbFields \ {"passwd", "changed"} : one[f] = a[f]
    BY <2>1, Appended
  <2> HIDE DEF one
  <2>3. /\ DOMAIN two = DbFields /\ two.shadow = Extended(one.shadow, name, {})
        /\ two.changed = one.changed \cup {"shadow"}
        /\ \A f \in DbFields \ {"shadow", "changed"} : two[f] = one[f]
    BY <2>1, <2>2, Appended
  <2> HIDE DEF two
  <2>4. /\ DOMAIN b = DbFields
        /\ \A f \in DbFields \ {"passwd", "shadow", "changed"} : b[f] = a[f]
        /\ b.passwd = Extended(a.passwd, name, line)
        /\ \/ a.hasShadow /\ b.shadow = Extended(a.shadow, name, {})
                 /\ b.changed = a.changed \cup {"passwd", "shadow"}
           \/ ~a.hasShadow /\ b.shadow = a.shadow /\ b.changed = a.changed \cup {"passwd"}
    BY <2>2, <2>3 DEF DbFields, EtcFields, Files
  <2> HIDE DEF b
  <2>5. /\ b.group = a.group /\ b.gshadow = a.gshadow
        /\ b.hasShadow = a.hasShadow /\ b.hasGshadow = a.hasGshadow
        /\ b.range = a.range /\ b.err = a.err
    BY <2>4 DEF DbFields, EtcFields, Files
  <2>6. /\ DOMAIN b.passwd = DOMAIN a.passwd \cup {name}
        /\ b.passwd[name] = line /\ \A n \in DOMAIN a.passwd : b.passwd[n] = a.passwd[n]
    BY <2>4 DEF Extended
  <2>7. \/ a.hasShadow /\ DOMAIN b.shadow = DOMAIN a.shadow \cup {name}
        \/ ~a.hasShadow /\ b.shadow = a.shadow
    BY <2>4 DEF Extended
  <2>8. Sound(b)
    BY <2>5, <2>6 DEF Sound, DbOK
  <2>9. Extends(a, b)
    BY <2>5, <2>6, <2>7 DEF Extends
  <2>10. Whole(a) => Whole(b)
    BY <2>5, <2>6, <2>7 DEF Whole
  <2>11. b.changed \subseteq Files /\ a.changed \subseteq b.changed
    BY <2>4 DEF DbOK, Files
  <2>12. \A f \in Files : f \notin b.changed => b[f] = a[f]
    BY <2>4 DEF Files, DbFields, EtcFields
  <2>13. Grown(a, b)
    BY <2>4, <2>5, <2>8, <2>9, <2>10, <2>11, <2>12 DEF Grown, DbOK
  <2>14. create_user(a, name, line) = b
    BY <1>2 DEF create_user, b, two, one
  <2> QED BY <2>6, <2>13, <2>14
<1> QED BY <1>1, <1>2

(***************************************************************************)
(* A number that allocate_id finds is nobody's.                            *)
(***************************************************************************)
LEMMA AllocatedIsFree ==
  ASSUME NEW a, DbOK(a)
  PROVE  allocate_id(a) = NoNumber \/ allocate_id(a) \notin used_ids(a)
<1> DEFINE free == (a.range.low .. a.range.high) \ used_ids(a)
<1>1. a.range.low \in Nat /\ a.range.high \in Nat /\ free \in SUBSET (a.range.low .. a.range.high)
  BY DEF DbOK
<1> HIDE DEF free
<1>2. free # {} => Max(free) \in free
  BY <1>1, GreatestOf
<1> QED BY <1>2 DEF allocate_id, free

(***************************************************************************)
(* The number that is taken in the end is the one asked for if it is free, *)
(* or nobody's.                                                            *)
(***************************************************************************)
LEMMA AnotherIsFree ==
  ASSUME NEW a, NEW id, NEW taken \in BOOLEAN, DbOK(a)
  PROVE  LET other == OrAnother(a, id, taken)
         IN  other = NoNumber \/ (other = id /\ ~taken) \/ other \notin used_ids(a)
BY AllocatedIsFree DEF OrAnother

(***************************************************************************)
(* ensure_group lets the databases grow and the group is there, unless it  *)
(* is an error.                                                            *)
(***************************************************************************)
LEMMA EnsureGroup ==
  ASSUME NEW a, NEW name, NEW req, DbOK(a)
  PROVE  LET b == ensure_group(a, name, req)
         IN  Grown(a, b) /\ (~b.err => name \in DOMAIN b.group)
<1>1. CASE name \in DOMAIN a.group
  BY <1>1, GrownSelf DEF ensure_group
<1>2. CASE name \notin DOMAIN a.group
  <2> DEFINE id == resolve_id(a, req)
             new == OrAnother(a, id, id_in_use(a, id))
  <2>1. id_in_use(a, id) \in BOOLEAN
    BY DEF id_in_use
  <2>2. new = NoNumber \/ new \notin used_ids(a)
    BY <2>1, AnotherIsFree DEF id_in_use
  <2>3. ensure_group(a, name, req) = create_group(a, name, new)
    BY <1>2 DEF ensure_group
  <2> HIDE DEF new
  <2>4. CASE new = NoNumber
    BY <2>3, <2>4, FailedGrows DEF create_group
  <2>5. CASE new \notin used_ids(a)
    <3>1. \A n \in DOMAIN a.group : a.group[n].gid # new
      BY <2>5 DEF used_ids
    <3> QED BY <1>2, <2>3, <3>1, GroupGrows
  <2> QED BY <2>2, <2>4, <2>5
<1> QED BY <1>1, <1>2

(***************************************************************************)
(* ensure_user lets the databases grow and the user is there, unless it is *)
(* an error: with a group of its choice, with the group of its name, or    *)
(* with one made for it.                                                   *)
(***************************************************************************)
LEMMA EnsureUser ==
  ASSUME NEW a, NEW name, NEW req, NEW primary, DbOK(a)
  PROVE  LET b == ensure_user(a, name, req, primary)
         IN  Grown(a, b) /\ (~b.err => name \in DOMAIN b.passwd)
<1> DEFINE id == resolve_id(a, req)
           gid == a.group[name].gid
           first == OrAnother(a, id, uid_in_use(a, id))
           second == OrAnother(a, id, uid_in_use_except(a, id, gid))
           third == OrAnother(a, id, id_in_use(a, id))
<1>1. /\ uid_in_use(a, id) \in BOOLEAN /\ uid_in_use_except(a, id, gid) \in BOOLEAN
      /\ id_in_use(a, id) \in BOOLEAN
  BY DEF id_in_use, uid_in_use, uid_in_use_except
<1>2. /\ first = NoNumber \/ \A n \in DOMAIN a.passwd : a.passwd[n].uid # first
      /\ second = NoNumber \/ \A n \in DOMAIN a.passwd : a.passwd[n].uid # second
      /\ third = NoNumber \/ third \notin used_ids(a)
  <2>1. ASSUME NEW x, x \notin used_ids(a) \/ ~uid_in_use(a, x)
        PROVE  \A n \in DOMAIN a.passwd : a.passwd[n].uid # x
    BY <2>1 DEF used_ids, uid_in_use
  <2>2. first = NoNumber \/ (first = id /\ ~uid_in_use(a, id)) \/ first \notin used_ids(a)
    BY <1>1, AnotherIsFree
  <2>3. \/ second = NoNumber \/ second \notin used_ids(a)
        \/ second = id /\ ~uid_in_use_except(a, id, gid)
    BY <1>1, AnotherIsFree
  <2>4. third = NoNumber \/ (third = id /\ ~id_in_use(a, id)) \/ third \notin used_ids(a)
    BY <1>1, AnotherIsFree
  <2> HIDE DEF first, second, third, id, gid
  <2> QED BY <2>1, <2>2, <2>3, <2>4 DEF uid_in_use_except, id_in_use
<1> HIDE DEF first, second, third
<1>3. CASE name \in DOMAIN a.passwd
  BY <1>3, GrownSelf DEF ensure_user
<1>4. CASE name \notin DOMAIN a.passwd /\ primary.how # "none"
  <2> DEFINE line == [uid |-> first, gid |-> primary_gid(a, primary), own |-> FALSE]
  <2>1. ensure_user(a, name, req, primary) = create_user(a, name, line)
    BY <1>4 DEF ensure_user, first
  <2>2. line.uid = first /\ ~line.own
    OBVIOUS
  <2> HIDE DEF line
  <2>3. CASE first = NoNumber
    BY <2>1, <2>2, <2>3, FailedGrows DEF create_user
  <2> QED BY <1>2, <1>4, <2>1, <2>2, <2>3, UserGrows
<1>5. CASE name \notin DOMAIN a.passwd /\ primary.how = "none" /\ name \in DOMAIN a.group
  <2> DEFINE line == [uid |-> second, gid |-> gid, own |-> TRUE]
  <2>1. ensure_user(a, name, req, primary) = create_user(a, name, line)
    BY <1>5 DEF ensure_user, second
  <2>2. line.uid = second /\ line.gid = a.group[name].gid
    OBVIOUS
  <2> HIDE DEF line
  <2>3. CASE second = NoNumber
    BY <2>1, <2>2, <2>3, FailedGrows DEF create_user
  <2> QED BY <1>2, <1>5, <2>1, <2>2, <2>3, UserGrows
<1>6. CASE name \notin DOMAIN a.passwd /\ primary.how = "none" /\ name \notin DOMAIN a.group
  <2> DEFINE line == [uid |-> third, gid |-> third, own |-> TRUE]
             one == create_group(a, name, third)
  <2>1. ensure_user(a, name, req, primary) = IF one.err THEN one ELSE create_user(one, name, line)
    BY <1>6 DEF ensure_user, third
  <2>2. line.uid = third /\ line.gid = third
    OBVIOUS
  <2> HIDE DEF line
  <2>3. CASE third = NoNumber
    BY <2>1, <2>3, FailedGrows DEF create_group
  <2>4. CASE third \notin used_ids(a)
    <3>1. /\ \A n \in DOMAIN a.group : a.group[n].gid # third
          /\ \A n \in DOMAIN a.passwd : a.passwd[n].uid # third
      BY <2>4 DEF used_ids
    <3>2. /\ Grown(a, one)
          /\ ~one.err => /\ name \in DOMAIN one.group /\ one.group[name].gid = third
                         /\ one.passwd = a.passwd
      BY <1>6, <3>1, GroupGrows
    <3> HIDE DEF one
    <3>3. CASE one.err
      BY <2>1, <3>2, <3>3
    <3>4. CASE ~one.err
      <4> DEFINE two == create_user(one, name, line)
      <4>1. DbOK(one)
        BY <3>2 DEF Grown
      <4>2. Grown(one, two) /\ (~two.err => name \in DOMAIN two.passwd)
        BY <1>6, <2>2, <3>1, <3>2, <3>4, <4>1, UserGrows
      <4> HIDE DEF two
      <4>3. Grown(a, two)
        BY <3>2, <4>2, GrownTwice
      <4>4. ensure_user(a, name, req, primary) = two
        BY <2>1, <3>4 DEF two
      <4> QED BY <4>2, <4>3, <4>4
    <3> QED BY <3>3, <3>4
  <2> QED BY <1>2, <2>3, <2>4
<1> QED BY <1>3, <1>4, <1>5, <1>6

(***************************************************************************)
(* add_member adds the user to the group, in both files, and takes nothing *)
(* away.                                                                   *)
(***************************************************************************)
LEMMA MemberGrows ==
  ASSUME NEW a, NEW user, NEW group, DbOK(a), group \in DOMAIN a.group
  PROVE  LET b == add_member(a, user, group)
         IN  /\ Grown(a, b) /\ b.err = a.err
             /\ user \in b.group[group].members
             /\ group \in DOMAIN b.gshadow => user \in b.gshadow[group]
<1> DEFINE one == IF user \in a.group[group].members THEN a
                  ELSE [a EXCEPT !.group[group].members = @ \cup {user},
                                 !.changed = @ \cup {"group"}]
           two == IF group \notin DOMAIN a.gshadow \/ user \in a.gshadow[group] THEN one
                  ELSE [one EXCEPT !.gshadow[group] = @ \cup {user},
                                   !.changed = @ \cup {"gshadow"}]
<1>1. DOMAIN a = DbFields /\ DOMAIN a.group[group] = {"gid", "members"}
  BY DEF DbOK, Sound
<1>2. /\ DOMAIN one = DbFields
      /\ \A f \in DbFields \ {"group", "changed"} : one[f] = a[f]
      /\ DOMAIN one.group = DOMAIN a.group
      /\ \A n \in DOMAIN a.group : n # group => one.group[n] = a.group[n]
      /\ DOMAIN one.group[group] = {"gid", "members"}
      /\ one.group[group].gid = a.group[group].gid
      /\ one.group[group].members = a.group[group].members \cup {user}
      /\ \/ one.group = a.group /\ one.changed = a.changed
         \/ one.changed = a.changed \cup {"group"}
  <2>1. CASE user \in a.group[group].members
    BY <1>1, <2>1
  <2>2. CASE user \notin a.group[group].members
    <3> DEFINE line == [a.group[group] EXCEPT !.members = @ \cup {user}]
               groups == [a.group EXCEPT ![group] = line]
    <3>1. /\ DOMAIN line = {"gid", "members"} /\ line.gid = a.group[group].gid
          /\ line.members = a.group[group].members \cup {user}
      BY <1>1
    <3>2. one = [a EXCEPT !.group = groups, !.changed = @ \cup {"group"}]
      BY <2>2
    <3> HIDE DEF line, one
    <3>3. /\ DOMAIN groups = DOMAIN a.group /\ groups[group] = line
          /\ \A n \in DOMAIN a.group : n # group => groups[n] = a.group[n]
      OBVIOUS
    <3> HIDE DEF groups
    <3>4. /\ DOMAIN one = DbFields /\ one.group = groups /\ one.changed = a.changed \cup {"group"}
          /\ \A f \in DbFields \ {"group", "changed"} : one[f] = a[f]
      BY <1>1, <3>2 DEF DbFields, EtcFields, Files
    <3> QED BY <3>1, <3>3, <3>4
  <2> QED BY <2>1, <2>2
<1> HIDE DEF one
<1>3. /\ DOMAIN two = DbFields
      /\ \A f \in DbFields \ {"gshadow", "changed"} : two[f] = one[f]
      /\ DOMAIN two.gshadow = DOMAIN a.gshadow
      /\ \A n \in DOMAIN a.gshadow : a.gshadow[n] \subseteq two.gshadow[n]
      /\ group \in DOMAIN a.gshadow => user \in two.gshadow[group]
      /\ \/ two.gshadow = a.gshadow /\ two.changed = one.changed
         \/ two.changed = one.changed \cup {"gshadow"}
  <2>1. one.gshadow = a.gshadow
    BY <1>2 DEF DbFields, EtcFields, Files
  <2>2. CASE group \notin DOMAIN a.gshadow \/ user \in a.gshadow[group]
    BY <1>2, <2>1, <2>2
  <2>3. CASE group \in DOMAIN a.gshadow /\ user \notin a.gshadow[group]
    <3> DEFINE lines == [a.gshadow EXCEPT ![group] = @ \cup {user}]
    <3>1. two = [one EXCEPT !.gshadow = lines, !.changed = @ \cup {"gshadow"}]
      BY <2>1, <2>3
    <3>2. /\ DOMAIN lines = DOMAIN a.gshadow /\ user \in lines[group]
          /\ \A n \in DOMAIN a.gshadow : a.gshadow[n] \subseteq lines[n]
      BY <2>3
    <3> HIDE DEF two, lines
    <3>3. /\ DOMAIN two = DbFields /\ two.gshadow = lines
          /\ two.changed = one.changed \cup {"gshadow"}
          /\ \A f \in DbFields \ {"gshadow", "changed"} : two[f] = one[f]
      BY <1>2, <3>1 DEF DbFields, EtcFields, Files
    <3> QED BY <3>2, <3>3
  <2> QED BY <2>2, <2>3
<1> HIDE DEF two
<1>4. /\ two.passwd = a.passwd /\ two.shadow = a.shadow /\ two.group = one.group
      /\ two.hasShadow = a.hasShadow /\ two.hasGshadow = a.hasGshadow
      /\ two.range = a.range /\ two.err = a.err
  BY <1>2, <1>3 DEF DbFields, EtcFields, Files
<1>5. Sound(two) /\ Extends(a, two) /\ (Whole(a) => Whole(two))
  <2>1. \A n \in DOMAIN a.group :
          /\ n \in DOMAIN two.group /\ two.group[n].gid = a.group[n].gid
          /\ DOMAIN two.group[n] = {"gid", "members"}
          /\ a.group[n].members \subseteq two.group[n].members
    BY <1>2, <1>4 DEF DbOK, Sound
  <2>2. Sound(two)
    BY <1>2, <1>3, <1>4, <2>1 DEF DbOK, Sound
  <2>3. Extends(a, two)
    BY <1>3, <1>4, <2>1 DEF Extends
  <2>4. Whole(a) => Whole(two)
    BY <1>2, <1>3, <1>4, <2>1 DEF Whole
  <2> QED BY <2>2, <2>3, <2>4
<1>6. /\ two.changed \subseteq Files /\ a.changed \subseteq two.changed
      /\ \A f \in Files : f \notin two.changed => two[f] = a[f]
  <2>1. two.changed \subseteq Files /\ a.changed \subseteq two.changed
    BY <1>2, <1>3 DEF DbOK, Files
  <2>2. ASSUME NEW f \in Files, f \notin two.changed PROVE two[f] = a[f]
    BY <1>2, <1>3, <1>4, <2>2 DEF DbFields, EtcFields, Files
  <2> QED BY <2>1, <2>2
<1>7. Grown(a, two) /\ two.err = a.err
  BY <1>3, <1>4, <1>5, <1>6 DEF Grown, DbOK
<1>8. user \in two.group[group].members /\ (group \in DOMAIN two.gshadow => user \in two.gshadow[group])
  BY <1>2, <1>3, <1>4
<1>9. add_member(a, user, group) = two
  BY DEF add_member, two, one
<1> QED BY <1>7, <1>8, <1>9

(***************************************************************************)
(* An "r" directive changes the range of numbers and no account            *)
(* (parse_range).                                                          *)
(***************************************************************************)
LEMMA RangeGrows ==
  ASSUME NEW a, NEW low, NEW high, DbOK(a)
  PROVE  Grown(a, parse_range(a, low, high))
<1>1. CASE ~({low, high} \subseteq Nat \ Reserved) \/ low > high
  BY <1>1, FailedGrows DEF parse_range
<1>2. CASE ~(~({low, high} \subseteq Nat \ Reserved) \/ low > high)
  <2> DEFINE b == [a EXCEPT !.range = [low |-> low, high |-> high]]
  <2>1. /\ DOMAIN b = DbFields /\ \A f \in DbFields \ {"range"} : b[f] = a[f]
        /\ b.range = [low |-> low, high |-> high]
    BY DEF DbOK, DbFields, EtcFields, Files
  <2> HIDE DEF b
  <2>2. /\ b.passwd = a.passwd /\ b.group = a.group /\ b.shadow = a.shadow /\ b.gshadow = a.gshadow
        /\ b.hasShadow = a.hasShadow /\ b.hasGshadow = a.hasGshadow
        /\ b.err = a.err /\ b.changed = a.changed /\ \A f \in Files : b[f] = a[f]
    BY <2>1 DEF DbFields, EtcFields, Files
  <2>3. b.range.low \in Nat /\ b.range.high \in Nat
    BY <1>2, <2>1
  <2>4. Grown(a, b)
    BY <2>1, <2>2, <2>3 DEF Grown, DbOK, Sound, Extends, Whole
  <2> QED BY <1>2, <2>4 DEF parse_range, b
<1> QED BY <1>1, <1>2

(***************************************************************************)
(* What a directive asked for stays when files grow.                       *)
(***************************************************************************)
LEMMA SatisfiedStays ==
  ASSUME NEW d, NEW a, NEW b, Extends(a, b), Satisfied(d, a)
  PROVE  Satisfied(d, b)
BY DEF Satisfied, Extends

(***************************************************************************)
(* One directive, whatever it says, lets the databases grow: no account is *)
(* lost, numbers stay apart, files that were whole stay whole, and what it *)
(* asks for is there unless it is an error (apply).                        *)
(***************************************************************************)
LEMMA ApplyGrows ==
  ASSUME NEW a, NEW d, DbOK(a)
  PROVE  LET b == apply(a, d)
         IN  Grown(a, b) /\ (~b.err /\ Whole(a) => Satisfied(d, b))
<1>1. CASE d.kind = "r"
  <2>1. apply(a, d) = parse_range(a, d.low, d.high)
    BY <1>1 DEF apply
  <2> QED BY <1>1, <2>1, RangeGrows DEF Satisfied
<1>2. CASE d.kind = "g"
  <2> DEFINE b == ensure_group(a, d.name, d.id)
  <2>1. apply(a, d) = b
    BY <1>2 DEF apply
  <2>2. Grown(a, b) /\ (~b.err => d.name \in DOMAIN b.group)
    BY EnsureGroup
  <2> HIDE DEF b
  <2>3. ~b.err /\ Whole(a) => Satisfied(d, b)
    BY <1>2, <2>2 DEF Satisfied, Grown, Whole
  <2> QED BY <2>1, <2>2, <2>3
<1>3. CASE d.kind = "u"
  <2> DEFINE b == ensure_user(a, d.name, d.id, d.primary)
  <2>1. apply(a, d) = b
    BY <1>3 DEF apply
  <2>2. Grown(a, b) /\ (~b.err => d.name \in DOMAIN b.passwd)
    BY EnsureUser
  <2> HIDE DEF b
  <2>3. ~b.err /\ Whole(a) => Satisfied(d, b)
    BY <1>3, <2>2 DEF Satisfied, Grown, Whole
  <2> QED BY <2>1, <2>2, <2>3
<1>4. CASE d.kind = "m"
  <2> DEFINE one == ensure_user(a, d.name, Automatic, NoPrimary)
             two == IF one.err THEN one ELSE ensure_group(one, d.group, Automatic)
             b == IF two.err THEN two ELSE add_member(two, d.name, d.group)
  <2>1. apply(a, d) = b
    BY <1>4 DEF apply
  <2>2. Grown(a, one) /\ (~one.err => d.name \in DOMAIN one.passwd)
    BY EnsureUser
  <2> HIDE DEF one
  <2>3. Grown(a, two) /\ (~two.err => d.name \in DOMAIN two.passwd /\ d.group \in DOMAIN two.group)
    <3>1. DbOK(one)
      BY <2>2 DEF Grown
    <3>2. CASE one.err
      BY <2>2, <3>2
    <3>3. CASE ~one.err
      <4>1. two = ensure_group(one, d.group, Automatic)
        BY <3>3
      <4>2. Grown(one, two) /\ (~two.err => d.group \in DOMAIN two.group)
        BY <3>1, <4>1, EnsureGroup
      <4> HIDE DEF two
      <4>3. Grown(a, two)
        BY <2>2, <4>2, GrownTwice
      <4> QED BY <2>2, <3>3, <4>2, <4>3 DEF Grown, Extends
    <3> QED BY <3>2, <3>3
  <2> HIDE DEF two
  <2>4. CASE two.err
    BY <2>1, <2>3, <2>4
  <2>5. CASE ~two.err
    <3>1. b = add_member(two, d.name, d.group) /\ DbOK(two)
      BY <2>3, <2>5 DEF Grown
    <3>2. /\ Grown(two, b) /\ d.name \in b.group[d.group].members
          /\ d.group \in DOMAIN b.gshadow => d.name \in b.gshadow[d.group]
      BY <2>3, <2>5, <3>1, MemberGrows
    <3> HIDE DEF b
    <3>3. Grown(a, b)
      BY <2>3, <3>2, GrownTwice
    <3>4. d.name \in DOMAIN b.passwd /\ d.group \in DOMAIN b.group
      BY <2>3, <2>5, <3>2 DEF Grown, Extends
    <3>5. Whole(a) => Satisfied(d, b)
      BY <1>4, <3>2, <3>3, <3>4 DEF Satisfied, Grown, Whole
    <3> QED BY <2>1, <3>3, <3>5
  <2> QED BY <2>4, <2>5
<1>5. CASE d.kind \notin {"r", "g", "u", "m"}
  <2>1. apply(a, d) = Failed(a)
    BY <1>5 DEF apply
  <2> QED BY <2>1, FailedGrows
<1> QED BY <1>1, <1>2, <1>3, <1>4, <1>5

(* ------------------------------- the runs ------------------------------ *)

RunFields == {"pc", "tries", "dry", "lines", "left", "db", "todo", "wrote"}
Inside == {"load", "apply", "write", "drop-failed"}

\* A run that has the lock: a dry run takes none.
Holds(r) == ~r.dry /\ r.pc \in Inside

RunOK(r) ==
  /\ DOMAIN r = RunFields /\ r.dry \in BOOLEAN
  /\ r.pc \in Inside \cup {"idle", "lock", "done", "failed"}
  /\ r.tries \in 0 .. LockAttempts
  /\ r.pc = "lock" => r.tries # LockAttempts
  /\ r.pc \in {"write", "drop-failed"} => ~r.dry

\* At most one run has the lock, and while it has it the file is there.
LockInv ==
  \A p \in Runners : Holds(run[p]) => lock /\ \A q \in Runners : Holds(run[q]) => q = p

\* What the run that has the lock keeps in memory: all that is on disk, and
\* on disk all but what it has still to write.
Works(r, disk, torn) ==
  /\ DbOK(r.db) /\ Extends(disk, r.db)
  /\ \A f \in Files : f \notin (IF r.pc = "apply" THEN r.db.changed ELSE r.todo) => disk[f] = r.db[f]
  /\ r.pc = "write" => r.left = {}
  /\ ~torn => /\ Whole(r.db)
              /\ \A k \in DOMAIN r.lines \ r.left : Satisfied(r.lines[k], r.db)

WorkInv ==
  \A p \in Runners :
     Holds(run[p]) /\ run[p].pc \in {"apply", "write"} => Works(run[p], etc, cut)

EtcInv ==
  /\ DOMAIN etc = EtcFields /\ Sound(etc)
  /\ ~cut /\ (\A p \in Runners : ~(run[p].pc = "write" /\ run[p].wrote)) => Whole(etc)

\* The inductive invariant of the accounts.
UsersIInv ==
  /\ lock \in BOOLEAN /\ cut \in BOOLEAN /\ started \in 0 .. MaxUserRuns
  /\ DOMAIN run = Runners /\ \A p \in Runners : RunOK(run[p])
  /\ LockInv /\ WorkInv /\ EtcInv

(***************************************************************************)
(* The runs begin idle, over files that are whole.                         *)
(***************************************************************************)
LEMMA UsersStart == HostInit => UsersIInv
<1> SUFFICES ASSUME HostInit PROVE UsersIInv
  OBVIOUS
<1>1. /\ etc = Etc0 /\ lock = FALSE /\ run = [p \in Runners |-> NoRun] /\ started = 0 /\ cut = FALSE
  BY DEF HostInit, UsersInit
<1>2. RunOK(NoRun) /\ NoRun.pc = "idle"
  BY SysUsersAssumption DEF NoRun, RunOK, RunFields, Inside
<1>3. \A p \in Runners : RunOK(run[p]) /\ ~Holds(run[p])
  BY <1>1, <1>2 DEF Holds, Inside
<1>4. Sound(etc) /\ Whole(etc) /\ DOMAIN etc = EtcFields
  BY <1>1, EtcAssumption DEF Sound, Whole, EtcFields, Files
<1>5. LockInv /\ WorkInv /\ EtcInv
  BY <1>3, <1>4 DEF LockInv, WorkInv, EtcInv
<1>6. lock \in BOOLEAN /\ cut \in BOOLEAN /\ DOMAIN run = Runners
  BY <1>1
<1>7. started \in 0 .. MaxUserRuns
  <2>1. MaxUserRuns \in Nat /\ started = 0
    BY <1>1, SysUsersAssumption
  <2> QED BY <2>1
<1> QED BY <1>3, <1>5, <1>6, <1>7 DEF UsersIInv

(***************************************************************************)
(* A step of the host is a step of sysusers or leaves the accounts, the    *)
(* lock and the runs alone.                                                *)
(***************************************************************************)
LEMMA UsersStep ==
  ASSUME [HostNext]_hostVars
  PROVE  UsersNext \/ UNCHANGED usersVars
BY DEF HostNext, hostVars

(***************************************************************************)
(* A step of the run of p that leaves the files alone keeps the invariant  *)
(* when p has the lock after it only if it had it or nobody had it, what   *)
(* it works with fits the files, and no write of it is forgotten.          *)
(***************************************************************************)
LEMMA RunKeeps ==
  ASSUME UsersIInv, NEW p \in Runners, NEW r, RunOK(r), run' = [run EXCEPT ![p] = r],
         UNCHANGED etc, lock' \in BOOLEAN, cut' \in BOOLEAN, started' \in 0 .. MaxUserRuns,
         cut => cut',
         lock => lock' \/ Holds(run[p]),
         Holds(r) => lock' /\ (Holds(run[p]) \/ ~lock),
         Holds(r) /\ r.pc \in {"apply", "write"} => Works(r, etc', cut'),
         ~cut' /\ Holds(run[p]) /\ run[p].pc = "write" /\ run[p].wrote => Whole(etc)
  PROVE  UsersIInv'
<1>1. /\ DOMAIN run' = Runners /\ run'[p] = r
      /\ \A q \in Runners : q # p => run'[q] = run[q]
  BY DEF UsersIInv
<1>2. \A q \in Runners : RunOK(run[q])
  BY DEF UsersIInv
<1>3. \A q \in Runners : RunOK(run'[q])
  BY <1>1, <1>2
<1>4. LockInv'
  BY <1>1 DEF UsersIInv, LockInv
<1>5. ASSUME NEW q \in Runners, Holds(run'[q]), run'[q].pc \in {"apply", "write"}
      PROVE  Works(run'[q], etc', cut')
  <2>1. CASE q = p
    BY <1>1, <1>5, <2>1
  <2>2. CASE q # p
    <3>1. run'[q] = run[q]
      BY <1>1, <2>2
    <3>2. Works(run[q], etc, cut)
      BY <1>5, <3>1 DEF UsersIInv, WorkInv
    <3> QED BY <3>1, <3>2 DEF Works
  <2> QED BY <2>1, <2>2
<1>6. WorkInv'
  BY <1>5 DEF WorkInv
<1>7. EtcInv'
  <2>1. DOMAIN etc' = EtcFields /\ Sound(etc')
    BY DEF UsersIInv, EtcInv
  <2>2. ASSUME ~cut', \A q \in Runners : ~(run'[q].pc = "write" /\ run'[q].wrote)
        PROVE  Whole(etc')
    <3>1. CASE run[p].pc = "write" /\ run[p].wrote
      BY <1>2, <2>2, <3>1 DEF Holds, RunOK, Inside
    <3>2. CASE ~(run[p].pc = "write" /\ run[p].wrote)
      <4>1. \A q \in Runners : ~(run[q].pc = "write" /\ run[q].wrote)
        BY <1>1, <2>2, <3>2
      <4> QED BY <2>2, <4>1 DEF UsersIInv, EtcInv
    <3> QED BY <3>1, <3>2
  <2> QED BY <2>1, <2>2 DEF EtcInv
<1> QED BY <1>1, <1>3, <1>4, <1>6, <1>7 DEF UsersIInv

(***************************************************************************)
(* A run that begins has no lock yet: a dry run goes without (run).        *)
(***************************************************************************)
LEMMA BeginKeeps ==
  ASSUME UsersIInv, NEW p \in Runners, NEW opts \in Invocations, RunUsers(p, opts)
  PROVE  UsersIInv'
<1> DEFINE r == IF Missing(opts) THEN [NoRun EXCEPT !.pc = "failed"]
                ELSE [NoRun EXCEPT !.pc = IF opts.dry THEN "load" ELSE "lock",
                                   !.dry = opts.dry, !.lines = Lines(load_sources(opts))]
<1>1. /\ run[p].pc \in {"idle", "done", "failed"} /\ started < MaxUserRuns
      /\ started' = started + 1 /\ run' = [run EXCEPT ![p] = r]
      /\ UNCHANGED <<etc, lock, cut>>
  BY DEF RunUsers
<1>2. /\ DOMAIN r = RunFields /\ r.dry \in BOOLEAN /\ r.tries = 0
      /\ r.pc \in {"failed", "load", "lock"} /\ (r.pc = "load" => r.dry)
  BY SysUsersAssumption DEF NoRun, RunFields
<1> HIDE DEF r
<1>3. RunOK(r) /\ ~Holds(r)
  BY <1>2, SysUsersAssumption DEF RunOK, Holds, Inside
<1>4. ~Holds(run[p]) /\ started' \in 0 .. MaxUserRuns /\ lock \in BOOLEAN /\ cut \in BOOLEAN
  BY <1>1, SysUsersAssumption DEF Holds, Inside, UsersIInv
<1> QED BY <1>1, <1>3, <1>4, RunKeeps

(***************************************************************************)
(* create_new gives the lock to one run, and only when nobody has it.      *)
(***************************************************************************)
LEMMA AcquireKeeps ==
  ASSUME UsersIInv, NEW p \in Runners, acquire(p)
  PROVE  UsersIInv'
<1>1. /\ run[p].pc = "lock" /\ RunOK(run[p]) /\ ~Holds(run[p])
      /\ lock \in BOOLEAN /\ cut \in BOOLEAN /\ started \in 0 .. MaxUserRuns
      /\ UNCHANGED <<etc, started, cut>> /\ DOMAIN run = Runners
  BY DEF acquire, UsersIInv, Holds, Inside
<1>2. CASE ~lock
  <2>1. PICK ok \in BOOLEAN : run' = [run EXCEPT ![p].pc = IF ok THEN "load" ELSE "failed"]
    BY <1>2 DEF acquire
  <2> DEFINE r == [run[p] EXCEPT !.pc = IF ok THEN "load" ELSE "failed"]
  <2>2. run' = [run EXCEPT ![p] = r] /\ lock' = TRUE
    BY <1>1, <1>2, <2>1 DEF acquire
  <2>3. DOMAIN r = RunFields /\ r.pc \in {"load", "failed"} /\ r.dry = run[p].dry /\ r.tries = run[p].tries
    BY <1>1 DEF RunOK, RunFields
  <2> HIDE DEF r
  <2>4. RunOK(r)
    BY <1>1, <2>3 DEF RunOK, Inside
  <2> QED BY <1>1, <1>2, <2>2, <2>3, <2>4, RunKeeps
<1>3. CASE lock
  <2> DEFINE r == [run[p] EXCEPT !.tries = @ + 1,
                                 !.pc = IF run[p].tries + 1 = LockAttempts THEN "failed" ELSE "lock"]
  <2>1. run' = [run EXCEPT ![p] = r] /\ lock' = lock
    BY <1>1, <1>3 DEF acquire
  <2>2. /\ DOMAIN r = RunFields /\ r.dry = run[p].dry /\ r.tries = run[p].tries + 1
        /\ r.pc = IF run[p].tries + 1 = LockAttempts THEN "failed" ELSE "lock"
    BY <1>1 DEF RunOK, RunFields
  <2> HIDE DEF r
  <2>3. RunOK(r) /\ ~Holds(r)
    BY <1>1, <2>2, SysUsersAssumption DEF RunOK, Inside, Holds
  <2> QED BY <1>1, <1>3, <2>1, <2>3, RunKeeps
<1> QED BY <1>1, <1>2, <1>3

(***************************************************************************)
(* What is loaded under the lock is what is on disk.                       *)
(***************************************************************************)
LEMMA LoadKeeps ==
  ASSUME UsersIInv, NEW p \in Runners, load_databases(p)
  PROVE  UsersIInv'
<1> DEFINE r == [run[p] EXCEPT !.pc = "apply", !.db = load(etc), !.left = DOMAIN run[p].lines]
<1>1. /\ run[p].pc = "load" /\ RunOK(run[p]) /\ (run[p].dry \/ Holds(run[p]))
      /\ lock \in BOOLEAN /\ cut \in BOOLEAN /\ started \in 0 .. MaxUserRuns
      /\ UNCHANGED <<etc, lock, started, cut>> /\ DOMAIN run = Runners
      /\ run' = [run EXCEPT ![p] = r] \/ run' = [run EXCEPT ![p].pc = FailedEnd(p)]
  BY DEF load_databases, UsersIInv, Holds, Inside
<1>2. CASE run' = [run EXCEPT ![p].pc = FailedEnd(p)]
  <2> DEFINE s == [run[p] EXCEPT !.pc = FailedEnd(p)]
  <2>1. run' = [run EXCEPT ![p] = s]
    BY <1>1, <1>2
  <2>2. /\ DOMAIN s = RunFields /\ s.dry = run[p].dry /\ s.tries = run[p].tries
        /\ s.pc = FailedEnd(p)
    BY <1>1 DEF RunOK, RunFields
  <2> HIDE DEF s
  <2>3. RunOK(s) /\ (Holds(s) => Holds(run[p]) /\ s.pc = "drop-failed")
    BY <1>1, <2>2 DEF RunOK, Inside, Holds, FailedEnd
  <2>4. Holds(run[p]) => lock
    BY DEF UsersIInv, LockInv
  <2> QED BY <1>1, <2>1, <2>3, <2>4, RunKeeps
<1>3. /\ DOMAIN r = RunFields /\ r.dry = run[p].dry /\ r.tries = run[p].tries /\ r.pc = "apply"
      /\ r.db = load(etc) /\ r.left = DOMAIN run[p].lines /\ r.lines = run[p].lines
  BY <1>1 DEF RunOK, RunFields
<1> HIDE DEF r
<1>4. RunOK(r)
  BY <1>1, <1>3 DEF RunOK, Inside
<1>5. ASSUME ~run[p].dry PROVE Works(r, etc, cut) /\ lock
  <2>1. Holds(run[p])
    BY <1>1, <1>5
  <2>2. \A q \in Runners : ~(run[q].pc = "write" /\ run[q].wrote)
    BY <1>1, <2>1 DEF UsersIInv, LockInv, RunOK, Holds, Inside
  <2>3. Sound(etc) /\ (~cut => Whole(etc)) /\ lock
    BY <2>1, <2>2 DEF UsersIInv, EtcInv, LockInv
  <2> DEFINE db == load(etc)
  <2>4. /\ DOMAIN db = DbFields /\ db.range = SystemRange /\ db.changed = {} /\ db.err = FALSE
        /\ db.passwd = etc.passwd /\ db.group = etc.group /\ db.shadow = etc.shadow
        /\ db.gshadow = etc.gshadow /\ db.hasShadow = etc.hasShadow /\ db.hasGshadow = etc.hasGshadow
    BY DEF load, DbFields, EtcFields, Files
  <2> HIDE DEF db
  <2>5. DbOK(db) /\ Extends(etc, db) /\ (~cut => Whole(db))
    BY <2>3, <2>4, SysUsersAssumption DEF DbOK, Sound, Extends, Whole
  <2>6. \A f \in Files : etc[f] = db[f]
    BY <2>4 DEF Files
  <2>7. r.db = db
    BY <1>3 DEF db
  <2> QED BY <1>3, <2>3, <2>5, <2>6, <2>7 DEF Works
<1> QED BY <1>1, <1>2, <1>3, <1>4, <1>5, RunKeeps DEF Holds

(***************************************************************************)
(* A directive changes what is in memory, as ApplyGrows says.              *)
(***************************************************************************)
LEMMA ApplyKeeps ==
  ASSUME UsersIInv, NEW p \in Runners, apply_sources(p)
  PROVE  UsersIInv'
<1>1. /\ run[p].pc = "apply" /\ RunOK(run[p]) /\ (run[p].dry \/ Holds(run[p]))
      /\ lock \in BOOLEAN /\ cut \in BOOLEAN /\ started \in 0 .. MaxUserRuns
      /\ UNCHANGED <<etc, lock, started, cut>> /\ DOMAIN run = Runners
  BY DEF apply_sources, UsersIInv, Holds, Inside
<1>2. PICK k \in run[p].left :
        LET db == apply(run[p].db, run[p].lines[k])
        IN  run' = [run EXCEPT ![p].db = db, ![p].left = @ \ {k},
                               ![p].pc = IF db.err THEN FailedEnd(p) ELSE "apply"]
  BY DEF apply_sources
<1> DEFINE db == apply(run[p].db, run[p].lines[k])
           r == [run[p] EXCEPT !.db = db, !.left = @ \ {k}, !.pc = IF db.err THEN FailedEnd(p) ELSE "apply"]
<1>3. run' = [run EXCEPT ![p] = r]
  BY <1>1, <1>2
<1>4. /\ DOMAIN r = RunFields /\ r.dry = run[p].dry /\ r.tries = run[p].tries
      /\ r.lines = run[p].lines /\ r.left = run[p].left \ {k} /\ r.db = db
      /\ r.pc = IF db.err THEN FailedEnd(p) ELSE "apply"
  BY <1>1 DEF RunOK, RunFields
<1> HIDE DEF r
<1>5. RunOK(r)
  BY <1>1, <1>4 DEF RunOK, Inside, FailedEnd
<1>6. ASSUME ~run[p].dry PROVE lock /\ (~db.err => Works(r, etc, cut))
  <2>1. lock /\ Works(run[p], etc, cut)
    BY <1>1, <1>6 DEF UsersIInv, LockInv, WorkInv
  <2> DEFINE a == run[p].db
  <2>2. DbOK(a) /\ Extends(etc, a) /\ (\A f \in Files : f \notin a.changed => etc[f] = a[f])
    BY <1>1, <2>1 DEF Works
  <2>3. /\ Grown(a, db) /\ (~db.err /\ Whole(a) => Satisfied(run[p].lines[k], db))
    BY <2>2, ApplyGrows
  <2> HIDE DEF db, a
  <2>4. DbOK(db) /\ Extends(a, db)
    BY <2>3 DEF Grown
  <2>5. Extends(etc, db)
    BY <2>2, <2>4 DEF Extends
  <2>6. \A f \in Files : f \notin db.changed => etc[f] = db[f]
    BY <2>2, <2>3 DEF Grown
  <2>7. ASSUME ~cut, ~db.err
        PROVE  Whole(db) /\ \A j \in DOMAIN r.lines \ r.left : Satisfied(r.lines[j], db)
    <3>1. Whole(a) /\ \A j \in DOMAIN run[p].lines \ run[p].left : Satisfied(run[p].lines[j], a)
      BY <2>1, <2>7 DEF Works, a
    <3>2. ASSUME NEW j \in DOMAIN r.lines \ r.left PROVE Satisfied(r.lines[j], db)
      <4>1. CASE j = k
        BY <1>4, <2>3, <2>7, <3>1, <4>1
      <4>2. CASE j # k
        BY <1>4, <2>4, <3>1, <4>2, SatisfiedStays
      <4> QED BY <4>1, <4>2
    <3> QED BY <2>3, <3>1, <3>2 DEF Grown
  <2>8. ~db.err => r.pc = "apply" /\ r.db = db
    BY <1>4
  <2> QED BY <2>1, <2>4, <2>5, <2>6, <2>7, <2>8 DEF Works
<1> HIDE DEF db
<1>7. Holds(r) => ~run[p].dry /\ lock /\ Holds(run[p])
  BY <1>1, <1>4, <1>6 DEF Holds
<1>8. Holds(r) /\ r.pc \in {"apply", "write"} => Works(r, etc, cut)
  BY <1>4, <1>6, <1>7 DEF FailedEnd
<1> QED BY <1>1, <1>3, <1>5, <1>7, <1>8, RunKeeps

(***************************************************************************)
(* What is to be written are the files that have changed.                  *)
(***************************************************************************)
LEMMA AllAppliedKeeps ==
  ASSUME UsersIInv, NEW p \in Runners, AllApplied(p)
  PROVE  UsersIInv'
<1> DEFINE r == [run[p] EXCEPT !.pc = IF run[p].dry THEN "done" ELSE "write",
                               !.db = IF run[p].dry THEN << >> ELSE @,
                               !.todo = IF run[p].dry THEN {} ELSE run[p].db.changed]
<1>1. /\ run[p].pc = "apply" /\ run[p].left = {} /\ RunOK(run[p])
      /\ (run[p].dry \/ Holds(run[p]))
      /\ lock \in BOOLEAN /\ cut \in BOOLEAN /\ started \in 0 .. MaxUserRuns
      /\ UNCHANGED <<etc, lock, started, cut>> /\ DOMAIN run = Runners
      /\ run' = [run EXCEPT ![p] = r]
  BY DEF AllApplied, UsersIInv, Holds, Inside
<1>2. /\ DOMAIN r = RunFields /\ r.dry = run[p].dry /\ r.tries = run[p].tries
      /\ r.lines = run[p].lines /\ r.left = run[p].left
      /\ run[p].dry => r.pc = "done"
      /\ ~run[p].dry => r.pc = "write" /\ r.db = run[p].db /\ r.todo = run[p].db.changed
  BY <1>1 DEF RunOK, RunFields
<1> HIDE DEF r
<1>3. RunOK(r)
  BY <1>1, <1>2 DEF RunOK, Inside
<1>4. ASSUME ~run[p].dry PROVE Works(r, etc, cut) /\ lock /\ Holds(run[p])
  <2>1. lock /\ Works(run[p], etc, cut)
    BY <1>1, <1>4 DEF UsersIInv, LockInv, WorkInv
  <2> QED BY <1>1, <1>2, <1>4, <2>1 DEF Works
<1> QED BY <1>1, <1>2, <1>3, <1>4, RunKeeps DEF Holds

(***************************************************************************)
(* When all that changed is written, the files on disk are those in memory.*)
(***************************************************************************)
LEMMA WrittenIsWhole ==
  ASSUME UsersIInv, NEW p \in Runners, Holds(run[p]), run[p].pc = "write", run[p].todo = {}, ~cut
  PROVE  Whole(etc) /\ Extends(run[p].db, etc)
<1>1. Works(run[p], etc, cut)
  BY DEF UsersIInv, WorkInv
<1>2. /\ etc.passwd = run[p].db.passwd /\ etc.group = run[p].db.group
      /\ etc.shadow = run[p].db.shadow /\ etc.gshadow = run[p].db.gshadow
      /\ etc.hasShadow = run[p].db.hasShadow /\ etc.hasGshadow = run[p].db.hasGshadow
  BY <1>1 DEF Works, Files, Extends
<1>3. Whole(run[p].db)
  BY <1>1 DEF Works
<1> QED BY <1>2, <1>3 DEF Whole, Extends

(***************************************************************************)
(* The lock goes when all is written, or nothing was, or a run was cut.    *)
(***************************************************************************)
LEMMA DropKeeps ==
  ASSUME UsersIInv, NEW p \in Runners, drop(p)
  PROVE  UsersIInv'
<1> DEFINE r == [run[p] EXCEPT !.pc = IF run[p].pc = "write" THEN "done" ELSE "failed",
                               !.db = << >>, !.left = {}, !.todo = {}]
<1>1. /\ run[p].pc \in {"write", "drop-failed"} /\ RunOK(run[p])
      /\ run[p].pc = "write" => run[p].todo = {}
      /\ cut \in BOOLEAN /\ started \in 0 .. MaxUserRuns
      /\ UNCHANGED <<etc, started, cut>> /\ DOMAIN run = Runners /\ lock' = FALSE
  BY DEF drop, UsersIInv
<1>2. run' = [run EXCEPT ![p] = r]
  BY <1>1 DEF drop
<1>3. /\ DOMAIN r = RunFields /\ r.dry = run[p].dry /\ r.tries = run[p].tries
      /\ r.pc \in {"done", "failed"}
  BY <1>1 DEF RunOK, RunFields
<1> HIDE DEF r
<1>4. RunOK(r) /\ ~Holds(r) /\ Holds(run[p])
  BY <1>1, <1>3 DEF RunOK, Inside, Holds
<1>5. run[p].pc = "write" /\ ~cut => Whole(etc)
  BY <1>1, <1>4, WrittenIsWhole
<1> QED BY <1>1, <1>2, <1>4, <1>5, RunKeeps

(***************************************************************************)
(* A run that is killed leaves files that are whole unless it was between  *)
(* two writes.                                                             *)
(***************************************************************************)
LEMMA CrashKeeps ==
  ASSUME UsersIInv, NEW p \in Runners, UsersCrash(p)
  PROVE  UsersIInv'
<1> DEFINE r == [NoRun EXCEPT !.pc = "failed"]
<1>1. /\ RunOK(run[p])
      /\ lock \in BOOLEAN /\ cut \in BOOLEAN /\ started \in 0 .. MaxUserRuns
      /\ UNCHANGED <<etc, lock, started>>
      /\ cut' = (cut \/ (run[p].wrote /\ run[p].todo # {}))
      /\ run' = [run EXCEPT ![p] = r]
  BY DEF UsersCrash, UsersIInv
<1>2. /\ DOMAIN r = RunFields /\ r.dry = FALSE /\ r.tries = 0 /\ r.pc = "failed"
  BY DEF NoRun, RunFields
<1> HIDE DEF r
<1>3. RunOK(r) /\ ~Holds(r)
  <2>1. 0 \in 0 .. LockAttempts
    BY SysUsersAssumption
  <2> QED BY <1>2, <2>1 DEF RunOK, Inside, Holds
<1>4. ~cut' /\ Holds(run[p]) /\ run[p].pc = "write" /\ run[p].wrote => Whole(etc)
  BY <1>1, WrittenIsWhole
<1> QED BY <1>1, <1>3, <1>4, RunKeeps

(***************************************************************************)
(* A file that is replaced has all it had before; a gshadow line never     *)
(* comes before its group (write_all).                                     *)
(***************************************************************************)
LEMMA WriteKeeps ==
  ASSUME UsersIInv, NEW p \in Runners, write_if_changed(p)
  PROVE  UsersIInv'
<1>1. /\ run[p].pc = "write" /\ RunOK(run[p]) /\ Holds(run[p])
      /\ cut \in BOOLEAN /\ started \in 0 .. MaxUserRuns
      /\ UNCHANGED <<lock, started>> /\ DOMAIN run = Runners /\ lock
      /\ \A q \in Runners : Holds(run[q]) => q = p
      /\ Works(run[p], etc, cut)
  BY DEF write_if_changed, UsersIInv, LockInv, WorkInv, Holds, RunOK, Inside
<1>2. ASSUME run' = [run EXCEPT ![p].pc = "drop-failed"], cut' = (cut \/ run[p].wrote), UNCHANGED etc
      PROVE  UsersIInv'
  <2> DEFINE r == [run[p] EXCEPT !.pc = "drop-failed"]
  <2>1. run' = [run EXCEPT ![p] = r]
    BY <1>2
  <2>2. /\ DOMAIN r = RunFields /\ r.dry = run[p].dry /\ r.tries = run[p].tries
        /\ r.pc = "drop-failed"
    BY <1>1 DEF RunOK, RunFields
  <2> HIDE DEF r
  <2>3. RunOK(r)
    BY <1>1, <2>2 DEF RunOK, Inside
  <2> QED BY <1>1, <1>2, <2>1, <2>2, <2>3, RunKeeps
<1>3. ASSUME NEW k \in DOMAIN Databases, Databases[k] \in run[p].todo,
             \A j \in 1 .. k - 1 : Databases[j] \notin run[p].todo,
             etc' = [etc EXCEPT ![Databases[k]] = run[p].db[Databases[k]]],
             run' = [run EXCEPT ![p].todo = @ \ {Databases[k]}, ![p].wrote = TRUE],
             UNCHANGED cut
      PROVE  UsersIInv'
  <2> DEFINE file == Databases[k]
             r == [run[p] EXCEPT !.todo = @ \ {file}, !.wrote = TRUE]
             db == run[p].db
  <2>1. file \in Files /\ (file = "gshadow" => "group" \notin run[p].todo)
    <3>1. DOMAIN Databases = 1 .. 4 /\ Databases[1] = "passwd" /\ Databases[2] = "group"
          /\ Databases[3] = "shadow" /\ Databases[4] = "gshadow"
      BY DEF Databases
    <3>2. k \in 1 .. 4
      BY <3>1
    <3>3. file = "gshadow" => k = 4
      BY <3>1, <3>2
    <3> QED BY <1>3, <3>1, <3>2, <3>3 DEF Files
  <2>2. run' = [run EXCEPT ![p] = r]
    BY <1>1, <1>3
  <2>3. /\ DOMAIN r = RunFields /\ r.dry = run[p].dry /\ r.tries = run[p].tries
        /\ r.pc = "write" /\ r.lines = run[p].lines /\ r.left = run[p].left /\ r.db = db
        /\ r.todo = run[p].todo \ {file} /\ r.wrote = TRUE
    BY <1>1 DEF RunOK, RunFields
  <2> HIDE DEF r
  <2>4. RunOK(r)
    BY <1>1, <2>3 DEF RunOK, Inside
  <2>5. /\ DOMAIN etc' = EtcFields /\ etc'[file] = db[file]
        /\ \A f \in EtcFields \ {file} : etc'[f] = etc[f]
    BY <1>3, <2>1 DEF UsersIInv, EtcInv, EtcFields
  <2> HIDE DEF file
  <2>6. DbOK(db) /\ Extends(etc, db) /\ Sound(etc) /\ Sound(db)
    BY <1>1 DEF Works, DbOK, UsersIInv, EtcInv
  <2>7. \A f \in Files : f \notin run[p].todo => etc[f] = db[f]
    BY <1>1 DEF Works
  <2> HIDE DEF db
  <2>8. /\ etc'.passwd \in {etc.passwd, db.passwd} /\ etc'.group \in {etc.group, db.group}
        /\ etc'.shadow \in {etc.shadow, db.shadow} /\ etc'.gshadow \in {etc.gshadow, db.gshadow}
        /\ etc'.hasShadow = etc.hasShadow /\ etc'.hasGshadow = etc.hasGshadow
        /\ etc'.gshadow = etc.gshadow \/ etc'.group = db.group
    BY <2>1, <2>5, <2>7 DEF EtcFields, Files
  <2>9. Extends(etc', db)
    BY <2>6, <2>8 DEF Extends
  <2>10. Sound(etc')
    <3>1. DOMAIN etc'.gshadow \subseteq DOMAIN etc'.group
      BY <2>6, <2>8 DEF Sound, Extends
    <3> QED BY <2>6, <2>8, <3>1 DEF Sound
  <2>11. \A f \in Files : f \notin r.todo => etc'[f] = db[f]
    BY <2>3, <2>5, <2>7 DEF EtcFields
  <2>12. Works(r, etc', cut')
    BY <1>1, <1>3, <2>3, <2>6, <2>9, <2>11 DEF Works, db
  <2>13. /\ DOMAIN run' = Runners /\ run'[p] = r
         /\ \A q \in Runners : q # p => run'[q] = run[q]
    BY <1>1, <2>2
  <2>14. \A q \in Runners : RunOK(run'[q])
    BY <2>4, <2>13 DEF UsersIInv
  <2>15. Holds(r)
    BY <1>1, <2>3 DEF Holds, Inside
  <2>16. \A q \in Runners : Holds(run'[q]) => q = p
    BY <1>1, <2>13
  <2>17. LockInv' /\ WorkInv'
    BY <1>1, <2>12, <2>13, <2>16 DEF LockInv, WorkInv
  <2>18. EtcInv'
    BY <2>3, <2>5, <2>10, <2>13 DEF EtcInv
  <2> QED BY <1>1, <1>3, <2>13, <2>14, <2>17, <2>18 DEF UsersIInv
<1> QED BY <1>2, <1>3 DEF write_if_changed

(***************************************************************************)
(* Every step keeps the invariant of the accounts.                         *)
(***************************************************************************)
LEMMA UsersKept ==
  ASSUME UsersIInv, [HostNext]_hostVars
  PROVE  UsersIInv'
<1>1. CASE UNCHANGED usersVars
  BY <1>1 DEF usersVars, UsersIInv, LockInv, WorkInv, EtcInv
<1>2. CASE RemoveStaleLock
  <2>1. UNCHANGED <<etc, run, started, cut>> /\ lock' = FALSE
    BY <1>2 DEF RemoveStaleLock
  <2>2. \A p \in Runners : ~Holds(run[p])
    BY <1>2 DEF RemoveStaleLock, Holds, Inside
  <2> QED BY <2>1, <2>2 DEF UsersIInv, LockInv, WorkInv, EtcInv
<1>3. ASSUME NEW p \in Runners, NEW opts \in Invocations, RunUsers(p, opts) PROVE UsersIInv'
  BY <1>3, BeginKeeps
<1>4. ASSUME NEW p \in Runners, acquire(p) PROVE UsersIInv'
  BY <1>4, AcquireKeeps
<1>5. ASSUME NEW p \in Runners, load_databases(p) PROVE UsersIInv'
  BY <1>5, LoadKeeps
<1>6. ASSUME NEW p \in Runners, apply_sources(p) PROVE UsersIInv'
  BY <1>6, ApplyKeeps
<1>7. ASSUME NEW p \in Runners, AllApplied(p) PROVE UsersIInv'
  BY <1>7, AllAppliedKeeps
<1>8. ASSUME NEW p \in Runners, write_if_changed(p) PROVE UsersIInv'
  BY <1>8, WriteKeeps
<1>9. ASSUME NEW p \in Runners, drop(p) PROVE UsersIInv'
  BY <1>9, DropKeeps
<1>10. ASSUME NEW p \in Runners, UsersCrash(p) PROVE UsersIInv'
  BY <1>10, CrashKeeps
<1> QED BY UsersStep, <1>1, <1>2, <1>3, <1>4, <1>5, <1>6, <1>7, <1>8, <1>9, <1>10 DEF UsersNext

(***************************************************************************)
(* The inductive invariant of the accounts holds in every behaviour.       *)
(***************************************************************************)
THEOREM UsersInductive == HostSpec => []UsersIInv
<1>1. HostInit => UsersIInv
  BY UsersStart
<1>2. UsersIInv /\ [HostNext]_hostVars => UsersIInv'
  BY UsersKept
<1> QED BY <1>1, <1>2, PTL DEF HostSpec

(***************************************************************************)
(* For every configuration, every account files whose numbers are apart at *)
(* first, and any number of runs at a time, failing or killed anywhere: no *)
(* two users and no two groups share a number, and unless a run was cut    *)
(* between two files no user is in another name's group (id_in_use,        *)
(* allocate_id, LockFile).                                                 *)
(***************************************************************************)
THEOREM AccountsAreSound == HostSpec => []AccountsSound
<1>1. UsersIInv => AccountsSound
  <2> SUFFICES ASSUME UsersIInv PROVE AccountsSound
    OBVIOUS
  <2>1. UsersTypeOK
    BY DEF UsersIInv, UsersTypeOK, RunOK, Inside
  <2>2. IdsUnique
    BY DEF UsersIInv, EtcInv, Sound, IdsUnique
  <2>3. OwnGroup
    <3> SUFFICES ASSUME ~cut, NEW u \in DOMAIN etc.passwd, NEW g \in DOMAIN etc.group,
                        etc.passwd[u].own, etc.group[g].gid = etc.passwd[u].gid
                 PROVE  g = u
      BY DEF OwnGroup
    <3>1. CASE \A p \in Runners : ~(run[p].pc = "write" /\ run[p].wrote)
      BY <3>1 DEF UsersIInv, EtcInv, Sound, Whole
    <3>2. ASSUME NEW p \in Runners, run[p].pc = "write" PROVE g = u
      <4>1. Works(run[p], etc, cut)
        BY <3>2 DEF UsersIInv, WorkInv, RunOK, Holds, Inside
      <4>2. Sound(run[p].db) /\ Whole(run[p].db) /\ Extends(etc, run[p].db)
        BY <4>1 DEF Works, DbOK
      <4> QED BY <4>2 DEF Sound, Whole, Extends
    <3> QED BY <3>1, <3>2
  <2> QED BY <2>1, <2>2, <2>3 DEF AccountsSound
<1> QED BY <1>1, UsersInductive, PTL

(***************************************************************************)
(* No run loses or renumbers an account, a group, a member or a shadow line*)
(* (write_if_changed writes whole files, from what was read under the      *)
(* lock).                                                                  *)
(***************************************************************************)
THEOREM AccountsAlwaysStay == HostSpec => AccountsStay
<1> DEFINE Stay ==
      /\ \A n \in DOMAIN etc.passwd : n \in DOMAIN etc'.passwd /\ etc'.passwd[n] = etc.passwd[n]
      /\ \A n \in DOMAIN etc.group : /\ n \in DOMAIN etc'.group
                                     /\ etc'.group[n].gid = etc.group[n].gid
                                     /\ etc.group[n].members \subseteq etc'.group[n].members
      /\ DOMAIN etc.shadow \subseteq DOMAIN etc'.shadow
      /\ \A n \in DOMAIN etc.gshadow : n \in DOMAIN etc'.gshadow
                                       /\ etc.gshadow[n] \subseteq etc'.gshadow[n]
<1>1. UsersIInv /\ [HostNext]_hostVars => [Stay]_etc
  <2> SUFFICES ASSUME UsersIInv, [HostNext]_hostVars, etc' # etc PROVE Stay
    OBVIOUS
  <2>1. PICK p \in Runners : write_if_changed(p)
    BY UsersStep DEF usersVars, UsersNext, RunUsers, acquire, load_databases, apply_sources,
                     AllApplied, drop, UsersCrash, RemoveStaleLock
  <2>2. PICK k \in DOMAIN Databases : etc' = [etc EXCEPT ![Databases[k]] = run[p].db[Databases[k]]]
    BY <2>1 DEF write_if_changed
  <2> DEFINE db == run[p].db
             file == Databases[k]
  <2>3. Extends(etc, db) /\ DOMAIN etc = EtcFields
    BY <2>1 DEF UsersIInv, EtcInv, WorkInv, RunOK, Holds, Inside, Works, write_if_changed
  <2>4. /\ etc'[file] = db[file] \/ file \notin EtcFields
        /\ \A f \in EtcFields \ {file} : etc'[f] = etc[f]
    BY <2>2, <2>3
  <2> HIDE DEF db, file
  <2>5. /\ etc'.passwd \in {etc.passwd, db.passwd} /\ etc'.group \in {etc.group, db.group}
        /\ etc'.shadow \in {etc.shadow, db.shadow} /\ etc'.gshadow \in {etc.gshadow, db.gshadow}
    BY <2>4 DEF EtcFields, Files
  <2> QED BY <2>3, <2>5 DEF Extends
<1> QED BY <1>1, UsersInductive, PTL DEF HostSpec, AccountsStay

(***************************************************************************)
(* A run that ends well has put into all the files everything its          *)
(* configuration asks for, unless a run was cut before (apply_sources,     *)
(* write_all).                                                             *)
(***************************************************************************)
THEOREM RunsAreComplete == HostSpec => RunsComplete
<1> DEFINE Complete ==
      \A p \in Runners :
         run'[p].pc = "done" /\ run[p].pc = "write" /\ ~cut =>
            \A k \in DOMAIN run[p].lines : Satisfied(run[p].lines[k], etc')
<1>1. UsersIInv /\ [HostNext]_hostVars => [Complete]_usersVars
  <2> SUFFICES ASSUME UsersIInv, [HostNext]_hostVars, NEW p \in Runners,
                      run'[p].pc = "done", run[p].pc = "write", ~cut,
                      NEW k \in DOMAIN run[p].lines
               PROVE  Satisfied(run[p].lines[k], etc')
    OBVIOUS
  <2>1. drop(p)
    <3>1. DOMAIN run = Runners /\ DOMAIN run[p] = RunFields
      BY DEF UsersIInv, RunOK
    <3>2. PICK q \in Runners : \/ \E opts \in Invocations : RunUsers(q, opts)
                               \/ acquire(q) \/ load_databases(q) \/ apply_sources(q) \/ AllApplied(q)
                               \/ write_if_changed(q) \/ drop(q) \/ UsersCrash(q)
      BY UsersStep DEF usersVars, UsersNext, RemoveStaleLock
    <3>3. q = p
      <4> SUFFICES ASSUME q # p PROVE run'[p] = run[p]
        OBVIOUS
      <4> QED BY <3>1, <3>2 DEF RunUsers, acquire, load_databases, apply_sources, AllApplied,
                                write_if_changed, drop, UsersCrash
    <3>4. CASE write_if_changed(p)
      BY <3>1, <3>4 DEF write_if_changed, RunFields
    <3>5. CASE UsersCrash(p)
      BY <3>1, <3>5 DEF UsersCrash, NoRun
    <3> QED BY <3>2, <3>3, <3>4, <3>5 DEF RunUsers, acquire, load_databases, apply_sources, AllApplied,
                                          FailedEnd
  <2>2. UNCHANGED etc /\ run[p].todo = {}
    BY <2>1 DEF drop
  <2>3. Holds(run[p])
    BY DEF UsersIInv, RunOK, Holds, Inside
  <2>4. Extends(run[p].db, etc)
    BY <2>2, <2>3, WrittenIsWhole
  <2>5. Satisfied(run[p].lines[k], run[p].db)
    BY <2>3 DEF UsersIInv, WorkInv, Works
  <2> QED BY <2>2, <2>4, <2>5, SatisfiedStays
<1> QED BY <1>1, UsersInductive, PTL DEF HostSpec, RunsComplete

(* ------------------------------- packages ------------------------------ *)

\* What a run is in the middle of: every loop goes through services it may
\* move, and a marker that is to go is still in front of the last loop.
LoopsInv ==
  /\ sync.loops[1] \cup sync.loops[3] \subseteq index
  /\ sync.loops[2] \subseteq sync.chosen
  /\ \A n \in ServiceNames : marker[n] = "sync" =>
        n \in sync.chosen \cup sync.loops[1] \cup sync.loops[3]

\* The inductive invariant of the package trigger.
PackagesIInv ==
  /\ PackagesTypeOK
  /\ installed \subseteq DOMAIN Descriptors /\ outside \in Nat
  /\ DOMAIN sync = DOMAIN NoSync
  /\ sync.loops \in [1..3 -> SUBSET ServiceNames]
  /\ sync.chosen \subseteq sync.declared /\ sync.declared \subseteq ServiceNames
  /\ MarkersFollowPackages /\ IndexCoversMarkers
  /\ sync.pc = "loops" => LoopsInv

(***************************************************************************)
(* A step of the host is a step of the package trigger or leaves its       *)
(* files, its run and what it looks at alone.                              *)
(***************************************************************************)
LEMMA PackagesStep ==
  ASSUME [HostNext]_hostVars
  PROVE  PackagesNext \/ UNCHANGED packageVars
BY DEF HostNext, hostVars

(***************************************************************************)
(* What is discovered are services: every declared name is one.            *)
(***************************************************************************)
LEMMA DiscoveredAreServices ==
  ASSUME installed \subseteq DOMAIN Descriptors
  PROVE  \A s \in Discovered : s[2].name \in ServiceNames
<1>1. \A d \in AllFiles : d.name \in ServiceNames
  BY PackagesAssumption DEF AllFiles, OnDisk, ServiceNames
<1>2. \A s \in discover_package_services : s[2] \in AllFiles
  BY DEF discover_package_services, AllFiles, OnDisk
<1> QED BY <1>1, <1>2 DEF Discovered, discover_native_services

(***************************************************************************)
(* The package trigger begins with no markers of its own and no run.       *)
(***************************************************************************)
LEMMA PackagesStart == HostInit => PackagesIInv
<1> SUFFICES ASSUME HostInit PROVE PackagesIInv
  OBVIOUS
<1> QED BY DEF HostInit, PackagesInit, PackagesIInv, PackagesTypeOK, NoSync, NoLoops,
               MarkersFollowPackages, IndexCoversMarkers

(***************************************************************************)
(* Every step keeps the invariant of the package trigger: a sync that finds*)
(* its services, moves one marker, writes the index, asks for a reload,    *)
(* ends or is cut, and whatever packages, administrator and daemon do in   *)
(* between.                                                                *)
(***************************************************************************)
LEMMA PackagesKept ==
  ASSUME PackagesIInv, [HostNext]_hostVars
  PROVE  PackagesIInv'
<1> USE DEF PackagesIInv, PackagesTypeOK, MarkersFollowPackages, IndexCoversMarkers
<1>1. CASE UNCHANGED packageVars
  BY <1>1 DEF packageVars, LoopsInv, ServiceNames
<1>2. CASE sync_packages
  <2> DEFINE ds == {s[2] : s \in Discovered}
             declared == {d.name : d \in ds}
             chosen == {d.name : d \in {e \in ds : selected_profile \in e.profiles}}
  <2>1. chosen \subseteq declared /\ declared \subseteq ServiceNames
    BY DiscoveredAreServices
  <2> HIDE DEF ds
  <2>2. PICK ok \in BOOLEAN, verify \in BOOLEAN :
          sync' = IF ok /\ ~verify
                  THEN [pc |-> "loops", declared |-> declared, chosen |-> chosen,
                        loops |-> Loops(index, declared, chosen)]
                  ELSE [NoSync EXCEPT !.pc = IF ok THEN "verified" ELSE "failed"]
    BY <1>2 DEF sync_packages, ds
  <2> HIDE DEF declared, chosen
  <2>3. sync.pc = "idle" /\ UNCHANGED <<installed, marker, index, outside>>
    BY <1>2 DEF sync_packages
  <2>4. CASE ok /\ ~verify
    <3>1. /\ sync'.pc = "loops" /\ sync'.declared = declared /\ sync'.chosen = chosen
          /\ sync'.loops = <<index \ declared, chosen, index \ chosen>>
          /\ DOMAIN sync' = DOMAIN NoSync
      BY <2>2, <2>4 DEF Loops, NoSync
    <3>2. sync'.loops \in [1..3 -> SUBSET ServiceNames]
      BY <2>1, <3>1
    <3>3. LoopsInv'
      BY <2>3, <3>1 DEF LoopsInv, ServiceNames
    <3> QED BY <2>1, <2>3, <3>1, <3>2, <3>3 DEF ServiceNames
  <2>5. CASE ~ (ok /\ ~verify)
    <3>1. /\ sync'.pc \in {"verified", "failed"} /\ sync'.declared = {} /\ sync'.chosen = {}
          /\ sync'.loops = <<{}, {}, {}>> /\ DOMAIN sync' = DOMAIN NoSync
      BY <2>2, <2>5 DEF NoSync, NoLoops
    <3>2. sync'.loops \in [1..3 -> SUBSET ServiceNames]
      BY <3>1
    <3> QED BY <2>3, <3>1, <3>2 DEF ServiceNames
  <2> QED BY <2>4, <2>5
<1>3. CASE update_marker
  <2>1. PICK k \in 1..3, n \in ServiceNames :
          /\ n \in sync.loops[k]
          /\ marker' = [marker EXCEPT ![n] = IF k = 2 THEN "sync" ELSE "none"]
          /\ sync' = [sync EXCEPT !.loops[k] = @ \ {n}]
    BY <1>3 DEF update_marker
  <2>2. sync.pc = "loops" /\ UNCHANGED <<installed, index, outside>> /\ LoopsInv
    BY <1>3 DEF update_marker
  <2>3. /\ sync'.pc = "loops" /\ DOMAIN sync' = DOMAIN NoSync
        /\ sync'.chosen = sync.chosen /\ sync'.declared = sync.declared
        /\ sync'.loops = [sync.loops EXCEPT ![k] = @ \ {n}]
    BY <2>1, <2>2 DEF NoSync
  <2>4. LoopsInv'
    BY <2>1, <2>2, <2>3 DEF LoopsInv, ServiceNames
  <2> QED BY <2>1, <2>2, <2>3, <2>4 DEF ServiceNames
<1>4. CASE write_index
  BY <1>4 DEF write_index, LoopsInv, NoLoops, NoSync
<1>5. CASE request_reload
  BY <1>5 DEF request_reload, NoSync
<1>6. CASE SyncOver
  BY <1>6 DEF SyncOver, NoSync, NoLoops
<1>7. CASE SyncCut
  BY <1>7 DEF SyncCut, NoSync, NoLoops
<1>8. CASE \E p \in DOMAIN Descriptors : Transaction(p)
  BY <1>8 DEF Transaction, Outside, LoopsInv
<1>9. CASE \E n \in ServiceNames : Administrator(n)
  BY <1>9 DEF Administrator, Outside, LoopsInv
<1>10. CASE \E q \in BootProfiles : SelectProfile(q)
  BY <1>10 DEF SelectProfile, Outside, LoopsInv
<1>11. CASE DaemonComesOrGoes
  BY <1>11 DEF DaemonComesOrGoes, Outside, LoopsInv
<1> QED BY PackagesStep, <1>1, <1>2, <1>3, <1>4, <1>5, <1>6, <1>7, <1>8, <1>9, <1>10, <1>11
        DEF PackagesNext

(***************************************************************************)
(* The inductive invariant of the package trigger holds in every behaviour.*)
(***************************************************************************)
THEOREM PackagesInductive == HostSpec => []PackagesIInv
<1>1. HostInit => PackagesIInv
  BY PackagesStart
<1>2. PackagesIInv /\ [HostNext]_hostVars => PackagesIInv'
  BY PackagesKept
<1> QED BY <1>1, <1>2, PTL DEF HostSpec

(***************************************************************************)
(* After a whole sync the markers are those of the installed services of   *)
(* the selected profile, and the index covers every marker a sync has set, *)
(* for all packages, descriptors and profiles, although a sync may be cut  *)
(* between two of its moves (sync_packages).                               *)
(***************************************************************************)
THEOREM MarkersAlwaysFollow == HostSpec => []MarkersFollow
<1>1. PackagesIInv => MarkersFollow
  BY DEF PackagesIInv, MarkersFollow
<1> QED BY <1>1, PackagesInductive, PTL

(***************************************************************************)
(* A sync never moves a marker of a service that no package declares and   *)
(* the index does not name: the markers of an administrator stay           *)
(* (update_marker).                                                        *)
(***************************************************************************)
THEOREM ForeignMarkersAreKept == HostSpec => ForeignMarkersKept
<1> DEFINE Kept == \A n \in ServiceNames :
          outside' = outside /\ marker'[n] # marker[n] /\ marker'[n] # "cut" =>
              n \in sync.declared \cup index
<1>1. PackagesIInv /\ [HostNext]_hostVars => [Kept]_packageVars
  <2> SUFFICES ASSUME PackagesIInv, PackagesNext PROVE Kept
    BY PackagesStep
  <2> SUFFICES ASSUME NEW n \in ServiceNames, outside' = outside, marker'[n] # marker[n],
                      marker'[n] # "cut"
               PROVE  n \in sync.declared \cup index
    OBVIOUS
  <2>1. ~ Outside
    BY DEF Outside, PackagesIInv
  <2>2. update_marker \/ SyncCut \/ marker' = marker
    BY <2>1 DEF PackagesNext, sync_packages, write_index, request_reload, SyncOver,
                Transaction, Administrator, SelectProfile, DaemonComesOrGoes
  <2>3. CASE update_marker
    BY <2>3 DEF update_marker, PackagesIInv, PackagesTypeOK, LoopsInv
  <2>4. CASE SyncCut
    BY <2>4 DEF SyncCut
  <2> QED BY <2>2, <2>3, <2>4
<1> QED BY <1>1, PackagesInductive, PTL DEF HostSpec, ForeignMarkersKept

(* ------------------------------ machine id ----------------------------- *)

\* A run that is about to write has found no id, and nobody else writes one.
MachineIInv == drawing \in {"create", "write"} => first_boot_state

(***************************************************************************)
(* A run of fractald-machine-id writes only where there is no id.          *)
(***************************************************************************)
THEOREM MachineIInvariant == HostSpec => []MachineIInv
<1>1. HostInit => MachineIInv
  BY DEF HostInit, KernelsInit, MachineIInv
<1>2. MachineIInv /\ [HostNext]_hostVars => MachineIInv'
  <2> SUFFICES ASSUME MachineIInv, [HostNext]_hostVars PROVE MachineIInv'
    OBVIOUS
  <2>1. KernelsNext \/ UNCHANGED kernelVars
    BY DEF HostNext, hostVars
  <2>2. ensure_machine_id \/ create_machine_id \/ UNCHANGED <<machine, drawing>>
    BY <2>1 DEF KernelsNext, kernelVars, add, remove, Begin, copy_image, run_dracut,
                write_loader_entry, run_module_index, run_admin_plugins, remove_path, KernelDone,
                KernelFails
  <2> QED BY <2>2 DEF MachineIInv, first_boot_state, ensure_machine_id, create_machine_id
<1> QED BY <1>1, <1>2, PTL DEF HostSpec

(***************************************************************************)
(* Once the machine has an id, or a file that is no id, no run of fractald-*)
(* machine-id changes it, killed while it writes or not                    *)
(* (ensure_machine_id).                                                    *)
(***************************************************************************)
THEOREM MachineIdIsKept == HostSpec => MachineIdStays
<1>1. MachineIInv /\ [HostNext]_hostVars => [~first_boot_state => machine' = machine]_machine
  <2> SUFFICES ASSUME MachineIInv, [HostNext]_hostVars, ~first_boot_state PROVE machine' = machine
    OBVIOUS
  <2>1. KernelsNext \/ UNCHANGED kernelVars
    BY DEF HostNext, hostVars
  <2>2. create_machine_id \/ machine' = machine
    BY <2>1 DEF KernelsNext, kernelVars, ensure_machine_id, add, remove, Begin, copy_image,
                run_dracut, write_loader_entry, run_module_index, run_admin_plugins, remove_path,
                KernelDone, KernelFails
  <2> QED BY <2>2 DEF MachineIInv, create_machine_id
<1> QED BY <1>1, MachineIInvariant, PTL DEF HostSpec, MachineIdStays

(***************************************************************************)
(* The tools take nothing that is not theirs: accounts, the markers of an  *)
(* administrator and the machine id stay, for all values of the constants. *)
(***************************************************************************)
THEOREM NothingIsEverTaken == HostSpec => NothingIsTaken
BY AccountsAlwaysStay, ForeignMarkersAreKept, MachineIdIsKept DEF NothingIsTaken

(* ------------------------------- kernels ------------------------------- *)

JobFields == {"pc", "what", "version", "layout", "token", "home", "initrds", "at", "half"}
List(s) == Len(s) \in Nat /\ DOMAIN s = 1 .. Len(s)

\* The files of a version are in its entry directory, or the one image is
\* in the boot directory, as it was added.
BootFiles ==
  /\ DOMAIN homes = Versions
  /\ \A f \in DOMAIN files :
        /\ f = <<f[1], f[2], f[3]>> /\ files[f] \in {"torn", "whole"}
        /\ f[2] \in Versions \cup {"all"}
        /\ f[2] \in Versions =>
              IF f[1] = "flat" THEN f[3] = "linux" /\ \E t : <<"other", t>> \in homes[f[2]]
              ELSE {<<"bls", f[1]>>, <<"other", f[1]>>} \cap homes[f[2]] # {}

\* So are the entries.
BootEntries ==
  \A e \in DOMAIN entries : /\ e = <<e[1], e[2]>> /\ e[1] # "flat" /\ e[2] \in Versions
                            /\ <<"bls", e[1]>> \in homes[e[2]]

\* What a run works on.
JobOK(j) ==
  /\ DOMAIN j = JobFields /\ j.at \in Nat /\ List(j.initrds)
  /\ j.pc \in Stages
  /\ j.pc # "idle" =>
        /\ j.what \in {"add", "remove"} /\ j.version \in Versions /\ j.token # "flat"
        /\ j.what = "add" =>
              /\ j.pc \in {"dracut", "copy", "entry", "index", "plugins", "done"}
              /\ j.home \in {j.token, "flat"} /\ (j.pc = "entry" => j.home # "flat")
        /\ j.what = "remove" =>
              j.pc \in {"index", "plugins", "unlink-entry", "unlink-files", "unlink-image", "done"}

Housed(j, hs) ==
  j.pc # "idle" /\ j.what = "add" =>
     (IF j.home = "flat" THEN <<"other", j.token>> ELSE <<"bls", j.token>>) \in hs[j.version]

WholeFile(fs, f) == f \in DOMAIN fs /\ fs[f] = "whole"

\* Until the entry of an add is written there is none that could be booted,
\* and an image that is not there yet is still to be copied.
Adding(j, fs, es, un) ==
  j.what = "add" /\ j.home # "flat" =>
     /\ j.pc \in {"dracut", "copy", "entry"} =>
           EntryOf(j) \notin DOMAIN es \/ es[EntryOf(j)] = Torn \/ EntryOf(j) \in un
     /\ j.pc \in {"copy", "entry"} =>
           \A k \in Copies(j) :
              \/ Image(j, k)[3] = "generated"
              \/ WholeFile(fs, Image(j, k))
              \/ j.pc = "copy" /\ \E m \in Copies(j) : m >= j.at /\ Image(j, m) = Image(j, k)

\* What a removal has behind it is gone.
Removing(j, fs, es) ==
  j.what = "remove" =>
     /\ j.pc \in {"unlink-files", "unlink-image", "done"} => EntryOf(j) \notin DOMAIN es
     /\ j.pc \in {"unlink-image", "done"} => \A f \in DOMAIN fs : <<f[1], f[2]>> # EntryOf(j)
     /\ j.pc = "done" /\ j.layout # "bls" => <<"flat", j.version, "linux">> \notin DOMAIN fs

\* The inductive invariant of kernel-install.
KernelsIInv ==
  /\ drawing \in {"idle", "create", "write"}
  /\ machine \in MachineIds \cup {"absent", "empty", "torn"}
  /\ BootFiles /\ BootEntries /\ JobOK(job) /\ Housed(job, homes)
  /\ Adding(job, files, entries, unsure) /\ Removing(job, files, entries)
  /\ EntriesBoot

(***************************************************************************)
(* A sequence is a list.                                                   *)
(***************************************************************************)
LEMMA SequencesAreLists ==
  ASSUME NEW S, NEW s \in Seq(S)
  PROVE  List(s)
BY DEF List

(***************************************************************************)
(* The initrds of an add are a list.                                       *)
(***************************************************************************)
LEMMA ArgumentsAreLists ==
  ASSUME NEW req \in Requests, NEW v \in Versions, NEW layout
  PROVE  List(add_arguments(req, v, layout))
<1>1. List(req.initrds)
  BY SequencesAreLists, KernelsAssumption
<1>2. \A x : List(<<x>>)
  BY DEF List
<1>3. List(<< >>)
  BY DEF List
<1> QED BY <1>1, <1>2, <1>3 DEF add_arguments

(***************************************************************************)
(* No entry token is the name the model gives to the boot directory.       *)
(***************************************************************************)
LEMMA TokensAreNotFlat ==
  ASSUME NEW req \in Requests
  PROVE  context(req).token # "flat"
<1>1. context(req).token = entry_token(req)
  BY DEF context
<1>2. read_machine_id # "flat"
  BY KernelNamesAssumption DEF read_machine_id, valid_machine_id
<1>3. TokenFile # "flat" /\ OsToken # "flat" /\ req.token # "flat"
  BY KernelNamesAssumption
<1> QED BY <1>1, <1>2, <1>3 DEF entry_token

(***************************************************************************)
(* The next stage of a run works on the same things.                       *)
(***************************************************************************)
LEMMA StagesMoveOn ==
  ASSUME NEW j, DOMAIN j = JobFields
  PROVE  /\ DOMAIN NextStage(j) = JobFields
         /\ NextStage(j).pc = IF j.what = "add" THEN AddStage(j.pc, j) ELSE RemoveStage(j.pc, j)
         /\ NextStage(j).at = 0 /\ NextStage(j).half = FALSE
         /\ \A x \in {"what", "version", "layout", "token", "home", "initrds"} :
               NextStage(j)[x] = j[x]
<1> DEFINE p == IF j.what = "add" THEN AddStage(j.pc, j) ELSE RemoveStage(j.pc, j)
<1>1. NextStage(j) = [j EXCEPT !.pc = p, !.at = 0, !.half = FALSE]
  BY DEF NextStage
<1> HIDE DEF p
<1>2. /\ DOMAIN NextStage(j) = JobFields
      /\ NextStage(j).pc = p
      /\ NextStage(j).at = 0 /\ NextStage(j).half = FALSE
      /\ \A x \in {"what", "version", "layout", "token", "home", "initrds"} :
            NextStage(j)[x] = j[x]
  BY <1>1 DEF JobFields
<1> QED BY <1>2 DEF p

(***************************************************************************)
(* The stages of an add.                                                   *)
(***************************************************************************)
LEMMA StagesOfAdd ==
  ASSUME NEW j
  PROVE  /\ AddStage("start", j) \in {"dracut", "copy"}
         /\ AddStage("dracut", j) = "copy"
         /\ AddStage("copy", j) = IF j.home = "flat" THEN "index" ELSE "entry"
         /\ AddStage("entry", j) = "index"
         /\ AddStage("index", j) = "plugins"
         /\ AddStage("plugins", j) = "done"
BY DEF AddStage

(***************************************************************************)
(* The stages of a removal.                                                *)
(***************************************************************************)
LEMMA StagesOfRemove ==
  ASSUME NEW j
  PROVE  /\ RemoveStage("start", j) = "index"
         /\ RemoveStage("index", j) = "plugins"
         /\ RemoveStage("plugins", j) = "unlink-entry"
         /\ RemoveStage("unlink-entry", j) = "unlink-files"
         /\ RemoveStage("unlink-files", j) = IF j.layout = "bls" THEN "done" ELSE "unlink-image"
         /\ RemoveStage("unlink-image", j) = "done"
BY DEF RemoveStage

(***************************************************************************)
(* A run that moves on is still a run.                                     *)
(***************************************************************************)
LEMMA RunMovesOn ==
  ASSUME NEW j, JobOK(j), j.pc \notin {"idle", "done"}, NEW hs, Housed(j, hs)
  PROVE  JobOK(NextStage(j)) /\ Housed(NextStage(j), hs) /\ NextStage(j).pc # "idle"
<1> DEFINE n == NextStage(j)
<1>1. /\ DOMAIN n = JobFields /\ n.at = 0
      /\ n.pc = IF j.what = "add" THEN AddStage(j.pc, j) ELSE RemoveStage(j.pc, j)
      /\ n.what = j.what /\ n.version = j.version /\ n.layout = j.layout /\ n.token = j.token
      /\ n.home = j.home /\ n.initrds = j.initrds
  BY StagesMoveOn DEF JobOK
<1> HIDE DEF n
<1>2. CASE j.what = "add"
  <2>1. n.pc \in {"copy", "entry", "index", "plugins", "done"} /\ (n.pc = "entry" => j.home # "flat")
    BY <1>1, <1>2, StagesOfAdd DEF JobOK
  <2> QED BY <1>1, <1>2, <2>1 DEF JobOK, Housed, Stages, n
<1>3. CASE j.what = "remove"
  <2>1. n.pc \in {"plugins", "unlink-entry", "unlink-files", "unlink-image", "done"}
    BY <1>1, <1>3, StagesOfRemove DEF JobOK
  <2> QED BY <1>1, <1>3, <2>1 DEF JobOK, Housed, Stages, n
<1> QED BY <1>2, <1>3 DEF JobOK

(***************************************************************************)
(* A file that is written belongs to a version as it was added, and is of  *)
(* no entry that could be booted, or it is whole.                          *)
(***************************************************************************)
LEMMA FileWritten ==
  ASSUME BootFiles, BootEntries, EntriesBoot,
         NEW a, NEW b \in Versions \cup {"all"}, NEW c, NEW x \in {"torn", "whole"},
         b \in Versions =>
            IF a = "flat" THEN c = "linux" /\ \E t : <<"other", t>> \in homes[b]
            ELSE {<<"bls", a>>, <<"other", a>>} \cap homes[b] # {},
         x = "whole" \/ \A e \in DOMAIN entries :
                           entries[e] = Torn \/ e \in unsure \/ <<e[1], e[2]>> # <<a, b>>,
         files' = Put(files, <<a, b, c>>, x), UNCHANGED <<entries, homes, unsure>>
  PROVE  BootFiles' /\ BootEntries' /\ EntriesBoot'
<1> DEFINE f == <<a, b, c>>
<1>1. f[1] = a /\ f[2] = b /\ f[3] = c /\ f = <<f[1], f[2], f[3]>>
  OBVIOUS
<1>2. /\ DOMAIN files' = DOMAIN files \cup {f} /\ files'[f] = x
      /\ \A g \in DOMAIN files \ {f} : files'[g] = files[g]
  BY DEF Put
<1>3. BootEntries'
  BY DEF BootEntries
<1>4. BootFiles'
  <2>1. DOMAIN homes' = Versions
    BY DEF BootFiles
  <2>2. ASSUME NEW g \in DOMAIN files'
        PROVE  /\ g = <<g[1], g[2], g[3]>> /\ files'[g] \in {"torn", "whole"}
               /\ g[2] \in Versions \cup {"all"}
               /\ g[2] \in Versions =>
                     IF g[1] = "flat" THEN g[3] = "linux" /\ \E t : <<"other", t>> \in homes'[g[2]]
                     ELSE {<<"bls", g[1]>>, <<"other", g[1]>>} \cap homes'[g[2]] # {}
    <3> HIDE DEF f
    <3>1. CASE g = f
      BY <1>1, <1>2, <3>1
    <3>2. CASE g # f
      BY <1>2, <3>2 DEF BootFiles
    <3> QED BY <3>1, <3>2
  <2> QED BY <2>1, <2>2 DEF BootFiles
<1>5. EntriesBoot'
  <2> SUFFICES ASSUME NEW e \in DOMAIN entries, entries[e] # Torn, e \notin unsure,
                      NEW name \in {"linux"} \cup (entries[e] \ {"generated"})
               PROVE  /\ <<e[1], e[2], name>> \in DOMAIN files'
                      /\ files'[<<e[1], e[2], name>>] = "whole"
    BY DEF EntriesBoot
  <2> DEFINE p == <<e[1], e[2], name>>
  <2>1. p \in DOMAIN files /\ files[p] = "whole"
    BY DEF EntriesBoot
  <2>2. p = f => x = "whole"
    OBVIOUS
  <2> HIDE DEF p, f
  <2>3. p \in DOMAIN files' /\ files'[p] = "whole"
    BY <1>2, <2>1, <2>2
  <2> QED BY <2>3 DEF p
<1> QED BY <1>3, <1>4, <1>5

(***************************************************************************)
(* Files that are taken away are of no entry that could be booted.         *)
(***************************************************************************)
LEMMA FilesTaken ==
  ASSUME BootFiles, BootEntries, EntriesBoot, NEW S,
         \A f \in S : \A e \in DOMAIN entries : <<e[1], e[2]>> # <<f[1], f[2]>>,
         files' = Without(files, S), UNCHANGED <<entries, homes, unsure>>
  PROVE  BootFiles' /\ BootEntries' /\ EntriesBoot'
<1>1. /\ DOMAIN files' = DOMAIN files \ S
      /\ \A g \in DOMAIN files \ S : files'[g] = files[g]
  BY DEF Without
<1>2. BootFiles' /\ BootEntries'
  BY <1>1 DEF BootFiles, BootEntries
<1>3. EntriesBoot'
  <2> SUFFICES ASSUME NEW e \in DOMAIN entries, entries[e] # Torn, e \notin unsure,
                      NEW name \in {"linux"} \cup (entries[e] \ {"generated"})
               PROVE  /\ <<e[1], e[2], name>> \in DOMAIN files'
                      /\ files'[<<e[1], e[2], name>>] = "whole"
    BY DEF EntriesBoot
  <2>1. <<e[1], e[2], name>> \in DOMAIN files /\ files[<<e[1], e[2], name>>] = "whole"
    BY DEF EntriesBoot
  <2>2. <<e[1], e[2], name>> \notin S
    OBVIOUS
  <2> QED BY <1>1, <2>1, <2>2
<1> QED BY <1>2, <1>3

(***************************************************************************)
(* A run that moves on with the files and the entries as they are.         *)
(***************************************************************************)
LEMMA JobMoves ==
  ASSUME KernelsIInv, job.pc \notin {"idle", "done"}, job' = NextStage(job), UNCHANGED homes
  PROVE  /\ JobOK(job') /\ Housed(job', homes')
         /\ job'.pc = IF job.what = "add" THEN AddStage(job.pc, job) ELSE RemoveStage(job.pc, job)
         /\ job'.what = job.what /\ job'.version = job.version /\ job'.layout = job.layout
         /\ job'.token = job.token /\ job'.home = job.home /\ job'.initrds = job.initrds
         /\ job'.at = 0
         /\ EntryOf(job') = EntryOf(job) /\ Copies(job') = Copies(job)
         /\ \A k : Image(job', k) = Image(job, k)
<1>1. JobOK(job) /\ Housed(job, homes) /\ DOMAIN job = JobFields
  BY DEF KernelsIInv, JobOK
<1>2. JobOK(job') /\ Housed(job', homes')
  BY <1>1, RunMovesOn
<1>3. /\ job'.pc = IF job.what = "add" THEN AddStage(job.pc, job) ELSE RemoveStage(job.pc, job)
      /\ job'.what = job.what /\ job'.version = job.version /\ job'.layout = job.layout
      /\ job'.token = job.token /\ job'.home = job.home /\ job'.initrds = job.initrds
      /\ job'.at = 0
  BY <1>1, StagesMoveOn
<1> QED BY <1>2, <1>3 DEF EntryOf, Copies, Image

(***************************************************************************)
(* A step of a run that stays in its stage changes only what it counts.    *)
(***************************************************************************)
LEMMA JobStays ==
  ASSUME KernelsIInv, job.pc # "idle", Count \/ Emptied, UNCHANGED homes
  PROVE  /\ JobOK(job') /\ Housed(job', homes')
         /\ job'.pc = job.pc
         /\ job'.what = job.what /\ job'.version = job.version /\ job'.layout = job.layout
         /\ job'.token = job.token /\ job'.home = job.home /\ job'.initrds = job.initrds
         /\ job'.at = IF Count THEN job'.at ELSE job.at
         /\ Count => job'.at = job.at + 1
         /\ Emptied => job'.at = job.at
         /\ EntryOf(job') = EntryOf(job) /\ Copies(job') = Copies(job)
         /\ \A k : Image(job', k) = Image(job, k)
<1>1. JobOK(job) /\ Housed(job, homes) /\ DOMAIN job = JobFields
  BY DEF KernelsIInv, JobOK
<1>2. /\ DOMAIN job' = JobFields /\ job'.pc = job.pc
      /\ job'.what = job.what /\ job'.version = job.version /\ job'.layout = job.layout
      /\ job'.token = job.token /\ job'.home = job.home /\ job'.initrds = job.initrds
  BY <1>1 DEF Count, Emptied, JobFields
<1>3. (Count => job'.at = job.at + 1) /\ (Emptied => job'.at = job.at)
  BY <1>1 DEF Count, Emptied, JobFields
<1>4. JobOK(job')
  BY <1>1, <1>2, <1>3 DEF JobOK
<1>5. Housed(job', homes')
  BY <1>1, <1>2 DEF Housed
<1> QED BY <1>2, <1>3, <1>4, <1>5 DEF EntryOf, Copies, Image

(***************************************************************************)
(* A run begins with nothing that could be booted in its way (add, remove).*)
(***************************************************************************)
LEMMA RunBegins ==
  ASSUME KernelsIInv, NEW req \in Requests, NEW v \in Versions,
         add(req, v) \/ remove(req, v)
  PROVE  KernelsIInv'
<1> DEFINE tok == context(req).token
           in == InEntry(req, context(req))
           adds == add(req, v)
           what == IF adds THEN "add" ELSE "remove"
           home == IF adds THEN IF in THEN tok ELSE "flat" ELSE "none"
           initrds == IF what = "add" THEN add_arguments(req, v, context(req).layout) ELSE << >>
           s == [NoJob EXCEPT !.pc = "start", !.what = what, !.version = v,
                              !.layout = context(req).layout, !.token = tok, !.home = home,
                              !.initrds = initrds]
<1>1. what \in {"add", "remove"} /\ (what = "add" <=> adds)
  OBVIOUS
<1>2. job' = NextStage(s) /\ UNCHANGED <<files, entries, machine, drawing>>
  <2>1. CASE adds
    BY <2>1 DEF add, Begin
  <2>2. CASE ~adds
    <3>1. remove(req, v)
      BY <2>2
    <3> QED BY <2>2, <3>1 DEF remove, Begin
  <2> QED BY <2>1, <2>2
<1>3. /\ DOMAIN homes' = Versions /\ \A w \in Versions : homes[w] \subseteq homes'[w]
      /\ adds => (IF in THEN <<"bls", tok>> ELSE <<"other", tok>>) \in homes'[v]
  <2>1. DOMAIN homes = Versions
    BY DEF KernelsIInv, BootFiles
  <2>2. CASE adds
    BY <2>1, <2>2 DEF add
  <2>3. CASE ~adds
    BY <2>1, <2>3 DEF remove
  <2> QED BY <2>2, <2>3
<1>4. /\ unsure \subseteq unsure'
      /\ adds /\ in => <<tok, v>> \notin DOMAIN entries \/ <<tok, v>> \in unsure'
  <2>1. CASE adds
    BY <2>1 DEF add
  <2>2. CASE ~adds
    BY <2>2 DEF remove
  <2> QED BY <2>1, <2>2
<1>5. tok # "flat"
  BY TokensAreNotFlat
<1>6. List(initrds)
  BY ArgumentsAreLists DEF List
<1> HIDE DEF adds, what, home, in, tok, initrds
<1>7. /\ DOMAIN s = JobFields /\ s.pc = "start" /\ s.what = what /\ s.version = v
      /\ s.token = tok /\ s.home = home /\ s.initrds = initrds
  BY DEF NoJob, JobFields
<1> HIDE DEF s
<1>8. /\ DOMAIN job' = JobFields /\ job'.at = 0 /\ job'.what = what /\ job'.version = v
      /\ job'.token = tok /\ job'.home = home /\ job'.initrds = initrds
      /\ job'.pc = IF what = "add" THEN AddStage("start", s) ELSE RemoveStage("start", s)
  BY <1>2, <1>7, StagesMoveOn
<1>9. (what = "add" => job'.pc \in {"dracut", "copy"}) /\ (what = "remove" => job'.pc = "index")
  BY <1>8, StagesOfAdd, StagesOfRemove
<1>10. JobOK(job')
  BY <1>1, <1>5, <1>6, <1>8, <1>9 DEF JobOK, Stages, home
<1>11. Housed(job', homes')
  BY <1>1, <1>3, <1>5, <1>8 DEF Housed, home
<1>12. Adding(job', files', entries', unsure')
  <2> SUFFICES ASSUME what = "add", home # "flat"
               PROVE  /\ EntryOf(job') \notin DOMAIN entries \/ EntryOf(job') \in unsure'
                      /\ \A k \in Copies(job') : \E m \in Copies(job') :
                            m >= job'.at /\ Image(job', m) = Image(job', k)
    BY <1>2, <1>8, <1>9 DEF Adding
  <2>1. EntryOf(job') \notin DOMAIN entries \/ EntryOf(job') \in unsure'
    BY <1>1, <1>4, <1>8 DEF EntryOf, home
  <2>2. ASSUME NEW k \in Copies(job') PROVE k >= job'.at
    BY <1>8 DEF Copies
  <2> QED BY <2>1, <2>2
<1>13. Removing(job', files', entries')
  BY <1>1, <1>8, <1>9 DEF Removing
<1>14. BootFiles'
  BY <1>2, <1>3 DEF BootFiles, KernelsIInv
<1>15. BootEntries'
  BY <1>2, <1>3 DEF BootEntries, KernelsIInv
<1>16. EntriesBoot'
  BY <1>2, <1>4 DEF EntriesBoot, KernelsIInv
<1> QED BY <1>2, <1>10, <1>11, <1>12, <1>13, <1>14, <1>15, <1>16 DEF KernelsIInv

(***************************************************************************)
(* The images are copied one after the other, none of them under an entry  *)
(* that could be booted (copy_image).                                      *)
(***************************************************************************)
LEMMA ImagesCopied ==
  ASSUME KernelsIInv, copy_image
  PROVE  KernelsIInv'
<1> DEFINE file == Image(job, job.at)
<1>1. /\ job.pc = "copy" /\ UNCHANGED <<entries, machine, drawing, homes, unsure>>
  BY DEF copy_image, AtStage
<1>2. /\ JobOK(job) /\ job.what = "add" /\ job.at \in Nat /\ job.version \in Versions
      /\ job.home \in {job.token, "flat"} /\ job.token # "flat"
      /\ (IF job.home = "flat" THEN <<"other", job.token>> ELSE <<"bls", job.token>>)
            \in homes[job.version]
      /\ Len(job.initrds) \in Nat
  BY <1>1 DEF KernelsIInv, JobOK, Housed, List
<1>3. BootFiles /\ BootEntries /\ EntriesBoot /\ Adding(job, files, entries, unsure)
  BY DEF KernelsIInv
<1>4. ASSUME NEW x \in {"torn", "whole"}, job.at \in Copies(job), files' = Put(files, file, x)
      PROVE  BootFiles' /\ BootEntries' /\ EntriesBoot'
  <2> DEFINE a == job.home
             b == IF job.home = "flat" /\ job.at # 0 THEN "all" ELSE job.version
             c == IF job.at = 0 THEN "linux" ELSE job.initrds[job.at]
  <2>1. file = <<a, b, c>>
    BY DEF Image
  <2>2. b \in Versions \cup {"all"}
    BY <1>2
  <2>3. b \in Versions =>
            IF a = "flat" THEN c = "linux" /\ \E t : <<"other", t>> \in homes[b]
            ELSE {<<"bls", a>>, <<"other", a>>} \cap homes[b] # {}
    BY <1>2, KernelNamesAssumption
  <2>4. \A e \in DOMAIN entries : entries[e] = Torn \/ e \in unsure \/ <<e[1], e[2]>> # <<a, b>>
    <3> SUFFICES ASSUME NEW e \in DOMAIN entries, <<e[1], e[2]>> = <<a, b>>
                 PROVE  entries[e] = Torn \/ e \in unsure
      OBVIOUS
    <3>1. e = <<e[1], e[2]>> /\ e[1] # "flat"
      BY <1>3 DEF BootEntries
    <3>2. a # "flat"
      BY <3>1
    <3>3. e = EntryOf(job)
      BY <1>2, <3>1, <3>2 DEF EntryOf
    <3> QED BY <1>1, <1>2, <1>3, <3>2, <3>3 DEF Adding
  <2>5. files' = Put(files, <<a, b, c>>, x)
    BY <1>4, <2>1
  <2> HIDE DEF a, b, c, file
  <2> QED BY <1>1, <1>3, <2>2, <2>3, <2>4, <2>5, FileWritten
<1>5. CASE job.at \in Copies(job) /\ ~job.half /\ files' = Put(files, file, "torn") /\ Emptied
  <2>1. /\ JobOK(job') /\ Housed(job', homes') /\ job'.pc = "copy" /\ job'.what = "add"
        /\ job'.home = job.home /\ job'.at = job.at
        /\ EntryOf(job') = EntryOf(job) /\ Copies(job') = Copies(job)
        /\ \A k : Image(job', k) = Image(job, k)
    BY <1>1, <1>2, <1>5, JobStays
  <2>2. Adding(job', files', entries', unsure')
    <3>1. ASSUME job.home # "flat", NEW k \in Copies(job)
          PROVE  \/ Image(job, k)[3] = "generated"
                 \/ WholeFile(files', Image(job, k))
                 \/ \E m \in Copies(job) : m >= job.at /\ Image(job, m) = Image(job, k)
      <4>1. CASE Image(job, k) = file
        BY <1>2, <1>5, <4>1
      <4>2. CASE Image(job, k) # file /\ WholeFile(files, Image(job, k))
        BY <1>5, <4>2 DEF WholeFile, Put
      <4> QED BY <1>1, <1>2, <1>3, <3>1, <4>1, <4>2 DEF Adding
    <3> QED BY <1>1, <1>2, <1>3, <2>1, <3>1 DEF Adding
  <2>3. Removing(job', files', entries')
    BY <2>1 DEF Removing
  <2>4. BootFiles' /\ BootEntries' /\ EntriesBoot'
    BY <1>4, <1>5
  <2> QED BY <1>1, <2>1, <2>2, <2>3, <2>4 DEF KernelsIInv
<1>6. ASSUME job.at \in Copies(job), Count, NEW x \in {"torn", "whole"},
             files' = Put(files, file, x),
             job.home # "flat" /\ file[3] # "generated" => x = "whole"
      PROVE  KernelsIInv'
  <2>1. /\ JobOK(job') /\ Housed(job', homes') /\ job'.pc = "copy" /\ job'.what = "add"
        /\ job'.home = job.home /\ job'.at = job.at + 1
        /\ EntryOf(job') = EntryOf(job) /\ Copies(job') = Copies(job)
        /\ \A k : Image(job', k) = Image(job, k)
    BY <1>1, <1>2, <1>6, JobStays
  <2>2. Adding(job', files', entries', unsure')
    <3>1. ASSUME job.home # "flat", NEW k \in Copies(job)
          PROVE  \/ Image(job, k)[3] = "generated"
                 \/ WholeFile(files', Image(job, k))
                 \/ \E m \in Copies(job) : m >= job.at + 1 /\ Image(job, m) = Image(job, k)
      <4>1. CASE Image(job, k) = file
        BY <1>6, <3>1, <4>1 DEF WholeFile, Put
      <4>2. CASE Image(job, k) # file /\ WholeFile(files, Image(job, k))
        BY <1>6, <4>2 DEF WholeFile, Put
      <4>3. CASE Image(job, k) # file /\ \E m \in Copies(job) : m >= job.at /\ Image(job, m) = Image(job, k)
        <5>1. PICK m \in Copies(job) : m >= job.at /\ Image(job, m) = Image(job, k)
          BY <4>3
        <5>2. m # job.at
          BY <4>3, <5>1
        <5>3. m >= job.at + 1
          BY <1>2, <5>1, <5>2 DEF Copies
        <5> QED BY <5>1, <5>3
      <4> QED BY <1>1, <1>2, <1>3, <3>1, <4>1, <4>2, <4>3 DEF Adding
    <3> QED BY <1>1, <1>2, <1>3, <2>1, <3>1 DEF Adding
  <2>3. Removing(job', files', entries')
    BY <2>1 DEF Removing
  <2>4. BootFiles' /\ BootEntries' /\ EntriesBoot'
    BY <1>4, <1>6
  <2> QED BY <1>1, <2>1, <2>2, <2>3, <2>4 DEF KernelsIInv
<1>7. CASE job.at \notin Copies(job) /\ job' = NextStage(job) /\ UNCHANGED files
  <2>1. /\ JobOK(job') /\ Housed(job', homes') /\ job'.what = "add" /\ job'.home = job.home
        /\ job'.pc = IF job.home = "flat" THEN "index" ELSE "entry"
        /\ EntryOf(job') = EntryOf(job) /\ Copies(job') = Copies(job)
        /\ \A k : Image(job', k) = Image(job, k)
    BY <1>1, <1>2, <1>7, JobMoves, StagesOfAdd
  <2>2. \A m \in Copies(job) : ~ (m >= job.at)
    BY <1>2, <1>7 DEF Copies
  <2>3. Adding(job', files', entries', unsure')
    BY <1>1, <1>2, <1>3, <1>7, <2>1, <2>2 DEF Adding
  <2>4. Removing(job', files', entries')
    BY <2>1 DEF Removing
  <2>5. BootFiles' /\ BootEntries' /\ EntriesBoot'
    BY <1>1, <1>3, <1>7 DEF BootFiles, BootEntries, EntriesBoot
  <2> QED BY <1>1, <2>1, <2>3, <2>4, <2>5 DEF KernelsIInv
<1>8. ASSUME job.at \in Copies(job), Count,
             files' = Put(files, file,
                          IF file[3] = "generated" /\ job.home # "flat" THEN "torn" ELSE "whole")
      PROVE  KernelsIInv'
  BY <1>6, <1>8
<1> QED BY <1>5, <1>7, <1>8 DEF copy_image

(***************************************************************************)
(* dracut writes its initrd whole (generate_initrd).                       *)
(***************************************************************************)
LEMMA DracutRun ==
  ASSUME KernelsIInv, run_dracut
  PROVE  KernelsIInv'
<1>1. /\ job.pc = "dracut" /\ UNCHANGED <<entries, machine, drawing, homes, unsure>>
      /\ files' = Put(files, <<job.token, job.version, "generated">>, "whole")
      /\ job' = NextStage(job)
  BY DEF run_dracut, AtStage
<1>2. /\ JobOK(job) /\ job.what = "add" /\ job.version \in Versions /\ job.token # "flat"
      /\ job.home \in {job.token, "flat"}
      /\ {<<"bls", job.token>>, <<"other", job.token>>} \cap homes[job.version] # {}
  BY <1>1 DEF KernelsIInv, JobOK, Housed
<1>3. BootFiles /\ BootEntries /\ EntriesBoot /\ Adding(job, files, entries, unsure)
  BY DEF KernelsIInv
<1>4. BootFiles' /\ BootEntries' /\ EntriesBoot'
  BY <1>1, <1>2, <1>3, FileWritten
<1>5. /\ JobOK(job') /\ Housed(job', homes') /\ job'.what = "add" /\ job'.home = job.home
      /\ job'.pc = "copy" /\ job'.at = 0
      /\ EntryOf(job') = EntryOf(job) /\ Copies(job') = Copies(job)
      /\ \A k : Image(job', k) = Image(job, k)
  BY <1>1, <1>2, JobMoves, StagesOfAdd
<1>6. Adding(job', files', entries', unsure')
  <2>1. \A k \in Copies(job) : k >= job'.at
    BY <1>5 DEF Copies
  <2> QED BY <1>1, <1>2, <1>3, <1>5, <2>1 DEF Adding
<1>7. Removing(job', files', entries')
  BY <1>5 DEF Removing
<1> QED BY <1>1, <1>4, <1>5, <1>6, <1>7 DEF KernelsIInv

(***************************************************************************)
(* The entry is written when all it names is whole (write_loader_entry).   *)
(***************************************************************************)
LEMMA EntryWritten ==
  ASSUME KernelsIInv, write_loader_entry
  PROVE  KernelsIInv'
<1> DEFINE e == EntryOf(job)
<1>1. job.pc = "entry" /\ UNCHANGED <<files, machine, drawing, homes>>
  BY DEF write_loader_entry, AtStage
<1>2. /\ JobOK(job) /\ job.what = "add" /\ job.version \in Versions /\ job.token # "flat"
      /\ job.home = job.token /\ <<"bls", job.token>> \in homes[job.version]
      /\ Len(job.initrds) \in Nat /\ DOMAIN job.initrds = 1 .. Len(job.initrds)
  BY <1>1 DEF KernelsIInv, JobOK, Housed, List
<1>3. BootFiles /\ BootEntries /\ EntriesBoot /\ Adding(job, files, entries, unsure)
  BY DEF KernelsIInv
<1>4. e[1] = job.token /\ e[2] = job.version /\ e = <<e[1], e[2]>>
  BY DEF EntryOf
<1>5. BootFiles'
  BY <1>1, <1>3 DEF BootFiles
<1>6. ASSUME NEW x, entries' = Put(entries, e, x),
             \/ x = Torn /\ unsure' = unsure
             \/ /\ unsure' = unsure \ {e}
                /\ \A name \in {"linux"} \cup (x \ {"generated"}) :
                      WholeFile(files, <<e[1], e[2], name>>)
      PROVE  BootEntries' /\ EntriesBoot'
  <2> HIDE DEF e
  <2>1. /\ DOMAIN entries' = DOMAIN entries \cup {e} /\ entries'[e] = x
        /\ \A d \in DOMAIN entries \ {e} : entries'[d] = entries[d]
    BY <1>6 DEF Put
  <2>2. BootEntries'
    BY <1>1, <1>2, <1>3, <1>4, <2>1 DEF BootEntries
  <2>3. ASSUME NEW d \in DOMAIN entries', entries'[d] # Torn, d \notin unsure'
        PROVE  \A name \in {"linux"} \cup (entries'[d] \ {"generated"}) :
                  WholeFile(files', <<d[1], d[2], name>>)
    <3>1. CASE d = e
      BY <1>1, <1>6, <2>1, <2>3, <3>1 DEF WholeFile
    <3>2. CASE d # e
      BY <1>1, <1>3, <1>6, <2>1, <2>3, <3>2 DEF WholeFile, EntriesBoot
    <3> QED BY <3>1, <3>2
  <2> QED BY <2>2, <2>3 DEF EntriesBoot, WholeFile
<1>7. CASE entries' = Put(entries, e, Torn) /\ Emptied /\ UNCHANGED unsure
  <2>1. BootEntries' /\ EntriesBoot'
    BY <1>6, <1>7
  <2>2. /\ JobOK(job') /\ Housed(job', homes') /\ job'.pc = "entry" /\ job'.what = "add"
        /\ job'.home = job.home
        /\ EntryOf(job') = EntryOf(job) /\ Copies(job') = Copies(job)
        /\ \A k : Image(job', k) = Image(job, k)
    BY <1>1, <1>2, <1>7, JobStays
  <2>3. entries'[e] = Torn
    BY <1>7 DEF Put
  <2>4. Adding(job', files', entries', unsure')
    BY <1>1, <1>2, <1>3, <2>2, <2>3 DEF Adding
  <2>5. Removing(job', files', entries')
    BY <2>2 DEF Removing
  <2> QED BY <1>1, <1>5, <2>1, <2>2, <2>4, <2>5 DEF KernelsIInv
<1>8. CASE /\ entries' = Put(entries, e, ToSet(job.initrds)) /\ job' = NextStage(job)
           /\ unsure' = unsure \ {e}
  <2>1. ASSUME NEW name \in {"linux"} \cup (ToSet(job.initrds) \ {"generated"})
        PROVE  WholeFile(files, <<e[1], e[2], name>>)
    <3>1. PICK k \in Copies(job) : name = IF k = 0 THEN "linux" ELSE job.initrds[k]
      <4>1. CASE name = "linux"
        <5>1. 0 \in Copies(job)
          BY <1>2 DEF Copies
        <5> QED BY <4>1, <5>1
      <4>2. CASE name # "linux"
        <5>1. PICK k \in DOMAIN job.initrds : name = job.initrds[k]
          BY <4>2 DEF ToSet
        <5>2. k \in Copies(job) /\ k # 0
          BY <1>2, <5>1 DEF Copies
        <5> QED BY <5>1, <5>2
      <4> QED BY <4>1, <4>2
    <3>2. Image(job, k) = <<job.token, job.version, name>>
      BY <1>2, <3>1 DEF Image
    <3>3. name # "generated"
      OBVIOUS
    <3> QED BY <1>1, <1>2, <1>3, <1>4, <3>1, <3>2, <3>3 DEF Adding
  <2>2. BootEntries' /\ EntriesBoot'
    BY <1>6, <1>8, <2>1
  <2>3. /\ JobOK(job') /\ Housed(job', homes') /\ job'.pc = "index" /\ job'.what = "add"
    BY <1>1, <1>2, <1>8, JobMoves, StagesOfAdd
  <2>4. Adding(job', files', entries', unsure') /\ Removing(job', files', entries')
    BY <2>3 DEF Adding, Removing
  <2> QED BY <1>1, <1>5, <2>2, <2>3, <2>4 DEF KernelsIInv
<1> QED BY <1>7, <1>8 DEF write_loader_entry

(***************************************************************************)
(* A run that ends, well or not, leaves what there is                      *)
(* (KernelDone, KernelFails).                                              *)
(***************************************************************************)
LEMMA RunEnds ==
  ASSUME KernelsIInv, KernelDone \/ KernelFails
  PROVE  KernelsIInv'
<1>1. job' = NoJob /\ UNCHANGED <<files, entries, machine, drawing, homes, unsure>>
  BY DEF KernelDone, KernelFails
<1>2. /\ JobOK(job') /\ Housed(job', homes') /\ Adding(job', files', entries', unsure')
      /\ Removing(job', files', entries')
  BY <1>1 DEF NoJob, JobOK, JobFields, List, Stages, Housed, Adding, Removing
<1>3. BootFiles' /\ BootEntries' /\ EntriesBoot'
  BY <1>1 DEF KernelsIInv, BootFiles, BootEntries, EntriesBoot
<1> QED BY <1>1, <1>2, <1>3 DEF KernelsIInv

(***************************************************************************)
(* The module index and the plugins touch nothing of the boot file system  *)
(* (run_module_index, run_admin_plugins).                                  *)
(***************************************************************************)
LEMMA NothingTouched ==
  ASSUME KernelsIInv, run_module_index \/ run_admin_plugins
  PROVE  KernelsIInv'
<1>1. /\ job.pc \in {"index", "plugins"} /\ (Count \/ job' = NextStage(job))
      /\ UNCHANGED <<files, entries, machine, drawing, homes, unsure>>
  BY DEF run_module_index, run_admin_plugins, AtStage
<1>2. JobOK(job') /\ Housed(job', homes') /\ job'.what = job.what /\ job.what \in {"add", "remove"}
  <2>1. job.what \in {"add", "remove"}
    BY <1>1 DEF KernelsIInv, JobOK
  <2> QED BY <1>1, <2>1, JobMoves, JobStays
<1>3. /\ job.what = "add" => job'.pc \in {"index", "plugins", "done"}
      /\ job.what = "remove" => job'.pc \in {"index", "plugins", "unlink-entry"}
  <2>1. CASE Count
    BY <1>1, <2>1, JobStays
  <2>2. CASE job' = NextStage(job)
    BY <1>1, <2>2, JobMoves, StagesOfAdd, StagesOfRemove
  <2> QED BY <1>1, <2>1, <2>2
<1>4. Adding(job', files', entries', unsure') /\ Removing(job', files', entries')
  BY <1>2, <1>3 DEF Adding, Removing
<1>5. BootFiles' /\ BootEntries' /\ EntriesBoot'
  BY <1>1 DEF KernelsIInv, BootFiles, BootEntries, EntriesBoot
<1> QED BY <1>1, <1>2, <1>4, <1>5 DEF KernelsIInv

(***************************************************************************)
(* A removal takes the entry before its files (remove_path).               *)
(***************************************************************************)
LEMMA PathsRemoved ==
  ASSUME KernelsIInv, remove_path
  PROVE  KernelsIInv'
<1> DEFINE e == EntryOf(job)
<1>1. /\ UNCHANGED <<machine, drawing, homes>>
      /\ job.pc \in {"unlink-entry", "unlink-files", "unlink-image"}
  BY DEF remove_path, AtStage
<1>2. /\ JobOK(job) /\ job.what = "remove" /\ job.version \in Versions /\ job.token # "flat"
  BY <1>1 DEF KernelsIInv, JobOK
<1>3. BootFiles /\ BootEntries /\ EntriesBoot /\ Removing(job, files, entries)
  BY DEF KernelsIInv
<1>4. e[1] = job.token /\ e[2] = job.version
  BY DEF EntryOf
<1>5. job' = NextStage(job) =>
        /\ JobOK(job') /\ Housed(job', homes') /\ job'.what = "remove"
        /\ job'.layout = job.layout /\ job'.version = job.version /\ EntryOf(job') = e
        /\ job'.pc = RemoveStage(job.pc, job)
  BY <1>1, <1>2, JobMoves
<1>6. CASE /\ job.pc = "unlink-entry" /\ job' = NextStage(job) /\ UNCHANGED files
           /\ entries' = Without(entries, {e}) /\ unsure' = unsure \ {e}
  <2> HIDE DEF e
  <2>1. /\ DOMAIN entries' = DOMAIN entries \ {e}
        /\ \A d \in DOMAIN entries' : entries'[d] = entries[d]
    BY <1>6 DEF Without
  <2>2. job'.pc = "unlink-files"
    BY <1>5, <1>6, StagesOfRemove
  <2>3. Adding(job', files', entries', unsure') /\ Removing(job', files', entries')
    BY <1>5, <1>6, <2>1, <2>2 DEF Adding, Removing
  <2>4. BootFiles' /\ BootEntries' /\ EntriesBoot'
    BY <1>1, <1>3, <1>6, <2>1 DEF BootFiles, BootEntries, EntriesBoot
  <2> QED BY <1>1, <1>5, <1>6, <2>3, <2>4 DEF KernelsIInv
<1>7. ASSUME job.pc = "unlink-files", UNCHANGED <<entries, unsure>>,
             {f \in DOMAIN files : <<f[1], f[2]>> = e} = {},
             job' = NextStage(job), UNCHANGED files
      PROVE  KernelsIInv'
  <2> HIDE DEF e
  <2>1. job'.pc = IF job.layout = "bls" THEN "done" ELSE "unlink-image"
    BY <1>5, <1>7, StagesOfRemove
  <2>2. Adding(job', files', entries', unsure') /\ Removing(job', files', entries')
    BY <1>2, <1>3, <1>5, <1>7, <2>1 DEF Adding, Removing, e
  <2>3. BootFiles' /\ BootEntries' /\ EntriesBoot'
    BY <1>1, <1>3, <1>7 DEF BootFiles, BootEntries, EntriesBoot
  <2> QED BY <1>1, <1>5, <1>7, <2>2, <2>3 DEF KernelsIInv
<1>8. ASSUME job.pc = "unlink-files", UNCHANGED <<entries, unsure, job>>,
             NEW f \in DOMAIN files, <<f[1], f[2]>> = e, files' = Without(files, {f})
      PROVE  KernelsIInv'
  <2>1. \A d \in DOMAIN entries : <<d[1], d[2]>> # <<f[1], f[2]>>
    BY <1>2, <1>3, <1>8 DEF Removing, BootEntries
  <2>2. BootFiles' /\ BootEntries' /\ EntriesBoot'
    <3>1. \A g \in {f} : \A d \in DOMAIN entries : <<d[1], d[2]>> # <<g[1], g[2]>>
      BY <2>1
    <3> QED BY <1>1, <1>3, <1>8, <3>1, FilesTaken
  <2>3. Removing(job', files', entries') /\ Adding(job', files', entries', unsure')
    BY <1>2, <1>3, <1>8 DEF Removing, Adding
  <2>4. JobOK(job') /\ Housed(job', homes')
    BY <1>1, <1>2, <1>8 DEF KernelsIInv, Housed
  <2> QED BY <1>1, <2>2, <2>3, <2>4 DEF KernelsIInv
<1>9. ASSUME job.pc = "unlink-image", UNCHANGED <<entries, unsure>>, job' = NextStage(job),
             files' = Without(files, {<<"flat", job.version, "linux">>})
      PROVE  KernelsIInv'
  <2> DEFINE f == <<"flat", job.version, "linux">>
  <2>1. \A g \in {f} : \A d \in DOMAIN entries : <<d[1], d[2]>> # <<g[1], g[2]>>
    <3> SUFFICES ASSUME NEW d \in DOMAIN entries PROVE d[1] # f[1]
      OBVIOUS
    <3> QED BY <1>3 DEF BootEntries
  <2>2. BootFiles' /\ BootEntries' /\ EntriesBoot'
    BY <1>1, <1>3, <1>9, <2>1, FilesTaken
  <2>3. DOMAIN files' = DOMAIN files \ {f}
    BY <1>9 DEF Without
  <2>4. job'.pc = "done"
    BY <1>5, <1>9, StagesOfRemove
  <2>5. Removing(job', files', entries') /\ Adding(job', files', entries', unsure')
    BY <1>2, <1>3, <1>5, <1>9, <2>3, <2>4 DEF Removing, Adding
  <2> QED BY <1>1, <1>5, <1>9, <2>2, <2>5 DEF KernelsIInv
<1> QED BY <1>6, <1>7, <1>8, <1>9 DEF remove_path, AtStage

(***************************************************************************)
(* The machine id is no business of a run that has begun.                  *)
(***************************************************************************)
LEMMA IdWritten ==
  ASSUME KernelsIInv, ensure_machine_id \/ create_machine_id
  PROVE  KernelsIInv'
<1>1. /\ UNCHANGED <<files, entries, job, homes, unsure>>
      /\ drawing' \in {"idle", "create", "write"}
      /\ machine' \in MachineIds \cup {"absent", "empty", "torn"}
  BY DEF ensure_machine_id, create_machine_id, KernelsIInv
<1> QED BY <1>1 DEF KernelsIInv, BootFiles, BootEntries, EntriesBoot, Housed, Adding, Removing

(***************************************************************************)
(* kernel-install and fractald-machine-id keep their invariant.            *)
(***************************************************************************)
THEOREM KernelsInductive == HostSpec => []KernelsIInv
<1>1. HostInit => KernelsIInv
  <2> SUFFICES ASSUME HostInit PROVE KernelsIInv
    OBVIOUS
  <2>1. /\ files = << >> /\ entries = << >> /\ job = NoJob /\ machine \in {"absent", "empty"}
        /\ drawing = "idle" /\ homes = [v \in Versions |-> {}]
    BY DEF HostInit, KernelsInit
  <2>2. JobOK(job) /\ Housed(job, homes) /\ Adding(job, files, entries, unsure)
        /\ Removing(job, files, entries)
    BY <2>1 DEF NoJob, JobOK, JobFields, List, Stages, Housed, Adding, Removing
  <2>3. DOMAIN files = {} /\ DOMAIN entries = {}
    BY <2>1
  <2> QED BY <2>1, <2>2, <2>3 DEF KernelsIInv, BootFiles, BootEntries, EntriesBoot
<1>2. KernelsIInv /\ [HostNext]_hostVars => KernelsIInv'
  <2> SUFFICES ASSUME KernelsIInv, [HostNext]_hostVars PROVE KernelsIInv'
    OBVIOUS
  <2>1. CASE UNCHANGED kernelVars
    BY <2>1 DEF kernelVars, KernelsIInv, BootFiles, BootEntries, EntriesBoot, Housed, Adding, Removing
  <2>2. CASE KernelsNext
    BY <2>2, RunBegins, ImagesCopied, DracutRun, EntryWritten, NothingTouched, PathsRemoved,
       RunEnds, IdWritten DEF KernelsNext
  <2> QED BY <2>1, <2>2 DEF HostNext, hostVars
<1> QED BY <1>1, <1>2, PTL DEF HostSpec

(***************************************************************************)
(* What the boot menu offers can be booted, at every instant and after     *)
(* every failed or killed run (add, remove and their order).               *)
(***************************************************************************)
THEOREM EntriesAlwaysBoot == HostSpec => [](KernelsTypeOK /\ EntriesBoot)
<1>1. KernelsIInv => KernelsTypeOK /\ EntriesBoot
  BY DEF KernelsIInv, KernelsTypeOK, BootFiles, BootEntries, JobOK
<1> QED BY <1>1, KernelsInductive, PTL

(***************************************************************************)
(* A removal that reports success leaves no entry and no file of a version *)
(* that was only ever added as it is removed (remove).                     *)
(***************************************************************************)
THEOREM RemovedIsReallyGone == HostSpec => RemovedIsGone
<1> DEFINE NothingLeft ==
      LET v == job.version
          removed == job.what = "remove" /\ job.pc = "done" /\ job'.pc = "idle"
          known == homes[v] \subseteq {<<IF job.layout = "bls" THEN "bls" ELSE "other", job.token>>}
      IN  removed /\ known => /\ \A f \in DOMAIN files' : f[2] # v
                              /\ \A e \in DOMAIN entries' : e[2] # v
<1>1. KernelsIInv /\ [HostNext]_hostVars => [NothingLeft]_kernelVars
  <2> DEFINE mode == IF job.layout = "bls" THEN "bls" ELSE "other"
  <2> SUFFICES ASSUME KernelsIInv, KernelsNext, job.what = "remove", job.pc = "done",
                      job'.pc = "idle", homes[job.version] \subseteq {<<mode, job.token>>}
               PROVE  /\ \A f \in DOMAIN files' : f[2] # job.version
                      /\ \A e \in DOMAIN entries' : e[2] # job.version
    BY DEF HostNext, hostVars
  <2>1. UNCHANGED <<files, entries>>
    BY DEF KernelsNext, ensure_machine_id, create_machine_id, add, remove, Begin, copy_image,
           run_dracut, write_loader_entry, run_module_index, run_admin_plugins, remove_path,
           KernelDone, KernelFails, AtStage
  <2>2. job.version \in Versions /\ job.token # "flat"
    BY DEF KernelsIInv, JobOK
  <2>3. /\ EntryOf(job) \notin DOMAIN entries /\ \A f \in DOMAIN files : <<f[1], f[2]>> # EntryOf(job)
        /\ job.layout # "bls" => <<"flat", job.version, "linux">> \notin DOMAIN files
    BY DEF KernelsIInv, Removing
  <2>4. ASSUME NEW f \in DOMAIN files, f[2] = job.version PROVE FALSE
    <3>1. f = <<f[1], f[2], f[3]>>
      BY DEF KernelsIInv, BootFiles
    <3>2. CASE f[1] = "flat"
      <4>1. f[3] = "linux" /\ \E t : <<"other", t>> \in homes[job.version]
        BY <2>2, <2>4, <3>2 DEF KernelsIInv, BootFiles
      <4>2. PICK t : <<"other", t>> \in homes[job.version]
        BY <4>1
      <4>3. mode = "other"
        BY <4>2
      <4> QED BY <2>3, <2>4, <3>1, <3>2, <4>1, <4>3
    <3>3. CASE f[1] # "flat"
      <4>1. {<<"bls", f[1]>>, <<"other", f[1]>>} \cap homes[job.version] # {}
        BY <2>2, <2>4, <3>3 DEF KernelsIInv, BootFiles
      <4>2. f[1] = job.token
        BY <4>1
      <4> QED BY <2>3, <2>4, <4>2 DEF EntryOf
    <3> QED BY <3>2, <3>3
  <2>5. ASSUME NEW e \in DOMAIN entries, e[2] = job.version PROVE FALSE
    <3>1. e = <<e[1], e[2]>> /\ <<"bls", e[1]>> \in homes[job.version]
      BY <2>5 DEF KernelsIInv, BootEntries
    <3>2. e[1] = job.token
      BY <3>1
    <3> QED BY <2>3, <2>5, <3>1, <3>2 DEF EntryOf
  <2> QED BY <2>1, <2>4, <2>5
<1> QED BY <1>1, KernelsInductive, PTL DEF HostSpec, RemovedIsGone

(***************************************************************************)
(* A tool that reports success has done all it was asked for: the accounts *)
(* are in all the files, the removed kernel is gone.                       *)
(***************************************************************************)
THEOREM SuccessIsAlwaysTrue == HostSpec => SuccessIsTrue
BY RunsAreComplete, RemovedIsReallyGone DEF SuccessIsTrue

(* ------------------------------- storage ------------------------------- *)

\* The mappings storage-prepare has to open.
Needed == {k \in DOMAIN Crypttab : ~Skipped(Crypttab[k]) /\ ~Crypttab[k].nofail}

\* What is on a mapping that has to be open, and is brought up by the scans
\* in I.
OnNeeded(I) ==
  {v \in DOMAIN Volumes :
     /\ \E k \in Needed : Volumes[v].on = Crypttab[k].name
     /\ \E i \in I : Volumes[v].tool = Scans[i]}

\* The inductive invariant of storage-prepare: what has been passed has been
\* opened, and what a later scan has passed is up.
PrepareIInv ==
  /\ DOMAIN prep = {"pc", "at", "clean"} /\ prep.at \in Nat \ {0}
  /\ DOMAIN gen = {"pc", "read", "units"} /\ StorageTypeOK
  /\ Stage("crypttab") => \A k \in Needed : k < prep.at => Crypttab[k].name \in present
  /\ Stage("rescan") \/ Stage("done") => \A k \in Needed : Crypttab[k].name \in present
  /\ Stage("rescan") /\ prep.clean => OnNeeded(1 .. (prep.at - 1)) \cap OnNeeded(1 .. 4) \subseteq present
  /\ Stage("done") /\ prep.clean => OnNeeded(1 .. 4) \subseteq present

(***************************************************************************)
(* The steps of a stage of storage-prepare, and to the next.               *)
(***************************************************************************)
LEMMA PrepareMoves ==
  ASSUME DOMAIN prep = {"pc", "at", "clean"}, prep.at \in Nat \ {0}
  PROVE  /\ \A pc : ToStage(pc) =>
               /\ DOMAIN prep' = {"pc", "at", "clean"}
               /\ prep'.pc = pc /\ prep'.at = 1 /\ prep'.clean = prep.clean
         /\ \A clean : Advance(clean) =>
               /\ DOMAIN prep' = {"pc", "at", "clean"}
               /\ prep'.pc = prep.pc /\ prep'.at = prep.at + 1 /\ (prep'.clean => prep.clean /\ clean)
BY DEF ToStage, Advance

(***************************************************************************)
(* A scan (activate_block_storage).                                        *)
(***************************************************************************)
LEMMA BlockStorageActivated ==
  ASSUME PrepareIInv, activate_block_storage
  PROVE  PrepareIInv'
<1>1. /\ prep.pc \in {"scan", "rescan"} /\ UNCHANGED gen
      /\ DOMAIN prep = {"pc", "at", "clean"} /\ prep.at \in Nat \ {0}
      /\ DOMAIN gen' = {"pc", "read", "units"}
  BY DEF activate_block_storage, PrepareIInv, Stage
<1>2. Len(Scans) = 4
  BY DEF Scans
<1>3. CASE prep.at > 4 /\ ToStage(AfterScan) /\ UNCHANGED present
  <2>1. /\ DOMAIN prep' = {"pc", "at", "clean"} /\ prep'.at = 1 /\ prep'.clean = prep.clean
        /\ prep'.pc = IF prep.pc = "scan" THEN "crypttab" ELSE "done"
    BY <1>1, <1>3, PrepareMoves DEF AfterScan, Stage
  <2>2. StorageTypeOK'
    BY <1>1, <1>3, <2>1 DEF PrepareIInv, StorageTypeOK
  <2>3. CASE prep.pc = "scan"
    <3>1. \A k \in Needed : ~ (k < 1)
      BY StorageAssumption DEF Needed
    <3> QED BY <1>1, <1>3, <2>1, <2>2, <2>3, <3>1 DEF PrepareIInv, Stage
  <2>4. CASE prep.pc = "rescan"
    <3>1. prep.clean => OnNeeded(1 .. 4) \subseteq present
      <4>1. OnNeeded(1 .. 4) \subseteq OnNeeded(1 .. (prep.at - 1))
        BY <1>1, <1>3 DEF OnNeeded
      <4> QED BY <2>4, <4>1 DEF PrepareIInv, Stage
    <3> QED BY <1>1, <1>3, <2>1, <2>2, <2>4, <3>1 DEF PrepareIInv, Stage
  <2> QED BY <1>1, <2>3, <2>4
<1>4. ASSUME ~(prep.at > 4), NEW outcome \in run_storage_command,
             present' = IF outcome # "ok" THEN present
                        ELSE present \cup {v \in DOMAIN Volumes :
                               Volumes[v].tool = Scans[prep.at] /\ Volumes[v].on \in present},
             IF outcome = "error" THEN ToStage("failed") ELSE Advance(outcome = "ok")
      PROVE  PrepareIInv'
  <2>1. present \subseteq present'
    BY <1>4
  <2>2. present' \subseteq Disks \cup DOMAIN Volumes \cup {Crypttab[k].name : k \in DOMAIN Crypttab}
    BY <1>4 DEF PrepareIInv, StorageTypeOK
  <2>3. CASE outcome = "error"
    <3>1. /\ DOMAIN prep' = {"pc", "at", "clean"} /\ prep'.at = 1 /\ prep'.pc = "failed"
      BY <1>1, <1>4, <2>3, PrepareMoves
    <3> QED BY <1>1, <2>2, <3>1 DEF PrepareIInv, StorageTypeOK, Stage
  <2>4. CASE outcome # "error"
    <3>1. /\ DOMAIN prep' = {"pc", "at", "clean"} /\ prep'.at = prep.at + 1 /\ prep'.pc = prep.pc
          /\ prep'.clean => prep.clean /\ outcome = "ok"
      BY <1>1, <1>4, <2>4, PrepareMoves
    <3>2. StorageTypeOK'
      BY <1>1, <2>2, <3>1 DEF PrepareIInv, StorageTypeOK
    <3>3. CASE prep.pc = "scan"
      BY <1>1, <3>1, <3>2, <3>3 DEF PrepareIInv, Stage
    <3>4. CASE prep.pc = "rescan"
      <4>1. \A k \in Needed : Crypttab[k].name \in present
        BY <3>4 DEF PrepareIInv, Stage
      <4>2. ASSUME prep'.clean, NEW v \in OnNeeded(1 .. prep.at) PROVE v \in present'
        <5>1. PICK i \in 1 .. prep.at : Volumes[v].tool = Scans[i]
          BY DEF OnNeeded
        <5>2. CASE i = prep.at
          BY <1>4, <3>1, <4>1, <4>2, <5>1, <5>2 DEF OnNeeded
        <5>3. CASE i # prep.at
          <6>1. i \in 1 .. (prep.at - 1) /\ i \in 1 .. 4
            BY <1>1, <1>4, <5>3
          <6>2. v \in OnNeeded(1 .. (prep.at - 1)) /\ v \in OnNeeded(1 .. 4)
            BY <5>1, <6>1 DEF OnNeeded
          <6> QED BY <2>1, <3>1, <3>4, <4>2, <6>2 DEF PrepareIInv, Stage
        <5> QED BY <5>2, <5>3
      <4>3. prep'.at - 1 = prep.at
        BY <1>1, <3>1
      <4> QED BY <1>1, <2>1, <3>1, <3>2, <3>4, <4>1, <4>2, <4>3 DEF PrepareIInv, Stage, OnNeeded
    <3> QED BY <1>1, <3>3, <3>4
  <2> QED BY <2>3, <2>4
<1> QED BY <1>2, <1>3, <1>4 DEF activate_block_storage

(***************************************************************************)
(* A line of crypttab (activate_daemon_crypttab).                          *)
(***************************************************************************)
LEMMA CrypttabActivated ==
  ASSUME PrepareIInv, activate_daemon_crypttab
  PROVE  PrepareIInv'
<1>1. /\ prep.pc = "crypttab" /\ UNCHANGED gen
      /\ DOMAIN prep = {"pc", "at", "clean"} /\ prep.at \in Nat \ {0}
      /\ DOMAIN gen' = {"pc", "read", "units"}
  BY DEF activate_daemon_crypttab, PrepareIInv, Stage
<1>2. /\ DOMAIN gen = {"pc", "read", "units"} /\ StorageTypeOK
      /\ \A k \in Needed : k < prep.at => Crypttab[k].name \in present
  BY <1>1 DEF PrepareIInv, Stage
<1>3. Len(Crypttab) \in Nat /\ DOMAIN Crypttab = 1 .. Len(Crypttab) /\ Needed \subseteq DOMAIN Crypttab
  BY StorageAssumption DEF Needed
<1>4. CASE prep.at > Len(Crypttab) /\ ToStage(AfterCrypttab) /\ UNCHANGED present
  <2>1. DOMAIN prep' = {"pc", "at", "clean"} /\ prep'.at = 1 /\ prep'.pc = "rescan"
    BY <1>1, <1>4, PrepareMoves DEF AfterCrypttab
  <2>2. \A k \in Needed : Crypttab[k].name \in present
    BY <1>1, <1>2, <1>3, <1>4
  <2>3. OnNeeded(1 .. (prep'.at - 1)) = {}
    BY <2>1 DEF OnNeeded
  <2>4. StorageTypeOK'
    BY <1>1, <1>2, <1>4, <2>1 DEF StorageTypeOK
  <2> QED BY <1>1, <1>4, <2>1, <2>2, <2>3, <2>4 DEF PrepareIInv, Stage
<1>5. ASSUME ToStage("failed"), present' = present PROVE PrepareIInv'
  <2>1. DOMAIN prep' = {"pc", "at", "clean"} /\ prep'.at = 1 /\ prep'.pc = "failed"
    BY <1>1, <1>5, PrepareMoves
  <2> QED BY <1>1, <1>2, <1>5, <2>1 DEF PrepareIInv, StorageTypeOK, Stage
<1>6. ASSUME ~(prep.at > Len(Crypttab)), Advance(TRUE),
             present' \in {present, present \cup {Crypttab[prep.at].name}},
             prep.at \in Needed => Crypttab[prep.at].name \in present'
      PROVE  PrepareIInv'
  <2>1. DOMAIN prep' = {"pc", "at", "clean"} /\ prep'.at = prep.at + 1 /\ prep'.pc = "crypttab"
    BY <1>1, <1>6, PrepareMoves
  <2>2. present \subseteq present'
    BY <1>6
  <2>3. \A k \in Needed : k < prep'.at => Crypttab[k].name \in present'
    <3> SUFFICES ASSUME NEW k \in Needed, k < prep'.at PROVE Crypttab[k].name \in present'
      OBVIOUS
    <3>1. k = prep.at \/ k < prep.at
      BY <1>1, <1>3, <2>1
    <3> QED BY <1>2, <1>6, <2>2, <3>1
  <2>4. prep.at \in DOMAIN Crypttab
    BY <1>1, <1>3, <1>6
  <2>5. StorageTypeOK'
    BY <1>1, <1>2, <1>6, <2>1, <2>4 DEF StorageTypeOK
  <2> QED BY <1>1, <2>1, <2>3, <2>5 DEF PrepareIInv, Stage
<1> DEFINE c == Crypttab[prep.at]
<1> HIDE DEF c
<1>7. ASSUME ~(prep.at > Len(Crypttab)), CannotOpen(c), present' = present PROVE PrepareIInv'
  <2>1. CASE c.nofail
    BY <1>6, <1>7, <2>1 DEF CannotOpen, Needed, c
  <2>2. CASE ~c.nofail
    BY <1>5, <1>7, <2>2 DEF CannotOpen
  <2> QED BY <2>1, <2>2
<1>8. ASSUME ~(prep.at > Len(Crypttab)), open_mapping(c) PROVE PrepareIInv'
  <2>1. PICK resolved \in resolve_crypttab_source(c), opened \in run_storage_command :
          IF ~resolved THEN CannotOpen(c) /\ UNCHANGED present
          ELSE /\ present' = IF opened = "ok" THEN present \cup {c.name} ELSE present
               /\ CASE opened = "ok" -> Advance(TRUE)
                    [] opened = "error" -> ToStage("failed")
                    [] OTHER -> CannotOpen(c)
    BY <1>8 DEF open_mapping
  <2>2. CASE ~resolved
    BY <1>7, <1>8, <2>1, <2>2
  <2>3. CASE resolved /\ opened = "ok"
    BY <1>6, <1>8, <2>1, <2>3 DEF c
  <2>4. CASE resolved /\ opened = "error"
    BY <1>5, <2>1, <2>4
  <2>5. CASE resolved /\ opened \notin {"ok", "error"}
    BY <1>7, <1>8, <2>1, <2>5
  <2> QED BY <2>2, <2>3, <2>4, <2>5
<1>9. ASSUME ~(prep.at > Len(Crypttab)), activate_mapping(c) PROVE PrepareIInv'
  <2>1. CASE Skipped(c)
    BY <1>6, <1>9, <2>1 DEF activate_mapping, Needed, c
  <2>2. CASE ~Skipped(c)
    <3>1. PICK status \in Status(c) :
            CASE status = "error" -> ToStage("failed") /\ UNCHANGED present
              [] status = "ok" -> Advance(TRUE) /\ UNCHANGED present
              [] OTHER -> open_mapping(c)
      BY <1>9, <2>2 DEF activate_mapping
    <3>2. CASE status = "error"
      BY <1>5, <3>1, <3>2
    <3>3. CASE status = "ok"
      <4>1. c.name \in present
        BY <3>3 DEF Status
      <4> QED BY <1>6, <1>9, <3>1, <3>3, <4>1 DEF c
    <3>4. CASE status \notin {"error", "ok"}
      BY <1>8, <1>9, <3>1, <3>4
    <3> QED BY <3>2, <3>3, <3>4
  <2> QED BY <2>1, <2>2
<1>10. prep.at <= Len(Crypttab) => ~(prep.at > Len(Crypttab))
  BY <1>1, <1>3
<1> QED BY <1>4, <1>5, <1>9, <1>10 DEF activate_daemon_crypttab, c

(***************************************************************************)
(* storage-prepare keeps its invariant.                                    *)
(***************************************************************************)
THEOREM PrepareInductive == HostSpec => []PrepareIInv
<1>1. HostInit => PrepareIInv
  BY DEF HostInit, StorageInit, NoLoad, NoPrep, PrepareIInv, StorageTypeOK, Stage
<1>2. PrepareIInv /\ [HostNext]_hostVars => PrepareIInv'
  <2> SUFFICES ASSUME PrepareIInv, [HostNext]_hostVars PROVE PrepareIInv'
    OBVIOUS
  <2>1. CASE UNCHANGED storageVars
    BY <2>1 DEF storageVars, PrepareIInv, StorageTypeOK, Stage
  <2>2. CASE LoadNext
    <3>1. UNCHANGED <<prep, present>>
      BY <2>2 DEF LoadNext, prepare_native_storage_services, remove_generated, write_generated,
                  append_synthetic_device_specs, LoadCut, EditFstab
    <3>2. gen.pc \in {"idle", "clear", "write", "read", "done"} /\ DOMAIN gen = {"pc", "read", "units"}
      BY DEF PrepareIInv, StorageTypeOK
    <3>3. gen'.pc \in {"idle", "clear", "write", "read", "done"} /\ DOMAIN gen' = {"pc", "read", "units"}
      <4>1. CASE prepare_native_storage_services
        BY <4>1 DEF prepare_native_storage_services, NoLoad
      <4>2. CASE remove_generated \/ write_generated \/ append_synthetic_device_specs
        BY <3>2, <4>2 DEF remove_generated, write_generated, append_synthetic_device_specs
      <4>3. CASE LoadCut \/ EditFstab
        BY <3>2, <4>3 DEF LoadCut, EditFstab, NoLoad
      <4> QED BY <2>2, <4>1, <4>2, <4>3 DEF LoadNext
    <3> QED BY <3>1, <3>3 DEF PrepareIInv, StorageTypeOK, Stage
  <2>3. CASE storage_prepare
    <3>1. prep' = [NoPrep EXCEPT !.pc = "scan"] /\ UNCHANGED <<gen, present>>
      BY <2>3 DEF storage_prepare
    <3>2. DOMAIN prep' = {"pc", "at", "clean"} /\ prep'.pc = "scan" /\ prep'.at = 1
      BY <3>1 DEF NoPrep
    <3> QED BY <3>1, <3>2 DEF PrepareIInv, StorageTypeOK, Stage
  <2>4. CASE DiskAppears
    <3>1. PICK d \in Disks : present' = present \cup {d} /\ UNCHANGED <<gen, prep>>
      BY <2>4 DEF DiskAppears
    <3> QED BY <3>1 DEF PrepareIInv, StorageTypeOK, Stage
  <2> QED BY <2>1, <2>2, <2>3, <2>4, BlockStorageActivated, CrypttabActivated
          DEF HostNext, hostVars, PrepareNext
<1> QED BY <1>1, <1>2, PTL DEF HostSpec

(***************************************************************************)
(* storage-prepare reports success only when every mapping it had to open  *)
(* is open and, if every scan succeeded, what is on it is up               *)
(* (storage_prepare).                                                      *)
(***************************************************************************)
THEOREM StorageIsReady == HostSpec => [](StorageTypeOK /\ StorageReady)
<1>1. PrepareIInv => StorageTypeOK /\ StorageReady
  <2> SUFFICES ASSUME PrepareIInv PROVE StorageReady
    BY DEF PrepareIInv
  <2>1. \A v \in DOMAIN Volumes : \E i \in 1 .. 4 : Volumes[v].tool = Scans[i]
    BY StorageAssumption DEF Scans
  <2> QED BY <2>1 DEF PrepareIInv, StorageReady, Needed, OnNeeded
<1> QED BY <1>1, PrepareInductive, PTL

\* A generated unit of a name mounts what the lines of that name say.
UnitOf(lines, name, unit) ==
  \E u \in generate_services(lines) : u.name = name /\ u.unit = unit

\* The service of a device waits for nothing.
DeviceUnit(name, unit) ==
  name[1] = "device" /\ unit.after = {} /\ unit.before = {} /\ unit.requires = {}

\* What a load has written is of the fstab it has read, and what it has not
\* written it still has to write.
LoadIInv ==
  /\ DOMAIN gen = {"pc", "read", "units"}
  /\ fstab.there => fstab.lines \in Fstabs
  /\ gen.pc \in {"clear", "write", "read", "done"} /\ gen.read.there =>
        ~DuplicateTarget(gen.read.lines) /\ gen.read.lines \in Fstabs
  /\ gen.pc \in {"clear", "write"} =>
        gen.read.there /\ gen.units \subseteq generate_services(gen.read.lines)
  /\ gen.pc = "clear" => gen.units = generate_services(gen.read.lines)
  /\ gen.pc \in {"write", "read"} /\ gen.read.there =>
        /\ \A n \in DOMAIN directory : UnitOf(gen.read.lines, n, directory[n])
        /\ \A u \in generate_services(gen.read.lines) :
              u.name \in DOMAIN directory \/ (gen.pc = "write" /\ u \in gen.units)
  /\ gen.pc = "done" /\ gen.read.there =>
        /\ \A n \in DOMAIN table : UnitOf(gen.read.lines, n, table[n]) \/ DeviceUnit(n, table[n])
        /\ \A n \in DOMAIN table : \A d \in table[n].requires : d[1] = "device" => d \in DOMAIN table
        /\ \A u \in generate_services(gen.read.lines) :
              u.name \in DOMAIN table /\ UnitOf(gen.read.lines, u.name, table[u.name])

(***************************************************************************)
(* The fields of a load.                                                   *)
(***************************************************************************)
LEMMA LoadMoves ==
  ASSUME DOMAIN gen = {"pc", "read", "units"}
  PROVE  /\ \A pc : gen' = [gen EXCEPT !.pc = pc] =>
               /\ DOMAIN gen' = {"pc", "read", "units"}
               /\ gen'.pc = pc /\ gen'.read = gen.read /\ gen'.units = gen.units
         /\ \A us : gen' = [gen EXCEPT !.units = us] =>
               /\ DOMAIN gen' = {"pc", "read", "units"}
               /\ gen'.pc = gen.pc /\ gen'.read = gen.read /\ gen'.units = us
OBVIOUS

(***************************************************************************)
(* A load that begins (prepare_native_storage_services).                   *)
(***************************************************************************)
LEMMA LoadBegins ==
  ASSUME LoadIInv, prepare_native_storage_services
  PROVE  LoadIInv'
<1>0. UNCHANGED fstab /\ (fstab.there => fstab.lines \in Fstabs)
  BY DEF prepare_native_storage_services, LoadIInv
<1>1. CASE ~fstab.there
  <2>1. gen' = [NoLoad EXCEPT !.pc = "read"]
    BY <1>1 DEF prepare_native_storage_services
  <2>2. DOMAIN gen' = {"pc", "read", "units"} /\ gen'.pc = "read" /\ ~gen'.read.there
    BY <2>1 DEF NoLoad, NoFstab
  <2> QED BY <1>0, <2>2 DEF LoadIInv
<1>2. CASE fstab.there /\ (~fstab.ok \/ DuplicateTarget(fstab.lines))
  <2>1. gen' = NoLoad
    BY <1>2 DEF prepare_native_storage_services
  <2>2. DOMAIN gen' = {"pc", "read", "units"} /\ gen'.pc = "idle"
    BY <2>1 DEF NoLoad
  <2> QED BY <1>0, <2>2 DEF LoadIInv
<1>3. CASE fstab.there /\ ~(~fstab.ok \/ DuplicateTarget(fstab.lines))
  <2>1. gen' = [pc |-> "clear", read |-> fstab, units |-> generate_services(fstab.lines)]
    BY <1>3 DEF prepare_native_storage_services
  <2>2. /\ DOMAIN gen' = {"pc", "read", "units"} /\ gen'.pc = "clear" /\ gen'.read = fstab
        /\ gen'.units = generate_services(fstab.lines)
    BY <2>1
  <2> QED BY <1>0, <1>3, <2>2 DEF LoadIInv
<1> QED BY <1>1, <1>2, <1>3

(***************************************************************************)
(* The old units are taken away (remove_generated).                        *)
(***************************************************************************)
LEMMA GeneratedRemoved ==
  ASSUME LoadIInv, remove_generated
  PROVE  LoadIInv'
<1>0. UNCHANGED fstab /\ (fstab.there => fstab.lines \in Fstabs)
  BY DEF remove_generated, LoadIInv
<1>1. /\ gen.pc = "clear" /\ gen.read.there /\ DOMAIN gen = {"pc", "read", "units"}
      /\ ~DuplicateTarget(gen.read.lines) /\ gen.read.lines \in Fstabs
      /\ gen.units = generate_services(gen.read.lines)
  BY DEF remove_generated, LoadIInv
<1>2. CASE directory = << >>
  <2>1. gen' = [gen EXCEPT !.pc = "write"] /\ UNCHANGED directory
    BY <1>2 DEF remove_generated
  <2>2. /\ DOMAIN gen' = {"pc", "read", "units"} /\ gen'.pc = "write" /\ gen'.read = gen.read
        /\ gen'.units = gen.units
    BY <1>1, <2>1, LoadMoves
  <2>3. DOMAIN directory' = {}
    BY <1>2, <2>1
  <2> QED BY <1>0, <1>1, <2>2, <2>3 DEF LoadIInv
<1>3. CASE directory # << >>
  <2>1. UNCHANGED gen
    BY <1>3 DEF remove_generated
  <2> QED BY <1>0, <1>1, <2>1 DEF LoadIInv
<1> QED BY <1>2, <1>3

(***************************************************************************)
(* The new units are written (write_generated).                            *)
(***************************************************************************)
LEMMA GeneratedWritten ==
  ASSUME LoadIInv, write_generated
  PROVE  LoadIInv'
<1>0. UNCHANGED fstab /\ (fstab.there => fstab.lines \in Fstabs)
  BY DEF write_generated, LoadIInv
<1> DEFINE lines == gen.read.lines
<1>1. /\ gen.pc = "write" /\ gen.read.there /\ DOMAIN gen = {"pc", "read", "units"}
      /\ ~DuplicateTarget(lines) /\ lines \in Fstabs /\ gen.units \subseteq generate_services(lines)
      /\ \A n \in DOMAIN directory : UnitOf(lines, n, directory[n])
      /\ \A u \in generate_services(lines) : u.name \in DOMAIN directory \/ u \in gen.units
  BY DEF write_generated, LoadIInv
<1>2. CASE gen.units = {}
  <2>1. gen' = [gen EXCEPT !.pc = "read"] /\ UNCHANGED directory
    BY <1>2 DEF write_generated
  <2>2. DOMAIN gen' = {"pc", "read", "units"} /\ gen'.pc = "read" /\ gen'.read = gen.read
    BY <1>1, <2>1, LoadMoves
  <2> QED BY <1>0, <1>1, <1>2, <2>1, <2>2 DEF LoadIInv
<1>3. CASE gen.units # {}
  <2>1. PICK u \in FirstOf(gen.units) :
          Written(u.unit, u.name) /\ gen' = [gen EXCEPT !.units = gen.units \ {u}]
    BY <1>3 DEF write_generated
  <2>2. u \in gen.units
    BY DEF FirstOf
  <2>3. /\ DOMAIN gen' = {"pc", "read", "units"} /\ gen'.pc = "write" /\ gen'.read = gen.read
        /\ gen'.units = gen.units \ {u}
    BY <1>1, <2>1, LoadMoves
  <2>4. /\ DOMAIN directory' = DOMAIN directory \cup {u.name}
        /\ \A n \in DOMAIN directory' : directory'[n] = IF n = u.name THEN u.unit ELSE directory[n]
    BY <2>1 DEF Written
  <2>5. \A n \in DOMAIN directory' : UnitOf(lines, n, directory'[n])
    BY <1>1, <2>2, <2>4 DEF UnitOf
  <2>6. \A w \in generate_services(lines) : w.name \in DOMAIN directory' \/ w \in gen'.units
    BY <1>1, <2>3, <2>4
  <2> QED BY <1>0, <1>1, <2>3, <2>5, <2>6 DEF LoadIInv
<1> QED BY <1>2, <1>3

(***************************************************************************)
(* The devices join the units (append_synthetic_device_specs).             *)
(***************************************************************************)
LEMMA DevicesAppended ==
  ASSUME LoadIInv, append_synthetic_device_specs
  PROVE  LoadIInv'
<1> DEFINE devices == UNION {native_device_dependencies(directory[n], DOMAIN directory) :
                               n \in DOMAIN directory}
<1>1. /\ gen.pc = "read" /\ DOMAIN gen = {"pc", "read", "units"}
      /\ gen' = [gen EXCEPT !.pc = "done"]
  BY DEF append_synthetic_device_specs, LoadIInv
<1>2. DOMAIN gen' = {"pc", "read", "units"} /\ gen'.pc = "done" /\ gen'.read = gen.read
  BY <1>1, LoadMoves
<1>3. \A n \in devices : n[1] = "device"
  BY DEF native_device_dependencies
<1>4. table' = [n \in DOMAIN directory \cup devices |->
                  IF n \in DOMAIN directory THEN directory[n] ELSE [Plain({}) EXCEPT !.what = n[2]]]
  BY DEF append_synthetic_device_specs
<1> HIDE DEF devices
<1>5. /\ DOMAIN table' = DOMAIN directory \cup devices
      /\ \A n \in DOMAIN directory : table'[n] = directory[n]
      /\ \A n \in devices \ DOMAIN directory :
            table'[n].after = {} /\ table'[n].before = {} /\ table'[n].requires = {}
  BY <1>4 DEF Plain
<1>7. ASSUME NEW n \in DOMAIN table', NEW d \in table'[n].requires, d[1] = "device"
      PROVE  d \in DOMAIN table'
  <2>1. n \in DOMAIN directory
    BY <1>5
  <2>2. d \in native_device_dependencies(directory[n], DOMAIN directory) \/ d \in DOMAIN directory
    BY <1>5, <1>7, <2>1 DEF native_device_dependencies
  <2> QED BY <1>5, <2>1, <2>2 DEF devices
<1>8. UNCHANGED fstab
  BY DEF append_synthetic_device_specs
<1>6. ASSUME gen.read.there
      PROVE  /\ \A n \in DOMAIN directory : UnitOf(gen.read.lines, n, directory[n])
             /\ \A u \in generate_services(gen.read.lines) : u.name \in DOMAIN directory
             /\ ~DuplicateTarget(gen.read.lines) /\ gen.read.lines \in Fstabs
  BY <1>1, <1>6 DEF LoadIInv
<1>9. \A n \in DOMAIN table' : n \in DOMAIN directory \/ DeviceUnit(n, table'[n])
  BY <1>3, <1>5 DEF DeviceUnit
<1>10. fstab'.there => fstab'.lines \in Fstabs
  BY <1>8 DEF LoadIInv
<1> QED BY <1>2, <1>5, <1>6, <1>7, <1>9, <1>10 DEF LoadIInv

(***************************************************************************)
(* A load, failed or killed or not, keeps what a load knows.               *)
(***************************************************************************)
THEOREM LoadInductive == HostSpec => []LoadIInv
<1>1. HostInit => LoadIInv
  BY DEF HostInit, StorageInit, NoLoad, NoFstab, LoadIInv
<1>2. LoadIInv /\ [HostNext]_hostVars => LoadIInv'
  <2> SUFFICES ASSUME LoadIInv, [HostNext]_hostVars PROVE LoadIInv'
    OBVIOUS
  <2>1. CASE UNCHANGED <<gen, directory, table, fstab>>
    BY <2>1 DEF LoadIInv
  <2>2. CASE LoadCut
    <3>1. DOMAIN gen' = {"pc", "read", "units"} /\ gen'.pc = "idle" /\ UNCHANGED fstab
      BY <2>2 DEF LoadCut, NoLoad
    <3> QED BY <3>1 DEF LoadIInv
  <2>3. CASE PrepareNext \/ UNCHANGED storageVars
    BY <2>1, <2>3 DEF PrepareNext, storageVars, storage_prepare, activate_block_storage,
                      activate_daemon_crypttab, DiskAppears
  <2>4. CASE EditFstab
    <3>1. UNCHANGED <<gen, directory, table>> /\ (fstab'.there => fstab'.lines \in Fstabs)
      BY <2>4 DEF EditFstab, NoFstab
    <3> QED BY <3>1 DEF LoadIInv
  <2> QED BY <2>2, <2>3, <2>4, LoadBegins, GeneratedRemoved, GeneratedWritten, DevicesAppended
          DEF HostNext, hostVars, LoadNext
<1> QED BY <1>1, <1>2, PTL DEF HostSpec

(***************************************************************************)
(* The units of the active lines, and no others, are mounts and swaps.     *)
(***************************************************************************)
LEMMA UnitsAreOfLines ==
  ASSUME NEW lines
  PROVE  /\ \A k \in Mounts(lines) \cup Swaps(lines) :
              \E u \in generate_services(lines) : u.name = NameOf(lines[k])
         /\ \A u \in generate_services(lines) : u.name[1] \in {"mount", "swap"} =>
              \E k \in Mounts(lines) \cup Swaps(lines) :
                 u.name = NameOf(lines[k]) /\ u.unit.what = lines[k].what
<1> DEFINE active == {lines[k].target : k \in Mounts(lines)}
           mount(k) == [name |-> mount_service_name(lines[k].target),
                        unit |-> mount_service(lines[k], active),
                        key  |-> <<1, Len(lines[k].target), k>>]
           swap(k) == [name |-> swap_service_name(lines[k]), unit |-> swap_service(lines[k]),
                       key |-> <<2, 0, k>>]
           mounts == {mount(k) : k \in Mounts(lines)}
           swaps == {swap(k) : k \in Swaps(lines)}
           first == [name |-> Prepare, unit |-> Plain({}), key |-> <<0, 0, 0>>]
           all == {first} \cup mounts \cup swaps
           last == [name |-> Profile, unit |-> Plain({u.name : u \in all}), key |-> <<3, 0, 0>>]
<1>1. generate_services(lines) =
        IF Mounts(lines) \cup Swaps(lines) = {} THEN {} ELSE all \cup {last}
  BY DEF generate_services
<1>2. /\ \A k : mount(k).name = mount_service_name(lines[k].target)
      /\ \A k : mount(k).unit.what = lines[k].what
      /\ \A k : swap(k).name = swap_service_name(lines[k])
      /\ \A k : swap(k).unit.what = lines[k].what
  BY DEF mount_service, swap_service
<1>3. first.name[1] = "storage-prepare" /\ last.name[1] = "storage"
  BY DEF Prepare, Profile
<1>4. /\ \A k \in Mounts(lines) : NameOf(lines[k]) = mount_service_name(lines[k].target)
      /\ \A k \in Swaps(lines) : NameOf(lines[k]) = swap_service_name(lines[k])
  BY DEF NameOf, Mounts, Swaps
<1> HIDE DEF active, mount, swap, first, last
<1>5. \A k \in Mounts(lines) \cup Swaps(lines) :
        \E u \in generate_services(lines) : u.name = NameOf(lines[k])
  BY <1>1, <1>2, <1>4
<1>6. ASSUME NEW u \in generate_services(lines), u.name[1] \in {"mount", "swap"}
      PROVE  \E k \in Mounts(lines) \cup Swaps(lines) :
                u.name = NameOf(lines[k]) /\ u.unit.what = lines[k].what
  BY <1>1, <1>2, <1>3, <1>4, <1>6
<1> QED BY <1>5, <1>6

(***************************************************************************)
(* After a load the table serves fstab and nothing else                    *)
(* (prepare_native_storage_services).                                      *)
(***************************************************************************)
THEOREM FstabIsServed == HostSpec => []FstabServed
<1>1. LoadIInv => FstabServed
  <2> DEFINE lines == gen.read.lines
  <2> SUFFICES ASSUME LoadIInv, gen.pc = "done", gen.read.there,
                      Spelled(lines)
               PROVE  /\ \A e \in Active(lines) :
                            NameOf(e) \in DOMAIN table /\ table[NameOf(e)].what = e.what
                      /\ {n \in DOMAIN table : n[1] \in {"mount", "swap"}}
                            = {NameOf(e) : e \in Active(lines)}
    BY DEF FstabServed, Spelled
  <2>1. /\ ~DuplicateTarget(lines)
        /\ \A n \in DOMAIN table : UnitOf(lines, n, table[n]) \/ n[1] = "device"
        /\ \A u \in generate_services(lines) : u.name \in DOMAIN table /\ UnitOf(lines, u.name, table[u.name])
    BY DEF LoadIInv, DeviceUnit
  <2>2. \A e : NameOf(e)[1] \in {"mount", "swap"}
    BY DEF NameOf, mount_service_name, swap_service_name
  <2> HIDE DEF lines
  <2>3. ASSUME NEW j \in Mounts(lines) \cup Swaps(lines), NEW k \in Mounts(lines) \cup Swaps(lines),
               NameOf(lines[j]) = NameOf(lines[k])
        PROVE  lines[j].what = lines[k].what
    <3>1. Normal(lines[j].target) = lines[j].target /\ Normal(lines[k].target) = lines[k].target
      BY DEF Spelled, Active
    <3>2. CASE lines[j].fs = "swap"
      <4>1. lines[k].fs = "swap"
        BY <2>3, <3>2 DEF NameOf, mount_service_name, swap_service_name
      <4> QED BY <2>3, <3>2, <4>1 DEF NameOf, swap_service_name
    <3>3. CASE lines[j].fs # "swap"
      <4>1. lines[k].fs # "swap"
        BY <2>3, <3>3 DEF NameOf, mount_service_name, swap_service_name
      <4>2. lines[j].target = lines[k].target
        BY <2>3, <3>1, <3>3, <4>1 DEF NameOf, mount_service_name
      <4>3. j \in Mounts(lines) /\ k \in Mounts(lines)
        BY <3>3, <4>1 DEF Swaps
      <4> QED BY <2>1, <4>2, <4>3 DEF DuplicateTarget
    <3> QED BY <3>2, <3>3
  <2>4. ASSUME NEW e \in Active(lines)
        PROVE  NameOf(e) \in DOMAIN table /\ table[NameOf(e)].what = e.what
    <3>1. PICK k \in Mounts(lines) \cup Swaps(lines) : e = lines[k]
      BY DEF Active
    <3>2. NameOf(e) \in DOMAIN table /\ UnitOf(lines, NameOf(e), table[NameOf(e)])
      BY <2>1, <3>1, UnitsAreOfLines
    <3>3. PICK u \in generate_services(lines) : u.name = NameOf(e) /\ u.unit = table[NameOf(e)]
      BY <3>2 DEF UnitOf
    <3>4. PICK j \in Mounts(lines) \cup Swaps(lines) :
            u.name = NameOf(lines[j]) /\ u.unit.what = lines[j].what
      BY <2>2, <3>3, UnitsAreOfLines
    <3> QED BY <2>3, <3>1, <3>2, <3>3, <3>4
  <2>5. ASSUME NEW n \in DOMAIN table, n[1] \in {"mount", "swap"}
        PROVE  \E e \in Active(lines) : n = NameOf(e)
    <3>1. PICK u \in generate_services(lines) : u.name = n
      BY <2>1, <2>5 DEF UnitOf
    <3>2. PICK k \in Mounts(lines) \cup Swaps(lines) : n = NameOf(lines[k])
      BY <2>5, <3>1, UnitsAreOfLines
    <3> QED BY <3>2 DEF Active
  <2> QED BY <2>2, <2>4, <2>5
<1> QED BY <1>1, LoadInductive, PTL

Targets(lines) == {lines[k].target : k \in Mounts(lines)}

(***************************************************************************)
(* The units are storage-prepare, the mounts, the swaps and the group.     *)
(***************************************************************************)
LEMMA KindsOfUnits ==
  ASSUME NEW lines
  PROVE  /\ \A u \in generate_services(lines) :
              \/ u.name = Prepare /\ u.unit = Plain({})
              \/ \E k \in Mounts(lines) : /\ u.name = mount_service_name(lines[k].target)
                                          /\ u.unit = mount_service(lines[k], Targets(lines))
              \/ \E k \in Swaps(lines) : /\ u.name = swap_service_name(lines[k])
                                         /\ u.unit = swap_service(lines[k])
              \/ /\ u.name = Profile /\ u.unit.requires = {} /\ u.unit.before = {}
                 /\ Profile \notin u.unit.after
                 /\ \A w \in generate_services(lines) : w.name = Profile \/ w.name \in u.unit.after
         /\ Mounts(lines) \cup Swaps(lines) # {} => \E u \in generate_services(lines) : u.name = Profile
<1> DEFINE mount(k) == [name |-> mount_service_name(lines[k].target),
                        unit |-> mount_service(lines[k], Targets(lines)),
                        key  |-> <<1, Len(lines[k].target), k>>]
           swap(k) == [name |-> swap_service_name(lines[k]), unit |-> swap_service(lines[k]),
                       key |-> <<2, 0, k>>]
           mounts == {mount(k) : k \in Mounts(lines)}
           swaps == {swap(k) : k \in Swaps(lines)}
           first == [name |-> Prepare, unit |-> Plain({}), key |-> <<0, 0, 0>>]
           all == {first} \cup mounts \cup swaps
           last == [name |-> Profile, unit |-> Plain({u.name : u \in all}), key |-> <<3, 0, 0>>]
<1>1. generate_services(lines) =
        IF Mounts(lines) \cup Swaps(lines) = {} THEN {} ELSE all \cup {last}
  BY DEF generate_services, Targets
<1>2. /\ \A k : /\ mount(k).name = mount_service_name(lines[k].target)
                /\ mount(k).unit = mount_service(lines[k], Targets(lines))
                /\ mount(k).name # Profile
      /\ \A k : /\ swap(k).name = swap_service_name(lines[k])
                /\ swap(k).unit = swap_service(lines[k])
                /\ swap(k).name # Profile
      /\ first.name = Prepare /\ first.unit = Plain({}) /\ first.name # Profile
      /\ last.name = Profile
  BY DEF mount_service_name, swap_service_name, Prepare, Profile
<1>3. /\ last.unit.requires = {} /\ last.unit.before = {}
      /\ last.unit.after = {u.name : u \in all}
  BY DEF Plain
<1> HIDE DEF mount, swap, first, last
<1>4. \A u \in all : u.name # Profile
  BY <1>2
<1>5. Profile \notin last.unit.after /\ \A w \in all : w.name \in last.unit.after
  BY <1>3, <1>4
<1>6. \A u \in generate_services(lines) :
         u = first \/ (\E k \in Mounts(lines) : u = mount(k)) \/ (\E k \in Swaps(lines) : u = swap(k))
         \/ u = last
  BY <1>1
<1>7. \A w \in generate_services(lines) : w.name = Profile \/ w.name \in last.unit.after
  BY <1>1, <1>2, <1>5
<1>8. Mounts(lines) \cup Swaps(lines) # {} => last \in generate_services(lines)
  BY <1>1
<1> QED BY <1>2, <1>3, <1>5, <1>6, <1>7, <1>8

(***************************************************************************)
(* The mounts a target lies in are those of its beginnings.                *)
(***************************************************************************)
LEMMA ParentsAreShorter ==
  ASSUME NEW S, NEW s \in Seq(S), NEW t \in Seq(S), Normal(t) = t, t # s
  PROVE  /\ s \in parent_targets(t) => Len(s) < Len(t)
         /\ IsPrefix(s, t) /\ s # << >> => s \in parent_targets(t)
<1>1. Len(t) \in Nat /\ Len(s) \in Nat /\ SubSeq(t, 1, Len(t)) = t /\ SubSeq(s, 1, Len(s)) = s
  OBVIOUS
<1>2. ASSUME s \in parent_targets(t) PROVE Len(s) < Len(t)
  <2>1. PICK k \in 1 .. Len(t) : s = SubSeq(t, 1, k)
    BY <1>2 DEF parent_targets
  <2>2. k # Len(t)
    BY <1>1, <2>1
  <2>3. k \in Int /\ 1 <= k /\ k <= Len(t) /\ \A i \in 1 .. k : t[i] \in S
    BY <1>1
  <2>4. Len(SubSeq(t, 1, k)) = IF 1 <= k THEN k - 1 + 1 ELSE 0
    BY <2>3, SubSeqProperties
  <2>5. Len(s) = k
    BY <2>1, <2>3, <2>4
  <2>6. Len(t) \in Int /\ k < Len(t)
    BY <2>2, <2>3
  <2> QED BY <2>5, <2>6
<1>3. ASSUME IsPrefix(s, t), s # << >> PROVE s \in parent_targets(t)
  <2>1. Len(s) <= Len(t) /\ SubSeq(s, 1, Len(s)) = SubSeq(t, 1, Len(s))
    BY <1>3 DEF IsPrefix
  <2>2. Len(s) # 0
    BY <1>3
  <2>3. Len(s) \in 1 .. Len(t)
    BY <1>1, <2>1, <2>2
  <2> QED BY <1>1, <2>1, <2>3 DEF parent_targets
<1> QED BY <1>2, <1>3

\* An fstab that spells its targets as they are and whose options add no order
\* among the generated services.
Ordinary(lines) ==
  /\ Spelled(lines)
  /\ \A e \in Active(lines) : \A n \in e.after : n[1] \notin {"mount", "swap", "storage"}
  /\ \A k \in Mounts(lines) : \A n \in lines[k].before :
        n[1] \notin {"mount", "swap", "storage-prepare", "device"}

(***************************************************************************)
(* Nesting by itself closes no circle: what an ordinary fstab demands can  *)
(* be followed, since targets get longer (parent_targets).                 *)
(***************************************************************************)
LEMMA NestingIsFollowable ==
  ASSUME NEW lines \in Fstabs, Ordinary(lines)
  PROVE  Followable(lines)
<1>1. \A k \in Mounts(lines) :
         /\ Normal(lines[k].target) = lines[k].target
         /\ lines[k].target \in Seq(STRING)
         /\ lines[k].fs # "swap" /\ NameOf(lines[k]) = <<"mount", lines[k].target>>
  BY StorageAssumption DEF Ordinary, Spelled, Active, Mounts, NameOf, mount_service_name
<1>2. \A e \in Active(lines) : Profile \notin e.after
  BY DEF Ordinary, Profile
<1>3. \A k \in Mounts(lines) : \A n \in lines[k].before : n[1] \notin {"storage-prepare", "device"}
  BY DEF Ordinary
<1>4. \A e \in Active(lines) : NameOf(e)[1] \in {"mount", "swap"}
  BY DEF NameOf, mount_service_name, swap_service_name
\* Only nesting is demanded, and the names of nested mounts are their targets.
<1>5. ASSUME NEW m, NEW n, Demanded(lines, m, n)
      PROVE  \E j, k \in Mounts(lines) :
                /\ m = <<"mount", lines[j].target>> /\ n = <<"mount", lines[k].target>>
                /\ Len(lines[j].target) < Len(lines[k].target)
  <2>1. PICK j, k \in Mounts(lines) \cup Swaps(lines) :
          /\ m = NameOf(lines[j]) /\ n = NameOf(lines[k])
          /\ \/ {j, k} \subseteq Mounts(lines) /\ Nested(lines[k], lines[j])
             \/ m \in lines[k].after
             \/ j \in Mounts(lines) /\ n \in lines[j].before
    BY <1>5 DEF Demanded
  <2>2. m[1] \in {"mount", "swap"} /\ n[1] \in {"mount", "swap"}
    BY <1>4, <2>1 DEF Active
  <2>3. {j, k} \subseteq Mounts(lines) /\ Nested(lines[k], lines[j])
    BY <2>1, <2>2 DEF Ordinary, Active
  <2>4. lines[j].target \in parent_targets(lines[k].target) /\ lines[j].target # lines[k].target
    BY <2>3 DEF Nested, parent_targets
  <2>5. Len(lines[j].target) < Len(lines[k].target)
    BY <1>1, <2>3, <2>4, ParentsAreShorter
  <2> QED BY <1>1, <2>1, <2>3, <2>5
<1>6. ASSUME NEW S \in SUBSET {NameOf(e) : e \in Active(lines)}, S # {},
             \A n \in S : \E m \in S : Demanded(lines, m, n)
      PROVE  FALSE
  <2> DEFINE L == {Len(lines[k].target) : k \in {j \in Mounts(lines) : <<"mount", lines[j].target>> \in S}}
  <2>1. L # {} /\ L \in SUBSET Nat
    <3>1. \A k \in Mounts(lines) : Len(lines[k].target) \in Nat
      BY <1>1
    <3>2. \E k \in Mounts(lines) : <<"mount", lines[k].target>> \in S
      BY <1>5, <1>6
    <3> QED BY <3>1, <3>2
  <2>2. PICK l \in L : \A m \in L : l <= m
    BY <2>1, LeastOf
  <2>3. PICK i \in Mounts(lines) : <<"mount", lines[i].target>> \in S /\ l = Len(lines[i].target)
    BY <2>2
  <2>4. PICK m \in S : Demanded(lines, m, <<"mount", lines[i].target>>)
    BY <1>6, <2>3
  <2>5. PICK j, k \in Mounts(lines) :
          /\ m = <<"mount", lines[j].target>> /\ <<"mount", lines[i].target>> = <<"mount", lines[k].target>>
          /\ Len(lines[j].target) < Len(lines[k].target)
    BY <1>5, <2>4
  <2>6. Len(lines[j].target) \in L
    BY <2>5
  <2>7. l <= Len(lines[j].target) /\ l \in Nat /\ Len(lines[j].target) \in Nat
    BY <2>1, <2>2, <2>6
  <2>8. lines[i].target = lines[k].target
    BY <2>5
  <2> QED BY <2>3, <2>5, <2>7, <2>8
<1> QED BY <1>2, <1>3, <1>6 DEF Followable

(***************************************************************************)
(* A boot can follow the order of the generated services, for every fstab  *)
(* and all its options (mount_service, swap_service, generate_services).   *)
(***************************************************************************)
THEOREM MountsCanFollow == HostSpec => []MountOrder
<1>1. LoadIInv => MountOrder
  <2> DEFINE lines == gen.read.lines
             Actives == Mounts(lines) \cup Swaps(lines)
             units == generate_services(lines)
  <2> SUFFICES ASSUME LoadIInv, gen.pc = "done", gen.read.there
               PROVE  /\ Followable(lines) =>
                            ~\E S \in SUBSET DOMAIN table : S # {} /\ \A n \in S : Waits(n) \cap S # {}
                      /\ Spelled(lines) => \A j, k \in Mounts(lines) :
                            lines[j].target # lines[k].target /\ IsPrefix(lines[j].target, lines[k].target)
                            => LET unit == table[NameOf(lines[k])]
                               IN  NameOf(lines[j])
                                      \in unit.after \cap (IF lines[k].nofail THEN unit.wants ELSE unit.requires)
                      /\ \A n \in DOMAIN table :
                            table[n].requires \subseteq DOMAIN table \cup UNION {e.requires : e \in Active(lines)}
                      /\ \A n \in DOMAIN table : n[1] \in {"mount", "swap"} =>
                            Prepare \in table[n].after /\ n \in table[Profile].after
    BY DEF MountOrder
  <2>1. /\ lines \in Fstabs /\ ~DuplicateTarget(lines)
        /\ \A n \in DOMAIN table : UnitOf(lines, n, table[n]) \/ DeviceUnit(n, table[n])
        /\ \A n \in DOMAIN table : \A d \in table[n].requires : d[1] = "device" => d \in DOMAIN table
        /\ \A u \in units : u.name \in DOMAIN table /\ UnitOf(lines, u.name, table[u.name])
    BY DEF LoadIInv
  <2> HIDE DEF lines
  \* What kind of service a name in the table is.
  <2> DEFINE MountOf(n, k) == /\ n = mount_service_name(lines[k].target)
                              /\ table[n] = mount_service(lines[k], Targets(lines))
             SwapOf(n, k) == n = swap_service_name(lines[k]) /\ table[n] = swap_service(lines[k])
             GroupOf(n) == /\ n = Profile /\ table[n].requires = {} /\ table[n].before = {}
                           /\ Profile \notin table[n].after
                           /\ \A w \in units : w.name = Profile \/ w.name \in table[n].after
  <2>2. ASSUME NEW n \in DOMAIN table
        PROVE  \/ DeviceUnit(n, table[n])
               \/ n = Prepare /\ table[n] = Plain({})
               \/ \E k \in Mounts(lines) : MountOf(n, k)
               \/ \E k \in Swaps(lines) : SwapOf(n, k)
               \/ GroupOf(n)
    <3> SUFFICES ASSUME ~DeviceUnit(n, table[n])
                 PROVE  \/ n = Prepare /\ table[n] = Plain({})
                        \/ \E k \in Mounts(lines) : MountOf(n, k)
                        \/ \E k \in Swaps(lines) : SwapOf(n, k)
                        \/ GroupOf(n)
      OBVIOUS
    <3>1. PICK u \in units : u.name = n /\ u.unit = table[n]
      BY <2>1 DEF UnitOf
    <3>2. \/ u.name = Prepare /\ u.unit = Plain({})
          \/ \E k \in Mounts(lines) : /\ u.name = mount_service_name(lines[k].target)
                                      /\ u.unit = mount_service(lines[k], Targets(lines))
          \/ \E k \in Swaps(lines) : /\ u.name = swap_service_name(lines[k])
                                     /\ u.unit = swap_service(lines[k])
          \/ /\ u.name = Profile /\ u.unit.requires = {} /\ u.unit.before = {}
             /\ Profile \notin u.unit.after
             /\ \A w \in units : w.name = Profile \/ w.name \in u.unit.after
      BY KindsOfUnits
    <3> QED BY <3>1, <3>2
  <2>3. /\ \A k \in Mounts(lines) : /\ mount_service_name(lines[k].target) = NameOf(lines[k])
                                    /\ NameOf(lines[k])[1] = "mount"
        /\ \A k \in Swaps(lines) : /\ swap_service_name(lines[k]) = NameOf(lines[k])
                                   /\ NameOf(lines[k])[1] = "swap"
    BY DEF NameOf, Mounts, Swaps, mount_service_name, swap_service_name
  <2>4. /\ Prepare[1] = "storage-prepare" /\ Profile[1] = "storage" /\ NetworkOnline[1] = "network-online"
        /\ Plain({}).after = {} /\ Plain({}).before = {} /\ Plain({}).requires = {}
    BY DEF Prepare, Profile, NetworkOnline, Plain
  <2>5. \A k : \A d \in DeviceOf(lines[k]) : d[1] = "device"
    BY DEF DeviceOf, device_service_name
  <2> DEFINE parents(k) ==
        {mount_service_name(t) : t \in parent_targets(lines[k].target) \cap Targets(lines)}
  <2>6. ASSUME NEW k \in Mounts(lines), NEW d \in parents(k)
        PROVE  d \in DOMAIN table /\ \E j \in Mounts(lines) : d = NameOf(lines[j]) /\ Nested(lines[k], lines[j])
    <3>1. PICK t \in parent_targets(lines[k].target) \cap Targets(lines) : d = mount_service_name(t)
      OBVIOUS
    <3>2. PICK j \in Mounts(lines) : t = lines[j].target
      BY <3>1 DEF Targets
    <3>3. d = NameOf(lines[j]) /\ Nested(lines[k], lines[j])
      BY <2>3, <3>1, <3>2 DEF Nested, parent_targets
    <3>4. \E u \in units : u.name = NameOf(lines[j])
      BY UnitsAreOfLines
    <3> QED BY <2>1, <3>3, <3>4
  <2>7. ASSUME NEW n, NEW k \in Mounts(lines), MountOf(n, k)
        PROVE  /\ table[n].requires =
                     DeviceOf(lines[k]) \cup (IF lines[k].nofail THEN {} ELSE parents(k)) \cup lines[k].requires
               /\ lines[k].nofail => parents(k) \subseteq table[n].wants
               /\ {Prepare} \cup parents(k) \subseteq table[n].after
               /\ table[n].after \subseteq {Prepare, NetworkOnline} \cup DeviceOf(lines[k])
                                              \cup parents(k) \cup lines[k].after
               /\ table[n].before = lines[k].before
    BY <2>7 DEF mount_service
  <2>8. ASSUME NEW n, NEW k \in Swaps(lines), SwapOf(n, k)
        PROVE  /\ table[n].requires = DeviceOf(lines[k]) \cup lines[k].requires
               /\ Prepare \in table[n].after
               /\ table[n].after \subseteq {Prepare} \cup DeviceOf(lines[k]) \cup lines[k].after
               /\ table[n].before = {}
    BY <2>8 DEF swap_service
  <2>9. \A n \in DOMAIN table : n[1] \in {"mount", "swap"} =>
           (\E k \in Mounts(lines) : MountOf(n, k)) \/ (\E k \in Swaps(lines) : SwapOf(n, k))
    <3> HIDE DEF MountOf, SwapOf
    <3> QED BY <2>2, <2>4 DEF DeviceUnit
  <2>10. \A k \in Actives : lines[k] \in Active(lines)
    BY DEF Active
  <2> HIDE DEF units, parents, MountOf, SwapOf
  \* A circle in the table is one of what the lines demand.
  <2>11. ASSUME Followable(lines), NEW S \in SUBSET DOMAIN table, S # {}, \A n \in S : Waits(n) \cap S # {}
         PROVE  FALSE
    <3>1. ASSUME NEW m \in DOMAIN table, NEW n \in table[m].before
          PROVE  \E j \in Mounts(lines) : MountOf(m, j) /\ n \in lines[j].before
      BY <2>2, <2>4, <2>7, <2>8, <3>1 DEF DeviceUnit
    <3>2. \A m \in DOMAIN table : \A n \in table[m].before : n[1] \notin {"storage-prepare", "device"}
      BY <2>11, <3>1 DEF Followable
    <3>3. ASSUME NEW n \in S, n[1] \notin {"mount", "swap"} PROVE GroupOf(n)
      <4>1. DeviceUnit(n, table[n]) \/ (n = Prepare /\ table[n] = Plain({})) \/ GroupOf(n)
        <5> HIDE DEF GroupOf
        <5> QED BY <2>2, <2>3, <3>3 DEF MountOf, SwapOf
      <4>2. ASSUME table[n].after = {}, n[1] \in {"storage-prepare", "device"} PROVE FALSE
        <5>1. {m \in DOMAIN table : n \in table[m].before} = {}
          BY <3>2, <4>2
        <5> QED BY <2>11, <4>2, <5>1 DEF Waits
      <4> HIDE DEF GroupOf
      <4> QED BY <2>4, <4>1, <4>2 DEF DeviceUnit
    <3> DEFINE T == {n \in S : n[1] \in {"mount", "swap"}}
    <3>4. T \in SUBSET {NameOf(e) : e \in Active(lines)}
      BY <2>3, <2>9, <2>10 DEF MountOf, SwapOf
    <3>5. ASSUME NEW n \in S PROVE Waits(n) \cap T # {}
      <4>1. PICK m \in S : m \in Waits(n)
        BY <2>11
      <4>2. CASE m[1] \in {"mount", "swap"}
        BY <4>1, <4>2
      <4>3. CASE m[1] \notin {"mount", "swap"}
        <5>1. m = Profile /\ table[m].before = {} /\ Profile \notin table[m].after
          BY <3>3, <4>3
        <5>2. Profile \in table[n].after
          BY <4>1, <5>1 DEF Waits
        <5>3. n # Profile
          BY <5>1, <5>2
        <5>4. n[1] \in {"mount", "swap"}
          BY <3>3, <5>3
        <5>5. CASE \E k \in Mounts(lines) : MountOf(n, k)
          <6>1. PICK k \in Mounts(lines) : MountOf(n, k)
            BY <5>5
          <6>2. Profile \notin lines[k].after
            BY <2>10, <2>11 DEF Followable
          <6>3. \A d \in parents(k) : d[1] = "mount"
            BY <2>3, <2>6
          <6> QED BY <2>4, <2>5, <2>7, <5>2, <6>1, <6>2, <6>3
        <5>6. CASE \E k \in Swaps(lines) : SwapOf(n, k)
          <6>1. PICK k \in Swaps(lines) : SwapOf(n, k)
            BY <5>6
          <6>2. Profile \notin lines[k].after
            BY <2>10, <2>11 DEF Followable
          <6> QED BY <2>4, <2>5, <2>8, <5>2, <6>1, <6>2
        <5> QED BY <2>9, <5>4, <5>5, <5>6
      <4> QED BY <4>2, <4>3
    <3>6. T # {}
      BY <2>11, <3>5
    <3>7. ASSUME NEW n \in T, NEW m \in Waits(n) \cap T PROVE Demanded(lines, m, n)
      <4>1. PICK k \in Actives : /\ n = NameOf(lines[k])
                               /\ \/ MountOf(n, k) /\ k \in Mounts(lines)
                                  \/ SwapOf(n, k) /\ k \in Swaps(lines)
        BY <2>3, <2>9 DEF MountOf, SwapOf
      <4>2. CASE m \in table[n].after
        <5>1. PICK j \in Actives : m = NameOf(lines[j])
          BY <2>3, <2>9 DEF MountOf, SwapOf
        <5>2. CASE m \in lines[k].after
          BY <4>1, <5>1, <5>2 DEF Demanded
        <5>3. CASE m \notin lines[k].after
          <6>1. m[1] \in {"mount", "swap"}
            OBVIOUS
          <6>2. MountOf(n, k) /\ k \in Mounts(lines) /\ m \in parents(k)
            <7>1. CASE SwapOf(n, k) /\ k \in Swaps(lines)
              BY <2>4, <2>5, <2>8, <4>2, <5>3, <6>1, <7>1
            <7>2. CASE MountOf(n, k) /\ k \in Mounts(lines)
              BY <2>4, <2>5, <2>7, <4>2, <5>3, <6>1, <7>2
            <7> QED BY <4>1, <7>1, <7>2
          <6>3. PICK i \in Mounts(lines) : m = NameOf(lines[i]) /\ Nested(lines[k], lines[i])
            BY <2>6, <6>2
          <6> QED BY <4>1, <6>2, <6>3 DEF Demanded
        <5> QED BY <5>2, <5>3
      <4>3. CASE m \notin table[n].after
        <5>1. m \in DOMAIN table /\ n \in table[m].before
          BY <4>3 DEF Waits
        <5>2. PICK j \in Mounts(lines) : MountOf(m, j) /\ n \in lines[j].before
          BY <3>1, <5>1
        <5>3. m = NameOf(lines[j])
          BY <2>3, <5>2 DEF MountOf
        <5> QED BY <4>1, <5>2, <5>3 DEF Demanded
      <4> QED BY <4>2, <4>3
    <3> HIDE DEF T
    <3>8. \A n \in T : \E m \in T : Demanded(lines, m, n)
      <4>1. \A n \in T : n \in S
        BY DEF T
      <4> QED BY <3>5, <3>7, <4>1
    <3> QED BY <2>11, <3>4, <3>6, <3>8 DEF Followable
  \* A mount follows the mounts its target lies in.
  <2>12. ASSUME Spelled(lines), NEW j \in Mounts(lines), NEW k \in Mounts(lines),
                lines[j].target # lines[k].target, IsPrefix(lines[j].target, lines[k].target)
         PROVE  LET unit == table[NameOf(lines[k])]
                IN  NameOf(lines[j])
                       \in unit.after \cap (IF lines[k].nofail THEN unit.wants ELSE unit.requires)
    <3> DEFINE n == NameOf(lines[k])
    <3>1. \A i \in Mounts(lines) :
             Normal(lines[i].target) = lines[i].target /\ lines[i].target \in Seq(STRING) /\ lines[i].target # << >>
      BY <2>1, <2>10, <2>12, StorageAssumption DEF Spelled, Mounts
    <3>2. n \in DOMAIN table
      BY <2>1, UnitsAreOfLines DEF units
    <3>3. PICK i \in Mounts(lines) : MountOf(n, i)
      BY <2>3, <2>9, <3>2 DEF SwapOf
    <3>4. lines[i].target = lines[k].target
      <4>1. mount_service_name(lines[i].target) = mount_service_name(lines[k].target)
        BY <2>3, <3>3 DEF MountOf
      <4> QED BY <3>1, <4>1 DEF mount_service_name
    <3>5. i = k
      BY <2>1, <3>4 DEF DuplicateTarget
    <3>6. lines[j].target \in parent_targets(lines[k].target) \cap Targets(lines)
      BY <2>12, <3>1, ParentsAreShorter DEF Targets
    <3>7. NameOf(lines[j]) \in parents(k)
      BY <2>3, <3>6 DEF parents
    <3> HIDE DEF n
    <3>8. /\ parents(k) \subseteq table[n].after
          /\ lines[k].nofail => parents(k) \subseteq table[n].wants
          /\ ~lines[k].nofail => parents(k) \subseteq table[n].requires
      BY <2>7, <3>3, <3>5
    <3> QED BY <3>7, <3>8 DEF n
  <2>13. ASSUME NEW n \in DOMAIN table, NEW d \in table[n].requires
         PROVE  d \in DOMAIN table \cup UNION {e.requires : e \in Active(lines)}
    <3>1. CASE d[1] = "device"
      BY <2>1, <2>13, <3>1
    <3>2. CASE d[1] # "device"
      <4>1. \/ \E k \in Mounts(lines) : MountOf(n, k)
            \/ \E k \in Swaps(lines) : SwapOf(n, k)
        <5>1. table[n].requires # {}
          BY <2>13
        <5>2. ~DeviceUnit(n, table[n])
          <6> HIDE DEF GroupOf, MountOf, SwapOf
          <6> QED BY <5>1 DEF DeviceUnit
        <5>3. table[n] # Plain({})
          <6> HIDE DEF GroupOf, MountOf, SwapOf
          <6> QED BY <5>1 DEF Plain
        <5>4. ~GroupOf(n)
          <6> HIDE DEF MountOf, SwapOf
          <6> QED BY <2>4, <5>1
        <5> HIDE DEF GroupOf, MountOf, SwapOf
        <5> QED BY <2>2, <5>2, <5>3, <5>4
      <4>2. ASSUME NEW k \in Mounts(lines), MountOf(n, k) PROVE d \in lines[k].requires \/ d \in parents(k)
        <5>1. d \in DeviceOf(lines[k]) \cup parents(k) \cup lines[k].requires
          <6> HIDE DEF MountOf, parents
          <6> QED BY <2>7, <2>13, <4>2
        <5> HIDE DEF MountOf, parents
        <5> QED BY <2>5, <3>2, <5>1
      <4>3. ASSUME NEW k \in Swaps(lines), SwapOf(n, k) PROVE d \in lines[k].requires
        BY <2>5, <2>8, <2>13, <3>2, <4>3
      <4> QED BY <2>6, <2>10, <4>1, <4>2, <4>3
    <3> QED BY <3>1, <3>2
  <2>14. ASSUME NEW n \in DOMAIN table, n[1] \in {"mount", "swap"}
         PROVE  Prepare \in table[n].after /\ n \in table[Profile].after
    <3>1. (\E k \in Mounts(lines) : MountOf(n, k)) \/ (\E k \in Swaps(lines) : SwapOf(n, k))
      BY <2>9, <2>14
    <3>2. Prepare \in table[n].after
      BY <2>7, <2>8, <3>1
    <3>3. PICK w \in units : w.name = n
      BY <2>1, <2>14 DEF UnitOf, DeviceUnit, units
    <3>4. Profile \in DOMAIN table
      <4>1. Mounts(lines) \cup Swaps(lines) # {}
        BY <3>1
      <4> QED BY <2>1, <4>1, KindsOfUnits DEF units
    <3>5. GroupOf(Profile)
      <4> HIDE DEF GroupOf
      <4> QED BY <2>2, <2>3, <2>4, <3>4 DEF DeviceUnit, MountOf, SwapOf
    <3> QED BY <2>4, <2>14, <3>2, <3>3, <3>5
  <2> QED BY <2>11, <2>12, <2>13, <2>14
<1> QED BY <1>1, LoadInductive, PTL

(***************************************************************************)
(* What the next boot needs is there, for all kernels, volumes and fstabs. *)
(***************************************************************************)
THEOREM BootIsProvided == HostSpec => []BootIsPossible
BY EntriesAlwaysBoot, StorageIsReady, FstabIsServed, MountsCanFollow, PTL DEF BootIsPossible

(* ------------------------------- resolver ------------------------------ *)

\* The instance with the address is the only one that is up, and a control
\* socket that is not dead is its own.
LifeInv ==
  /\ \A i \in Instances : stage[i] # "off" <=> port = i
  /\ port # "dead" /\ (controlFile \in Instances => controlFile = port)
  /\ \A i \in Instances :
        stage[i] \in {"open", "leased", "serving", "leaving", "disowning", "undiscovered"} =>
            controlFile = i

\* A resolver as it may be at any time: its entries are numbered by their
\* pushes, expire before they die, and are as CacheIsCurrent says.
Coherent(c) ==
  /\ DOMAIN c = DOMAIN NoCore
  /\ {c.pushed, c.asked} \subseteq Nat /\ c.asked <= clock /\ c.limit \in Nat \ {0}
  /\ IsFiniteSet(c.cache) /\ Cardinality(c.cache) <= c.limit
  /\ \A e \in c.cache :
        /\ e.place \in 1 .. c.pushed
        /\ {e.expires, e.dies} \subseteq Int /\ e.expires <= e.dies
        /\ e.era = clears /\ e.from \in Range(c.upstreams)
  /\ \A d, e \in c.cache : d.place = e.place \/ d.key = e.key => d = e

\* While the upstreams are asked, which is under the lock, nothing is cleared,
\* and there is no entry for the key.
Asking(c) == c.era = clears /\ \A e \in c.cache : e.key # c.query.key

\* An answer that is sent is one to the query.
Replies(c, r, at) ==
  r.kind = "answer" => /\ r.id = c.query.id /\ r.key = c.query.key
                       /\ r.entry \in c.cache => at < r.entry.dies

CoreInv ==
  /\ {clock, clears} \subseteq Nat
  /\ Coherent(core)
  /\ core.phase = "asking" => Asking(core)
  /\ core.phase = "sending" => Replies(core, core.reply, core.at)

\* The client: the process it talks to is up; sockets are numbered and the
\* query at hand is the one of its socket; an answer it has is one to its
\* question; servers it was told are set are the ones in use.
ClientInv ==
  /\ DOMAIN client = DOMAIN NoClient
  /\ inputs \in Nat /\ {client.sock, core.query.sock} \subseteq 0 .. inputs
  /\ client.at \in Instances => client.at = port
  /\ client.phase = "waiting" => client.sock # 0 /\ client.cmd.cmd = "query"
  /\ core.query.sock # 0 /\ core.query.sock = client.sock =>
        client.cmd.cmd = "query" /\ core.query.key = client.cmd.question
  /\ client.phase \in {"found", "connected", "sent", "waiting"} => client.result = "none"
  /\ client.cmd.cmd = "query" /\ client.result = "success" => client.answer.kind = "answer"
  /\ client.cmd.cmd = "query" /\ client.answer.kind = "answer" =>
        client.answer.key = client.cmd.question
  /\ client.cmd.cmd = "set" /\ client.result \in {"OK", "success"} /\ client.at \in Instances =>
        core.upstreams = client.cmd.values

\* The inductive invariant of the resolver.
ResolverIInv == ResolverTypeOK /\ EndpointIsOwn /\ LifeInv /\ CoreInv /\ ClientInv

(***************************************************************************)
(* A step of the host is a step of the resolver and its client or leaves   *)
(* them alone.                                                             *)
(***************************************************************************)
LEMMA ResolverStep ==
  ASSUME [HostNext]_hostVars
  PROVE  ResolverNext \/ UNCHANGED resolverVars
BY DEF HostNext, hostVars

(***************************************************************************)
(* The resolver begins down, with no socket, no lease and no client.       *)
(***************************************************************************)
LEMMA ResolverStart == HostInit => ResolverIInv
<1> SUFFICES ASSUME HostInit PROVE ResolverIInv
  OBVIOUS
<1> USE DEF HostInit, ResolverInit, NoCore, NoClient, NoQuery, NoReply, Idle
<1>1. ResolverTypeOK /\ EndpointIsOwn /\ LifeInv
  BY ResolverAssumption DEF ResolverTypeOK, EndpointIsOwn, LifeInv
<1>2. CoreInv
  BY FS_EmptySet DEF CoreInv, Coherent
<1>3. ClientInv
  BY ResolverAssumption DEF ClientInv
<1> QED BY <1>1, <1>2, <1>3 DEF ResolverIInv

\* The part of the invariant that is about who is up.
Placed == ResolverTypeOK /\ EndpointIsOwn /\ LifeInv

(***************************************************************************)
(* The steps that leave stage, address and files alone.                    *)
(***************************************************************************)
LEMMA PlacedStays ==
  ASSUME Placed, UNCHANGED lifeVars,
         core'.phase \in {Idle, "received", "delayed", "asking", "sending"},
         client'.phase \in {"idle", "found", "connected", "sent", "waiting", "answered"}
  PROVE  Placed'
BY DEF Placed, ResolverTypeOK, EndpointIsOwn, LifeInv, lifeVars

(***************************************************************************)
(* An instance that ends, in any way, leaves nothing of its own behind     *)
(* that could be taken for alive.                                          *)
(***************************************************************************)
LEMMA EndsPlaced ==
  ASSUME Placed, DOMAIN core = DOMAIN NoCore, DOMAIN client = DOMAIN NoClient,
         NEW i \in Instances, stage[i] # "off", Ends(i)
  PROVE  Placed' /\ core' = NoCore /\ port' = "none"
<1> USE DEF Placed
<1>1. port = i
  BY DEF LifeInv
<1>2. core' = NoCore /\ port' = "none" /\ client'.phase = client.phase
  BY <1>1 DEF Ends, NoClient
<1>3. \A j \in Instances : stage'[j] = "off"
  BY <1>1 DEF Ends, LifeInv, ResolverTypeOK
<1>4. {controlFile', discovered'} \subseteq Instances \cup {"none", "dead"} /\ controlFile' \notin Instances
  BY <1>1, ResolverAssumption DEF Ends, Gone, LifeInv, ResolverTypeOK
<1>5. ResolverTypeOK'
  BY <1>2, <1>4, ResolverAssumption DEF Ends, ResolverTypeOK, NoCore
<1> QED BY <1>2, <1>3, <1>4, <1>5, ResolverAssumption DEF LifeInv, EndpointIsOwn

(***************************************************************************)
(* The steps of a start and an end keep to the address.                    *)
(***************************************************************************)
LEMMA LifePlaced ==
  ASSUME Placed, NEW i \in Instances, Life(i)
  PROVE  Placed'
<1> USE DEF Placed, Life
<1>1. core' = core /\ client' = client
  OBVIOUS
<1>2. CASE bind_control(i)
  BY <1>1, <1>2, ResolverAssumption
  DEF bind_control, GoesTo, Listening, ResolverTypeOK, LifeInv, EndpointIsOwn
<1>3. CASE publish(i)
  BY <1>1, <1>3, ResolverAssumption
  DEF publish, write_atomic, GoesTo, ResolverTypeOK, LifeInv, EndpointIsOwn
<1>4. CASE Leave(i)
  BY <1>1, <1>4, ResolverAssumption DEF Leave, GoesTo, ResolverTypeOK, LifeInv, EndpointIsOwn
<1>5. CASE drop_discovery(i)
  BY <1>1, <1>5, ResolverAssumption
  DEF drop_discovery, GoesTo, ResolverTypeOK, LifeInv, EndpointIsOwn
<1>6. CASE drop_control(i)
  BY <1>1, <1>6, ResolverAssumption DEF drop_control, GoesTo, ResolverTypeOK, LifeInv, EndpointIsOwn
<1> QED BY <1>2, <1>3, <1>4, <1>5, <1>6

(***************************************************************************)
(* A push keeps the cache within its limit: when it is full the entry that *)
(* was pushed first goes.                                                  *)
(***************************************************************************)
LEMMA PushFits ==
  ASSUME NEW cache, IsFiniteSet(cache), NEW e, NEW limit \in Nat \ {0},
         Cardinality(cache) <= limit, e.place \in Nat,
         \A d \in cache : d.place \in Nat /\ d.place < e.place,
         \A d, l \in cache : d.place = l.place => d = l
  PROVE  /\ Push(cache, e, limit) \subseteq cache \cup {e}
         /\ IsFiniteSet(Push(cache, e, limit))
         /\ Cardinality(Push(cache, e, limit)) <= limit
<1> DEFINE all == cache \cup {e}
           pushed == Push(cache, e, limit)
<1>1. pushed \subseteq all
  BY DEF Push
<1>2. e \notin cache
  OBVIOUS
<1>3. IsFiniteSet(all) /\ Cardinality(all) = Cardinality(cache) + 1
  BY <1>2, FS_AddElement
<1>4. Cardinality(cache) \in Nat
  BY FS_CardinalityType
<1>5. IsFiniteSet(pushed) /\ Cardinality(pushed) <= Cardinality(all)
  BY <1>1, <1>3, FS_Subset
<1>6. Cardinality(pushed) \in Nat
  BY <1>5, FS_CardinalityType
<1>7. CASE Cardinality(cache) < limit
  BY <1>1, <1>3, <1>4, <1>5, <1>6, <1>7
<1>8. CASE Cardinality(cache) = limit
  <2> DEFINE places == {d.place : d \in all}
  <2>1. places \in SUBSET Nat /\ places # {}
    OBVIOUS
  <2>2. PICK x \in all : \A d \in all : x.place <= d.place
    <3> HIDE DEF places
    <3>1. PICK least \in places : \A m \in places : least <= m
      BY <2>1, LeastOf
    <3>2. PICK x \in all : x.place = least
      BY <3>1 DEF places
    <3>3. \A d \in all : d.place \in places
      BY DEF places
    <3> QED BY <3>1, <3>2, <3>3
  <2>3. \A d \in all \ {x} : d.place > x.place
    <3> SUFFICES ASSUME NEW d \in all \ {x} PROVE d.place > x.place
      OBVIOUS
    <3>1. d.place # x.place
      BY <1>2
    <3> QED BY <3>1, <2>2
  <2>4. {l \in all : l.place > x.place} = all \ {x}
    BY <2>3
  <2>5. IsFiniteSet(all \ {x}) /\ Cardinality(all \ {x}) = limit
    <3> HIDE DEF all
    <3>1. IsFiniteSet(all \ {x}) /\ Cardinality(all \ {x}) = Cardinality(all) - 1
      BY <1>3, <2>2, FS_RemoveElement
    <3> QED BY <1>3, <1>4, <1>8, <3>1
  <2>6. x \notin pushed
    <3>1. Cardinality({l \in all : l.place > x.place}) = limit
      BY <2>4, <2>5
    <3>2. ~ (Cardinality({l \in all : l.place > x.place}) < limit)
      BY <3>1
    <3> QED BY <3>2 DEF Push
  <2>7. pushed \subseteq all \ {x}
    BY <1>1, <2>6
  <2>8. Cardinality(pushed) <= Cardinality(all \ {x})
    BY <2>5, <2>7, FS_Subset
  <2> QED BY <1>1, <1>5, <2>5, <2>8
<1> QED BY <1>4, <1>7, <1>8

\* What a step of the query at hand makes of the resolver c.
Settled(c, d) ==
  /\ Coherent(d)
  /\ d.upstreams = c.upstreams /\ d.query \in {c.query, NoQuery}
  /\ d.phase \in {Idle, "delayed", "asking", "sending"}
  /\ d.phase = "asking" => Asking(d)
  /\ d.phase = "sending" => Replies(d, d.reply, d.at)

(***************************************************************************)
(* A reply that matches the query is sent, or the resolver rests.          *)
(***************************************************************************)
LEMMA AnsweredSettles ==
  ASSUME clock \in Nat, NEW c, Coherent(c), NEW r, Replies(c, r, clock)
  PROVE  Settled(c, Answered(c, r))
<1> DEFINE d == Answered(c, r)
<1>1. CASE r = NoReply
  <2>1. /\ DOMAIN d = DOMAIN NoCore /\ d.phase = Idle /\ d.query = NoQuery /\ d.asked = 0
        /\ d.cache = c.cache /\ d.pushed = c.pushed /\ d.limit = c.limit
        /\ d.upstreams = c.upstreams
    BY <1>1 DEF Answered, Rest, Coherent, NoCore
  <2> HIDE DEF d
  <2>2. Coherent(d)
    BY <2>1 DEF Coherent
  <2>3. Settled(c, d)
    BY <2>1, <2>2 DEF Settled, Idle
  <2> QED BY <2>3 DEF d
<1>2. CASE r # NoReply
  <2>1. /\ DOMAIN d = DOMAIN NoCore /\ d.phase = "sending" /\ d.query = c.query
        /\ d.asked = c.asked /\ d.reply = r /\ d.at = clock
        /\ d.cache = c.cache /\ d.pushed = c.pushed /\ d.limit = c.limit
        /\ d.upstreams = c.upstreams
    BY <1>2 DEF Answered, Coherent, NoCore
  <2> HIDE DEF d
  <2>2. Coherent(d)
    BY <2>1 DEF Coherent
  <2>3. Settled(c, d)
    BY <2>1, <2>2 DEF Settled, Replies
  <2> QED BY <2>3 DEF d
<1> QED BY <1>1, <1>2

(***************************************************************************)
(* An error reply is an answer to nothing.                                 *)
(***************************************************************************)
LEMMA ErrorReplies ==
  ASSUME NEW c, NEW code \in {"formerr", "servfail"}
  PROVE  Replies(c, error_response(c.query, code), clock) /\ Replies(c, NoReply, clock)
BY DEF Replies, error_response, NoReply

(***************************************************************************)
(* A look-up: a hit is alive, a miss is asked for under the lock.          *)
(***************************************************************************)
LEMMA LookupSettles ==
  ASSUME clock \in Nat, clears \in Nat, NEW c, Coherent(c)
  PROVE  Settled(c, Lookup(c))
<1> DEFINE kept == Retained(c.cache)
           hits == {e \in kept : e.key = c.query.key}
           first == CHOOSE e \in hits : \A h \in hits : e.place <= h.place
           now == [c EXCEPT !.cache = kept]
           asks == [now EXCEPT !.phase = "asking", !.next = 1, !.asked = clock, !.era = clears]
<1>1. kept \subseteq c.cache /\ \A e \in kept : e.expires > clock
  BY DEF Retained
<1>2. IsFiniteSet(kept) /\ Cardinality(kept) <= c.limit
  <2>1. IsFiniteSet(kept) /\ Cardinality(kept) <= Cardinality(c.cache)
    BY <1>1, FS_Subset DEF Coherent
  <2>2. Cardinality(kept) \in Nat /\ Cardinality(c.cache) \in Nat
    BY <2>1, FS_CardinalityType DEF Coherent
  <2> QED BY <2>1, <2>2 DEF Coherent
<1> HIDE DEF kept
<1>3. /\ DOMAIN now = DOMAIN NoCore /\ now.cache = kept /\ now.query = c.query
      /\ now.asked = c.asked /\ now.pushed = c.pushed /\ now.limit = c.limit
      /\ now.upstreams = c.upstreams
  BY DEF Coherent, NoCore
<1>4. Coherent(now)
  <2> HIDE DEF now
  <2> QED BY <1>1, <1>2, <1>3 DEF Coherent
<1>5. CASE hits # {}
  <2>1. \A d, e \in hits : d = e
    BY <1>1 DEF Coherent
  <2>2. \A e \in hits : e.place \in Nat /\ e.expires \in Int /\ e.dies \in Int /\ e.expires <= e.dies
    BY <1>1 DEF Coherent
  <2>3. first \in hits
    <3>1. PICK e \in hits : TRUE
      BY <1>5
    <3>2. \E x \in hits : \A h \in hits : x.place <= h.place
      <4>1. \A h \in hits : h.place = e.place
        BY <2>1
      <4> QED BY <2>2, <3>1, <4>1
    <3> HIDE DEF hits
    <3> QED BY <3>2
  <2>4. first.key = c.query.key /\ clock < first.dies
    <3> HIDE DEF first
    <3> QED BY <1>1, <2>2, <2>3
  <2> HIDE DEF first
  <2>5. Replies(now, with_id(first, c.query), clock)
    BY <1>3, <2>4 DEF Replies, with_id
  <2> HIDE DEF now
  <2>6. Settled(now, Answered(now, with_id(first, c.query)))
    BY <1>4, <2>5, AnsweredSettles
  <2>7. Lookup(c) = Answered(now, with_id(first, c.query))
    BY <1>5 DEF Lookup, kept, now, first
  <2> QED BY <1>3, <2>6, <2>7 DEF Settled
<1>6. CASE hits = {}
  <2>1. /\ DOMAIN asks = DOMAIN NoCore /\ asks.cache = kept /\ asks.query = c.query
        /\ asks.asked = clock /\ asks.pushed = c.pushed /\ asks.limit = c.limit
        /\ asks.upstreams = c.upstreams /\ asks.era = clears /\ asks.phase = "asking"
    BY DEF Coherent, NoCore
  <2>2. Lookup(c) = asks
    BY <1>6 DEF Lookup, kept
  <2> HIDE DEF asks, now
  <2>3. Coherent(asks)
    BY <1>1, <1>2, <2>1 DEF Coherent
  <2>4. Asking(asks)
    BY <1>6, <2>1 DEF Asking
  <2> QED BY <2>1, <2>2, <2>3, <2>4 DEF Settled
<1> QED BY <1>5, <1>6

(***************************************************************************)
(* The answer of an upstream: it is pushed when it may be kept, and it is  *)
(* the only entry for its key, since the lock was held from the look-up.   *)
(***************************************************************************)
LEMMA AcceptSettles ==
  ASSUME clock \in Nat, clears \in Nat, NEW c, Coherent(c), Asking(c),
         c.next \in DOMAIN c.upstreams, NEW a \in Answers
  PROVE  Settled(c, Accept(c, a))
<1> DEFINE ttl == response_ttl(a)
           e == [key |-> c.query.key, from |-> c.upstreams[c.next],
                 expires |-> c.asked + Min({ttl, TtlCap}), era |-> c.era,
                 dies |-> clock + ttl, found |-> a.found, place |-> c.pushed + 1]
           more == Push(c.cache, e, c.limit)
           new == IF ttl > 0
                  THEN [c EXCEPT !.cache = Push(c.cache, e, c.limit), !.pushed = c.pushed + 1]
                  ELSE c
<1>1. ttl \in Int
  <2>1. CASE a.whole /\ a.ttls # << >>
    <3>1. Range(a.ttls) \in SUBSET Nat /\ Range(a.ttls) # {}
      <4>1. a.ttls \in Seq(Nat)
        BY ResolverAssumption
      <4>2. 1 \in DOMAIN a.ttls
        BY <2>1, <4>1
      <4>3. \A k \in DOMAIN a.ttls : a.ttls[k] \in Nat
        BY <4>1
      <4> HIDE DEF ttl
      <4> QED BY <4>2, <4>3 DEF Range
    <3>2. Min(Range(a.ttls)) \in Range(a.ttls)
      BY <2>1, <3>1, LeastOf
    <3> QED BY <2>1, <3>1, <3>2 DEF response_ttl
  <2>2. CASE ~ (a.whole /\ a.ttls # << >>)
    BY <2>2 DEF response_ttl
  <2> QED BY <2>1, <2>2
<1> HIDE DEF ttl
<1>2. Min({ttl, TtlCap}) \in Int /\ Min({ttl, TtlCap}) <= ttl
  BY <1>1, LeastOfTwo, ResolverAssumption
<1>3. /\ e.key = c.query.key /\ e.from \in Range(c.upstreams) /\ e.era = clears
      /\ e.place = c.pushed + 1 /\ e.dies = clock + ttl
      /\ e.expires = c.asked + Min({ttl, TtlCap})
  BY DEF Asking, Range
<1> HIDE DEF e
<1>4. {e.expires, e.dies} \subseteq Int /\ e.expires <= e.dies
  BY <1>1, <1>2, <1>3 DEF Coherent
<1>5. e \notin c.cache
  BY <1>3 DEF Coherent
<1>6. Coherent(new) /\ new.upstreams = c.upstreams /\ new.query = c.query
  <2>1. CASE ttl > 0
    <3>1. more \subseteq c.cache \cup {e} /\ IsFiniteSet(more) /\ Cardinality(more) <= c.limit
      <4>1. \A d \in c.cache : d.place \in Nat /\ d.place < e.place
        BY <1>3 DEF Coherent
      <4>2. e.place \in Nat /\ c.limit \in Nat \ {0} /\ IsFiniteSet(c.cache)
            /\ Cardinality(c.cache) <= c.limit
        BY <1>3 DEF Coherent
      <4>3. \A d, l \in c.cache : d.place = l.place => d = l
        BY DEF Coherent
      <4> QED BY <4>1, <4>2, <4>3, PushFits
    <3> HIDE DEF more
    <3>2. /\ DOMAIN new = DOMAIN NoCore /\ new.cache = more /\ new.query = c.query
          /\ new.asked = c.asked /\ new.pushed = c.pushed + 1 /\ new.limit = c.limit
          /\ new.upstreams = c.upstreams
      BY <2>1 DEF Coherent, NoCore, more
    <3> HIDE DEF new
    <3>3. \A d \in more : /\ d.place \in 1 .. new.pushed
                           /\ {d.expires, d.dies} \subseteq Int /\ d.expires <= d.dies
                           /\ d.era = clears /\ d.from \in Range(c.upstreams)
      BY <1>3, <1>4, <3>1, <3>2 DEF Coherent
    <3>4. \A d, l \in more : d.place = l.place \/ d.key = l.key => d = l
      <4>1. \A d \in c.cache : d.place # e.place /\ d.key # e.key
        BY <1>3 DEF Coherent, Asking
      <4> QED BY <3>1, <4>1 DEF Coherent
    <3> QED BY <3>1, <3>2, <3>3, <3>4 DEF Coherent
  <2>2. CASE ~ (ttl > 0)
    BY <2>2
  <2> QED BY <2>1, <2>2
<1>7. Replies(new, with_id(e, c.query), clock)
  <2>1. CASE ttl > 0
    <3> HIDE DEF new
    <3> QED BY <1>1, <1>3, <1>6, <2>1 DEF Replies, with_id
  <2>2. CASE ~ (ttl > 0)
    BY <1>3, <1>5, <2>2 DEF Replies, with_id
  <2> QED BY <2>1, <2>2
<1>8. Accept(c, a) = Answered(new, with_id(e, c.query))
  BY DEF Accept, ttl, e
<1> HIDE DEF new
<1>9. Settled(new, Answered(new, with_id(e, c.query)))
  BY <1>6, <1>7, AnsweredSettles
<1> QED BY <1>6, <1>8, <1>9 DEF Settled

(***************************************************************************)
(* What the resolver and the client keep when the resolver takes a step of *)
(* the query at hand.                                                      *)
(***************************************************************************)
LEMMA QueryStepKeeps ==
  ASSUME ResolverIInv, UNCHANGED <<lifeVars, client, clock, inputs, clears>>, Settled(core, core')
  PROVE  ResolverIInv'
<1>1. core'.phase \in {Idle, "received", "delayed", "asking", "sending"}
  BY DEF Settled
<1>2. Placed'
  BY <1>1, PlacedStays DEF ResolverIInv, Placed, ResolverTypeOK
<1>3. CoreInv'
  BY DEF ResolverIInv, CoreInv, Settled, Coherent, Asking, Replies
<1>4. ClientInv'
  BY DEF ResolverIInv, ClientInv, Settled, NoQuery, lifeVars
<1> QED BY <1>2, <1>3, <1>4 DEF ResolverIInv, Placed

(***************************************************************************)
(* The look-up under the lock keeps the invariant, whatever it comes to    *)
(* (resolve).                                                              *)
(***************************************************************************)
LEMMA ResolveKeeps ==
  ASSUME ResolverIInv, NEW i \in Instances, resolve(i)
  PROVE  ResolverIInv'
<1> USE DEF ResolverIInv, CoreInv
<1>1. clock \in Nat /\ clears \in Nat /\ Coherent(core)
  OBVIOUS
<1>2. Settled(core, Lookup(core))
  BY <1>1, LookupSettles
<1>3. \A code \in {"formerr", "servfail"} :
        Settled(core, Answered(core, error_response(core.query, code)))
  BY <1>1, ErrorReplies, AnsweredSettles
<1>4. Settled(core, Answered(core, NoReply))
  BY <1>1, ErrorReplies, AnsweredSettles
<1>5. Settled(core, [core EXCEPT !.phase = "delayed"])
  <2> DEFINE d == [core EXCEPT !.phase = "delayed"]
  <2>1. /\ DOMAIN d = DOMAIN NoCore /\ d.phase = "delayed" /\ d.query = core.query
        /\ d.asked = core.asked /\ d.cache = core.cache /\ d.pushed = core.pushed
        /\ d.limit = core.limit /\ d.upstreams = core.upstreams
    BY <1>1 DEF Coherent, NoCore
  <2> HIDE DEF d
  <2>2. Settled(core, d)
    BY <1>1, <2>1 DEF Settled, Coherent
  <2> QED BY <2>2 DEF d
<1>6. core' \in {Lookup(core), Answered(core, error_response(core.query, "formerr")),
                 Answered(core, error_response(core.query, "servfail")),
                 Answered(core, NoReply), [core EXCEPT !.phase = "delayed"]}
  BY DEF resolve
<1>7. Settled(core, core')
  BY <1>2, <1>3, <1>4, <1>5, <1>6
<1> QED BY <1>7, QueryStepKeeps DEF resolve

(***************************************************************************)
(* An answer of an upstream, its silence and the last failure keep the     *)
(* invariant (exchange).                                                   *)
(***************************************************************************)
LEMMA ExchangeKeeps ==
  ASSUME ResolverIInv, NEW i \in Instances, Exchange(i)
  PROVE  ResolverIInv'
<1>1. clock \in Nat /\ clears \in Nat /\ Coherent(core) /\ Asking(core) /\ core.phase = "asking"
  BY DEF ResolverIInv, CoreInv, Exchange
<1>2. CASE core' = Answered(core, error_response(core.query, "servfail"))
  <2>1. Settled(core, core')
    BY <1>1, <1>2, ErrorReplies, AnsweredSettles
  <2> QED BY <2>1, QueryStepKeeps DEF Exchange
<1>3. CASE core' = [core EXCEPT !.next = core.next + 1]
  <2>1. /\ DOMAIN core' = DOMAIN NoCore /\ core'.phase = "asking" /\ core'.query = core.query
        /\ core'.asked = core.asked /\ core'.cache = core.cache /\ core'.pushed = core.pushed
        /\ core'.limit = core.limit /\ core'.upstreams = core.upstreams /\ core'.era = core.era
    BY <1>1, <1>3 DEF Coherent, NoCore
  <2>2. Settled(core, core')
    BY <1>1, <2>1 DEF Settled, Coherent, Asking
  <2> QED BY <2>2, QueryStepKeeps DEF Exchange
<1>4. CASE core.next \in DOMAIN core.upstreams /\ \E a \in Answers : core' = Accept(core, a)
  <2>1. Settled(core, core')
    BY <1>1, <1>4, AcceptSettles
  <2> QED BY <2>1, QueryStepKeeps DEF Exchange
<1> QED BY <1>2, <1>3, <1>4 DEF Exchange

(***************************************************************************)
(* An instance that ends, in any way, takes its cache and its sockets with *)
(* it.                                                                     *)
(***************************************************************************)
LEMMA EndsKeeps ==
  ASSUME ResolverIInv, NEW i \in Instances, stage[i] # "off", Ends(i)
  PROVE  ResolverIInv'
<1>1. Placed' /\ core' = NoCore /\ port' = "none"
  BY EndsPlaced DEF ResolverIInv, Placed, CoreInv, Coherent, ClientInv
<1>2. CoreInv'
  BY <1>1, FS_EmptySet DEF ResolverIInv, CoreInv, Coherent, NoCore, Ends, Idle
<1>3. client' = [client EXCEPT !.at = Gone(client.at, i)] /\ inputs' = inputs /\ port = i
  BY DEF Ends, ResolverIInv, LifeInv
<1>4. /\ DOMAIN client' = DOMAIN NoClient /\ client'.at \notin Instances
      /\ client'.sock = client.sock /\ client'.phase = client.phase /\ client'.cmd = client.cmd
      /\ client'.result = client.result /\ client'.answer = client.answer
  BY <1>3, ResolverAssumption DEF ResolverIInv, ClientInv, NoClient, Gone
<1>5. ClientInv'
  BY <1>1, <1>3, <1>4 DEF ResolverIInv, ClientInv, NoCore, NoQuery
<1> QED BY <1>1, <1>2, <1>5 DEF ResolverIInv, Placed

(***************************************************************************)
(* An instance that gets the address begins with an empty cache.           *)
(***************************************************************************)
LEMMA BindKeeps ==
  ASSUME ResolverIInv, NEW i \in Instances, Bind(i)
  PROVE  ResolverIInv'
<1>1. PICK c \in Configs : core' = with_fault(c)
  BY DEF Bind
<1>2. /\ port = "none" /\ port' = i /\ stage' = [stage EXCEPT ![i] = "bound"] /\ inputs' = inputs + 1
      /\ UNCHANGED <<controlFile, discovered, client, clock, clears>>
  BY DEF Bind, Input
<1>3. /\ DOMAIN core' = DOMAIN NoCore /\ core'.phase = Idle /\ core'.query = NoQuery
      /\ core'.cache = {} /\ core'.asked = 0 /\ core'.pushed = 0
      /\ core'.limit = Max({c.entries, 1})
  BY <1>1 DEF with_fault, NoCore
<1>4. core'.limit \in Nat \ {0}
  <2>1. c.entries \in Nat
    BY ResolverAssumption
  <2>2. Max({c.entries, 1}) \in {c.entries, 1} /\ Max({c.entries, 1}) >= 1
    BY <2>1, GreatestOfTwo
  <2> QED BY <1>3, <2>1, <2>2
<1>5. CoreInv'
  BY <1>2, <1>3, <1>4, FS_EmptySet DEF ResolverIInv, CoreInv, Coherent, Idle
<1>6. Placed'
  BY <1>2, <1>3, ResolverAssumption DEF ResolverIInv, Placed, ResolverTypeOK, LifeInv, EndpointIsOwn
<1>7. ClientInv'
  BY <1>2, <1>3, ResolverAssumption DEF ResolverIInv, ClientInv, NoQuery
<1> QED BY <1>5, <1>6, <1>7 DEF ResolverIInv, Placed


(***************************************************************************)
(* When only who is up and the files change, the rest of the invariant is  *)
(* left alone.                                                             *)
(***************************************************************************)
LEMMA LifeKeeps ==
  ASSUME ResolverIInv, Placed', port' = port, UNCHANGED <<core, client, clock, inputs, clears>>
  PROVE  ResolverIInv'
<1>1. CoreInv'
  BY DEF ResolverIInv, CoreInv, Coherent, Asking, Replies
<1>2. ClientInv'
  BY DEF ResolverIInv, ClientInv
<1> QED BY <1>1, <1>2 DEF ResolverIInv, Placed

(***************************************************************************)
(* The steps of starting and leaving keep the invariant, the ones that fail*)
(* and a kill too.                                                         *)
(***************************************************************************)
LEMMA StartAndEndKeep ==
  ASSUME ResolverIInv, NEW i \in Instances, Life(i) \/ StartFails(i) \/ Exit(i) \/ Kill(i)
  PROVE  ResolverIInv'
<1>1. CASE Life(i)
  <2>1. Placed'
    BY <1>1, LifePlaced DEF ResolverIInv, Placed
  <2> QED BY <1>1, <2>1, LifeKeeps DEF Life, bind_control, publish, Leave, drop_discovery, drop_control
<1>2. CASE GoesTo(i, "leased", "undiscovered")
           /\ UNCHANGED <<port, controlFile, discovered, inputs, core, client, clock, clears>>
  <2>1. Placed'
    BY <1>2 DEF ResolverIInv, Placed, GoesTo, ResolverTypeOK, LifeInv, EndpointIsOwn
  <2> QED BY <1>2, <2>1, LifeKeeps
<1>3. CASE stage[i] # "off" /\ Ends(i)
  BY <1>3, EndsKeeps
<1> QED BY <1>1, <1>2, <1>3 DEF StartFails, Exit, Kill

(***************************************************************************)
(* A datagram that is taken up, of a stranger or of the client, keeps the  *)
(* invariant.                                                              *)
(***************************************************************************)
LEMMA ReceiveKeeps ==
  ASSUME ResolverIInv, NEW i \in Instances, Receive(i)
  PROVE  ResolverIInv'
<1>1. PICK q : /\ core' = [core EXCEPT !.phase = "received", !.query = q]
               /\ \/ q.sock = 0 /\ client' = client
                  \/ /\ client.phase = "waiting" /\ client' = [client EXCEPT !.at = "none"]
                     /\ q.sock = client.sock /\ q.key = client.cmd.question
  <2>1. CASE \E d \in Datagrams :
               core' = [core EXCEPT !.phase = "received",
                            !.query = [sort |-> d.sort, id |-> d.id, key |-> d.key, sock |-> 0]]
             /\ client' = client
    <3>1. PICK d \in Datagrams :
               core' = [core EXCEPT !.phase = "received",
                            !.query = [sort |-> d.sort, id |-> d.id, key |-> d.key, sock |-> 0]]
      BY <2>1
    <3>2. [sort |-> d.sort, id |-> d.id, key |-> d.key, sock |-> 0].sock = 0
      OBVIOUS
    <3> QED BY <2>1, <3>1, <3>2
  <2>2. CASE /\ client.phase = "waiting" /\ client' = [client EXCEPT !.at = "none"]
             /\ core' = [core EXCEPT !.phase = "received",
                        !.query = [sort |-> "good", id |-> client.id, key |-> client.cmd.question,
                                   sock |-> client.sock]]
    <3> DEFINE q == [sort |-> "good", id |-> client.id, key |-> client.cmd.question,
                     sock |-> client.sock]
    <3>1. q.sock = client.sock /\ q.key = client.cmd.question
      OBVIOUS
    <3> HIDE DEF q
    <3>2. core' = [core EXCEPT !.phase = "received", !.query = q]
      BY <2>2 DEF q
    <3> QED BY <2>2, <3>1, <3>2
  <2> QED BY <2>1, <2>2 DEF Receive
<1>2. UNCHANGED <<lifeVars, clock, clears>> /\ inputs' = inputs + 1
  BY DEF Receive, Input
<1>3. /\ DOMAIN core' = DOMAIN NoCore /\ core'.phase = "received" /\ core'.query = q
      /\ core'.asked = core.asked /\ core'.cache = core.cache /\ core'.pushed = core.pushed
      /\ core'.limit = core.limit /\ core'.upstreams = core.upstreams
  BY <1>1 DEF ResolverIInv, CoreInv, Coherent, NoCore
<1>4. CoreInv'
  BY <1>2, <1>3 DEF ResolverIInv, CoreInv, Coherent
<1>5. ClientInv' /\ client'.phase = client.phase
  <2>1. CASE q.sock = 0 /\ client' = client
    BY <1>2, <1>3, <2>1 DEF ResolverIInv, ClientInv, lifeVars
  <2>2. CASE client.phase = "waiting" /\ client' = [client EXCEPT !.at = "none"]
             /\ q.sock = client.sock /\ q.key = client.cmd.question
    <3>1. /\ DOMAIN client' = DOMAIN NoClient /\ client'.at = "none"
          /\ client'.sock = client.sock /\ client'.phase = client.phase /\ client'.cmd = client.cmd
          /\ client'.result = client.result /\ client'.answer = client.answer
      BY <2>2 DEF ResolverIInv, ClientInv, NoClient
    <3> QED BY <1>2, <1>3, <2>2, <3>1, ResolverAssumption DEF ResolverIInv, ClientInv
  <2> QED BY <1>1, <2>1, <2>2
<1>6. Placed'
  BY <1>2, <1>3, <1>5, PlacedStays DEF ResolverIInv, Placed, ResolverTypeOK
<1> QED BY <1>4, <1>5, <1>6 DEF ResolverIInv, Placed

(***************************************************************************)
(* A reply that is sent goes to the socket that asked, and keeps the       *)
(* invariant.                                                              *)
(***************************************************************************)
LEMMA SendKeeps ==
  ASSUME ResolverIInv, NEW i \in Instances, Send(i)
  PROVE  ResolverIInv'
<1>1. /\ core.phase = "sending" /\ core' = Rest(core) /\ stage[i] = "serving"
      /\ UNCHANGED <<port, controlFile, discovered, clock, inputs, clears>>
  BY DEF Send
<1>2. /\ DOMAIN core' = DOMAIN NoCore /\ core'.phase = Idle /\ core'.query = NoQuery
      /\ core'.asked = 0 /\ core'.cache = core.cache /\ core'.pushed = core.pushed
      /\ core'.limit = core.limit /\ core'.upstreams = core.upstreams
  BY <1>1 DEF ResolverIInv, CoreInv, Coherent, Rest, NoCore
<1>3. CoreInv'
  BY <1>1, <1>2 DEF ResolverIInv, CoreInv, Coherent, Idle
<1>4. CASE client' = client
  <2>1. Placed'
    <3>1. stage' = stage \/ stage' = [stage EXCEPT ![i] = "leaving"]
      BY DEF Send
    <3> QED BY <1>1, <1>2, <1>4, <3>1 DEF ResolverIInv, Placed, ResolverTypeOK, LifeInv, EndpointIsOwn
  <2>2. ClientInv'
    BY <1>1, <1>2, <1>4 DEF ResolverIInv, ClientInv, NoQuery
  <2> QED BY <1>3, <2>1, <2>2 DEF ResolverIInv, Placed
<1>5. CASE /\ client.phase = "waiting" /\ client.sock = core.query.sock /\ stage' = stage
           /\ client' = [client EXCEPT !.phase = "answered", !.answer = core.reply]
  <2>1. /\ DOMAIN client' = DOMAIN NoClient /\ client'.at = client.at
        /\ client'.sock = client.sock /\ client'.phase = "answered" /\ client'.cmd = client.cmd
        /\ client'.result = client.result /\ client'.answer = core.reply
    BY <1>5 DEF ResolverIInv, ClientInv, NoClient
  <2>2. core.reply.kind = "answer" => core.reply.key = client.cmd.question
    BY <1>1, <1>5 DEF ResolverIInv, CoreInv, ClientInv, Replies
  <2>3. ClientInv'
    BY <1>1, <1>2, <1>5, <2>1, <2>2 DEF ResolverIInv, ClientInv, NoQuery
  <2>4. Placed'
    BY <1>1, <1>2, <1>5, <2>1, PlacedStays DEF ResolverIInv, Placed, lifeVars
  <2> QED BY <1>3, <2>3, <2>4 DEF ResolverIInv, Placed
<1> QED BY <1>4, <1>5 DEF Send

(***************************************************************************)
(* A control request: the upstreams and the cache are changed only while   *)
(* the lock is free, and the cache is cleared with them.                   *)
(***************************************************************************)
LEMMA ControlKeeps ==
  ASSUME ResolverIInv, NEW i \in Instances, control_loop(i)
  PROVE  ResolverIInv'
<1> DEFINE req == client.cmd
           result == Handle(core, req)[2]
<1>1. /\ client.phase = "sent" /\ client.at = i /\ (NeedsLock(req) => ~Locked)
      /\ core' = Handle(core, req)[1]
      /\ client' = [client EXCEPT !.phase = "answered", !.result = result]
      /\ clears' = (IF NeedsLock(req) /\ result = "OK" THEN clears + 1 ELSE clears)
      /\ UNCHANGED <<lifeVars, clock, inputs>>
  BY DEF control_loop
<1>2. /\ DOMAIN client' = DOMAIN NoClient /\ client'.at = client.at
      /\ client'.sock = client.sock /\ client'.phase = "answered" /\ client'.cmd = client.cmd
      /\ client'.result = result /\ client'.answer = client.answer
  BY <1>1 DEF ResolverIInv, ClientInv, NoClient
<1>3. \/ /\ core' = core /\ clears' = clears
         /\ req.cmd = "set" => result = "ERROR"
      \/ /\ core' = [core EXCEPT !.cache = {}] /\ clears' = clears + 1 /\ ~Locked
         /\ req.cmd # "set"
      \/ /\ core' = [core EXCEPT !.upstreams = req.values, !.cache = {}] /\ clears' = clears + 1
         /\ ~Locked
  <2>1. CASE req.cmd = "flush-caches"
    BY <1>1, <2>1 DEF Handle, NeedsLock
  <2>2. CASE req.cmd = "set" /\ ~Settable(req.values)
    BY <1>1, <2>2 DEF Handle, NeedsLock
  <2>3. CASE req.cmd = "set" /\ Settable(req.values)
    BY <1>1, <2>3 DEF Handle, NeedsLock
  <2>4. CASE req.cmd \notin {"flush-caches", "set"}
    BY <1>1, <2>4 DEF Handle, NeedsLock
  <2> QED BY <2>1, <2>2, <2>3, <2>4
<1>4. result \in {"OK", "ERROR", "LINES"}
  BY DEF Handle
<1> HIDE DEF result
<1>5. CASE core' = core /\ clears' = clears /\ (req.cmd = "set" => result = "ERROR")
  <2>1. CoreInv'
    BY <1>1, <1>5 DEF ResolverIInv, CoreInv, Coherent, Asking, Replies
  <2>2. ClientInv'
    BY <1>1, <1>2, <1>5, <1>4 DEF ResolverIInv, ClientInv, lifeVars
  <2>3. Placed'
    BY <1>1, <1>2, <1>5, PlacedStays DEF ResolverIInv, Placed, ResolverTypeOK
  <2> QED BY <2>1, <2>2, <2>3 DEF ResolverIInv, Placed
<1>6. CASE /\ clears' = clears + 1 /\ ~Locked
           /\ \/ core' = [core EXCEPT !.cache = {}] /\ req.cmd # "set"
              \/ core' = [core EXCEPT !.upstreams = req.values, !.cache = {}]
  <2>1. /\ DOMAIN core' = DOMAIN NoCore /\ core'.phase = core.phase /\ core'.query = core.query
        /\ core'.asked = core.asked /\ core'.cache = {} /\ core'.pushed = core.pushed
        /\ core'.limit = core.limit /\ core'.reply = core.reply /\ core'.at = core.at
        /\ req.cmd = "set" => core'.upstreams = req.values
    BY <1>6 DEF ResolverIInv, CoreInv, Coherent, NoCore
  <2>2. core.phase # "asking"
    BY <1>6 DEF Locked
  <2>3. CoreInv'
    BY <1>1, <1>6, <2>1, <2>2, FS_EmptySet DEF ResolverIInv, CoreInv, Coherent, Replies
  <2>4. ClientInv'
    BY <1>1, <1>2, <1>4, <2>1 DEF ResolverIInv, ClientInv, lifeVars
  <2>5. Placed'
    BY <1>1, <1>2, <2>1, PlacedStays DEF ResolverIInv, Placed, ResolverTypeOK
  <2> QED BY <2>3, <2>4, <2>5 DEF ResolverIInv, Placed
<1> QED BY <1>3, <1>5, <1>6

(***************************************************************************)
(* A step of resolvectl alone: the resolver does not move.                 *)
(***************************************************************************)
LEMMA ClientKeeps ==
  ASSUME ResolverIInv, discover \/ control_request \/ query_timeout \/ report
  PROVE  ResolverIInv'
<1>1. UNCHANGED <<lifeVars, core, clock, clears>>
  BY DEF discover, control_request, query_timeout, report
<1>2. CoreInv'
  BY <1>1 DEF ResolverIInv, CoreInv, Coherent, Asking, Replies
<1>3. ClientInv' /\ client'.phase \in {"idle", "found", "connected", "sent", "waiting", "answered"}
  <2> USE <1>1 DEF ResolverIInv, ClientInv, lifeVars
  <2>1. CASE discover
    <3>1. PICK cmd \in Commands, id \in Ids :
            client' = [NoClient EXCEPT
                 !.phase = IF cmd.cmd = "query" THEN "waiting" ELSE "found", !.cmd = Request(cmd),
                 !.at = IF cmd.cmd = "query" THEN port ELSE "none",
                 !.sock = inputs + 1, !.id = id]
      BY <2>1 DEF discover
    <3>2. /\ DOMAIN client' = DOMAIN NoClient /\ client'.sock = inputs + 1
          /\ client'.phase = (IF cmd.cmd = "query" THEN "waiting" ELSE "found")
          /\ client'.cmd = Request(cmd) /\ client'.result = "none" /\ client'.answer = NoReply
          /\ client'.at = (IF cmd.cmd = "query" THEN port ELSE "none")
      BY <3>1 DEF NoClient
    <3>3. cmd.cmd = "query" => Request(cmd).cmd = "query"
      BY DEF Request
    <3>4. inputs' = inputs + 1
      BY <2>1 DEF discover, Input
    <3> QED BY <3>2, <3>3, <3>4, ResolverAssumption DEF NoReply
  <2>2. CASE control_request
    <3>1. inputs' = inputs /\ client.phase \in {"found", "connected", "sent"}
      BY <2>2 DEF control_request
    <3>2. /\ DOMAIN client' = DOMAIN NoClient /\ client'.sock = client.sock
          /\ client'.cmd = client.cmd /\ client'.answer = client.answer
          /\ client'.phase \in {"found", "connected", "sent", "answered"}
          /\ client'.result \in {client.result, "failed", "nothing"}
          /\ client'.phase # "answered" => client'.result = client.result
          /\ client'.at \in {client.at, "none"} \/ (Listening /\ client'.at = controlFile)
      BY <2>2 DEF control_request, Retry, NoClient
    <3>3. Listening => controlFile = port
      BY DEF Listening, LifeInv
    <3> QED BY <3>1, <3>2, <3>3, ResolverAssumption
  <2>3. CASE query_timeout
    <3>1. /\ DOMAIN client' = DOMAIN NoClient /\ client'.sock = client.sock
          /\ client'.cmd = client.cmd /\ client'.answer = client.answer /\ client'.at = client.at
          /\ client'.phase = "answered" /\ client'.result = "failed" /\ inputs' = inputs
      BY <2>3 DEF query_timeout, NoClient
    <3> QED BY <3>1
  <2>4. CASE report
    <3>1. /\ DOMAIN client' = DOMAIN NoClient /\ client'.sock = client.sock
          /\ client'.cmd = client.cmd /\ client'.answer = client.answer /\ client'.at = client.at
          /\ client'.phase = "idle" /\ inputs' = inputs
          /\ client'.result = (IF Succeeds(client) THEN "success" ELSE "error")
      BY <2>4 DEF report, NoClient
    <3>2. /\ client.cmd.cmd = "set" /\ Succeeds(client) => client.result = "OK"
          /\ client.cmd.cmd = "query" /\ Succeeds(client) => client.answer.kind = "answer"
      BY DEF Succeeds, QuerySucceeds, parse_answers
    <3> QED BY <3>1, <3>2
  <2> QED BY <2>1, <2>2, <2>3, <2>4
<1>4. Placed'
  BY <1>1, <1>3, PlacedStays DEF ResolverIInv, Placed, ResolverTypeOK
<1> QED BY <1>2, <1>3, <1>4 DEF ResolverIInv, Placed

(***************************************************************************)
(* Every step keeps the invariant of the resolver.                         *)
(***************************************************************************)
LEMMA ResolverKept ==
  ASSUME ResolverIInv, [HostNext]_hostVars
  PROVE  ResolverIInv'
<1>1. CASE UNCHANGED resolverVars
  <2>1. Placed'
    BY <1>1, PlacedStays DEF ResolverIInv, Placed, ResolverTypeOK, resolverVars, lifeVars
  <2> QED BY <1>1, <2>1, LifeKeeps DEF resolverVars
<1>2. CASE Tick
  <2>1. clock' = clock + 1 /\ UNCHANGED <<lifeVars, core, client, inputs, clears>>
    BY <1>2 DEF Tick
  <2>2. Placed'
    BY <2>1, PlacedStays DEF ResolverIInv, Placed, ResolverTypeOK
  <2>3. CoreInv'
    BY <2>1 DEF ResolverIInv, CoreInv, Coherent, Asking, Replies
  <2>4. ClientInv'
    BY <2>1 DEF ResolverIInv, ClientInv, lifeVars
  <2> QED BY <2>2, <2>3, <2>4 DEF ResolverIInv, Placed
<1>3. CASE discover \/ control_request \/ query_timeout \/ report
  BY <1>3, ClientKeeps
<1>4. ASSUME NEW i \in Instances, Bind(i)
      PROVE  ResolverIInv'
  BY <1>4, BindKeeps
<1>5. ASSUME NEW i \in Instances, Life(i) \/ StartFails(i) \/ Exit(i) \/ Kill(i)
      PROVE  ResolverIInv'
  BY <1>5, StartAndEndKeep
<1>6. ASSUME NEW i \in Instances, Receive(i) \/ resolve(i) \/ Exchange(i) \/ Send(i)
      PROVE  ResolverIInv'
  BY <1>6, ReceiveKeeps, ResolveKeeps, ExchangeKeeps, SendKeeps
<1>7. ASSUME NEW i \in Instances, control_loop(i)
      PROVE  ResolverIInv'
  BY <1>7, ControlKeeps
<1> QED BY ResolverStep, <1>1, <1>2, <1>3, <1>4, <1>5, <1>6, <1>7 DEF ResolverNext

(***************************************************************************)
(* The inductive invariant of the resolver holds in every behaviour.       *)
(***************************************************************************)
THEOREM ResolverInductive == HostSpec => []ResolverIInv
<1>1. HostInit => ResolverIInv
  BY ResolverStart
<1>2. ResolverIInv /\ [HostNext]_hostVars => ResolverIInv'
  BY ResolverKept
<1> QED BY <1>1, <1>2, PTL DEF HostSpec

(***************************************************************************)
(* Clients find the resolver that serves, the cache is within its limit and*)
(* of the servers in use now, and an answer, cached or not, is one to the  *)
(* query it is sent for, for every number of instances, every configuration*)
(* and every order of requests while it waits for an upstream.             *)
(***************************************************************************)
THEOREM ResolverIsSound == HostSpec => []ResolverSound
<1>1. ResolverIInv => ResolverSound
  <2> SUFFICES ASSUME ResolverIInv PROVE ResolverSound
    OBVIOUS
  <2>1. CacheIsCurrent
    BY DEF ResolverIInv, CoreInv, Coherent, CacheIsCurrent
  <2>2. RepliesMatch
    BY DEF ResolverIInv, CoreInv, Replies, ClientInv, RepliesMatch, Alive
  <2> QED BY <2>1, <2>2 DEF ResolverIInv, ResolverSound
<1> QED BY <1>1, ResolverInductive, PTL
=============================================================================
