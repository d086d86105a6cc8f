----------------------------- MODULE MCHostTools -----------------------------
(* A small host: two runs of sysusers at a time over three configuration   *)
(* files, three packages and one local service, two kernels, four fstabs,  *)
(* three encrypted mappings, two instances of the resolver.                *)
EXTENDS HostTools

(* ------------------------------- accounts ------------------------------ *)

Num(k) == [how |-> "number", id |-> k]
InGroup(how, id, name) == [how |-> how, id |-> id, name |-> name]
U(n, r, pr) == [kind |-> "u", name |-> n, id |-> r, primary |-> pr]
G(n, r) == [kind |-> "g", name |-> n, id |-> r]
M(n, g) == [kind |-> "m", name |-> n, group |-> g]
File(lines) == [null |-> FALSE, lines |-> lines]
DevNull == [null |-> TRUE, lines |-> << >>]
Opt(files_, inline, replace, dry) ==
    [files |-> files_, inline |-> inline, replace |-> replace, dry |-> dry]

mcEtc0 ==
    [passwd |-> ("root" :> [uid |-> 0, gid |-> 0, own |-> TRUE]),
     group |-> ("root" :> [gid |-> 0, members |-> {}])
               @@ ("log" :> [gid |-> 5, members |-> {}]),
     shadow |-> ("root" :> {}), gshadow |-> ("root" :> {}) @@ ("log" :> {}),
     hasShadow |-> TRUE, hasGshadow |-> TRUE]
mcConfigDirs ==
    <<("a" :> File(<<U("web", Num(5), NoPrimary), M("web", "log")>>))
      @@ ("b" :> File(<<G("db", Num(4)), U("log", [how |-> "path", id |-> 5], NoPrimary)>>)),
      ("b" :> DevNull)
      @@ ("c" :> File(<<[kind |-> "r", low |-> 3, high |-> 5],
                        U("db", Automatic, InGroup("name", 0, "log"))>>))>>
mcFileOrder == <<"a", "b", "c">>
mcInvocations ==
    {Opt(<< >>, << >>, "none", FALSE), Opt(<<"b">>, << >>, "none", FALSE),
     Opt(<<"x">>, << >>, "none", FALSE), Opt(<<"a">>, << >>, "c", FALSE),
     Opt(<< >>, <<G("web", Num(65535))>>, "a", TRUE),
     Opt(<< >>, <<G("web", Num(4)), U("adm", Num(4), InGroup("-", 0, "none"))>>, "a", FALSE)}
mcSystemRange == [low |-> 3, high |-> 6]

(* ------------------------------- packages ------------------------------ *)

Ds(d, n, ps, s) == [dir |-> d, name |-> n, profiles |-> ps, sort |-> s]
mcDescriptors ==
    ("web" :> {Ds(1, "web", {"boot"}, "good"), Ds(1, "log", {"rescue"}, "good")})
    @@ ("alt" :> {Ds(2, "log", {"boot"}, "good"), Ds(1, "own", {"boot"}, "missing")})
    @@ ("odd" :> {Ds(1, "odd", {"boot"}, "link")})
    @@ ("dup" :> {Ds(1, "web", {"boot"}, "good")})
mcLocal == {Ds(3, "own", {}, "good")}
mcServiceOrder == <<"log", "odd", "own", "web">>

(* -------------------------------- kernels ------------------------------ *)

Rq(l, t, i, m, d) == [layout |-> l, token |-> t, initrds |-> i, make |-> m, dracut |-> d]
mcRequests ==
    {Rq("auto", "auto", << >>, TRUE, TRUE), Rq("bls", "machine-id", <<"early", "main">>, TRUE, FALSE),
     Rq("other", "lit", << >>, FALSE, FALSE)}
mcAdjacent == ("v1" :> "initrd") @@ ("v2" :> "none")
mcPluginDirs == <<("p" :> "mask") @@ ("q" :> "dir"), ("p" :> "file") @@ ("q" :> "file")>>
mcPluginOrder == <<"p", "q">>

(* -------------------------------- storage ------------------------------ *)

Line(w, t, fs, na, nf, net) ==
    [what |-> w, target |-> t, fs |-> fs, noauto |-> na, nofail |-> nf, network |-> net,
     requires |-> {}, wants |-> {}, after |-> {}, before |-> {}]
Sda == <<"dev", "sda">>
Home == <<"dev", "mapper", "home">>
Swap == <<"swap", Sda>>
Vpn == <<"vpn", << >>>>
mcFstabs ==
    {<< >>,
     <<Line(Home, <<"home", "me">>, "ext4", FALSE, FALSE, FALSE),
       Line(Sda, << >>, "ext4", FALSE, FALSE, FALSE),
       [Line(<<"srv">>, <<"home">>, "nfs", FALSE, TRUE, TRUE)
          EXCEPT !.requires = {Vpn}, !.wants = {Swap}, !.after = {Vpn, Swap}],
       [Line(Sda, << >>, "swap", FALSE, FALSE, FALSE) EXCEPT !.requires = {<<"device", <<"dev", "sdb">>>>}],
       [Line(<<"srv">>, <<"mnt">>, "nfs", FALSE, FALSE, FALSE) EXCEPT !.before = {Swap, Profile}]>>,
     <<[Line(Sda, <<"home">>, "ext4", FALSE, FALSE, FALSE)
          EXCEPT !.after = {<<"mount", <<"home", "me">>>>}],
       Line(Home, <<"home", "..", "me">>, "ext4", FALSE, TRUE, FALSE),
       Line(Home, <<"home">>, "ext4", TRUE, FALSE, FALSE)>>,
     <<Line(Sda, <<"home">>, "ext4", FALSE, FALSE, FALSE),
       Line(Home, <<"home">>, "ext4", FALSE, FALSE, FALSE)>>}
Cr(n, s, tag, key, na, nf) ==
    [name |-> n, source |-> s, tag |-> tag, key |-> key, noauto |-> na, nofail |-> nf]
mcCrypttab ==
    <<Cr("data", "lv", FALSE, "file", FALSE, FALSE), Cr("extra", "usb", TRUE, "file", FALSE, TRUE),
      Cr("late", "usb", FALSE, "none", FALSE, FALSE)>>
mcVolumes ==
    ("lv" :> [tool |-> "vgchange", on |-> "md"]) @@ ("md" :> [tool |-> "mdadm", on |-> "sda"])
    @@ ("pool" :> [tool |-> "btrfs", on |-> "data"])

(* ------------------------------- resolver ------------------------------ *)

Cf(ups, n, fault) == [upstreams |-> ups, entries |-> n, fault |-> fault]
Dg(s, id, q) == [sort |-> s, id |-> id, key |-> q]
mcConfigs ==
    {Cf(<<"u1", "u2">>, 2, "none"), Cf(<<"u1">>, 0, "delay"), Cf(<< >>, 2, "none"),
     Cf(<<"u1">>, 1, "drop"), Cf(<<"u1">>, 1, "servfail")}
mcDatagrams ==
    {Dg("short", 0, "q1"), Dg("bad", 1, "q1"), Dg("good", 1, "q1"), Dg("good", 2, "q2")}
mcAnswers ==
    {[whole |-> TRUE, ttls |-> <<3, 1>>, found |-> TRUE],
     [whole |-> TRUE, ttls |-> <<3>>, found |-> FALSE],
     [whole |-> FALSE, ttls |-> <<1>>, found |-> TRUE]}
mcCommands ==
    {[cmd |-> "status"], [cmd |-> "flush-caches"], [cmd |-> "reset-server-features"],
     [cmd |-> "dns", values |-> <<"u2", "junk">>], [cmd |-> "dns", values |-> <<"junk">>],
     [cmd |-> "set", values |-> <<"junk">>], [cmd |-> "set", values |-> << >>],
     [cmd |-> "other"], [cmd |-> "query", question |-> "q1"]}

\* Instances of the resolver differ in nothing.
Symmetry == Permutations(Instances)
=============================================================================
