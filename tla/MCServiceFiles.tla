--------------------------- MODULE MCServiceFiles ---------------------------
(* Two services that share a slice and a runtime directory.                *)
EXTENDS ServiceFiles

Shared == [path |-> <<"shared">>, runtime |-> TRUE]
Nested == [path |-> <<"shared", "b">>, runtime |-> TRUE]
State  == [path |-> <<"state">>, runtime |-> FALSE]

Plain ==
    [credentials |-> FALSE, directories |-> <<>>, private_tmp |-> FALSE, slice |-> <<>>,
     controllers |-> {}, devices |-> FALSE, delegate |-> {}, user |-> FALSE,
     listeners |-> <<>>, remove_on_stop |-> TRUE]

\* Credentials and a private /tmp next to nested directories; limits in
\* nested slices; delegation and devices, with and without a
\* slice; sockets.
MCExisting == {<<"shared">>}
MCPlans ==
    { [a |-> [Plain EXCEPT !.credentials = TRUE, !.private_tmp = TRUE,
                           !.directories = <<Shared, State>>, !.user = TRUE],
       b |-> [Plain EXCEPT !.directories = <<Shared, Nested>>, !.slice = <<"x">>,
                           !.controllers = {"memory"}]],
      [a |-> [Plain EXCEPT !.slice = <<"x">>, !.controllers = {"memory"}, !.user = TRUE],
       b |-> [Plain EXCEPT !.slice = <<"x", "y">>, !.controllers = {"cpu"}, !.devices = TRUE]],
      [a |-> [Plain EXCEPT !.slice = <<"x">>, !.delegate = {"cpu", "rdma"}],
       b |-> [Plain EXCEPT !.slice = <<"x">>, !.controllers = {"memory", "cpu"}, !.user = TRUE]],
      [a |-> [Plain EXCEPT !.delegate = {"memory"}],
       b |-> [Plain EXCEPT !.devices = TRUE, !.credentials = TRUE]],
      [a |-> [Plain EXCEPT !.listeners = <<"l1", "l2">>, !.directories = <<Nested>>],
       b |-> [Plain EXCEPT !.listeners = <<"l3">>, !.remove_on_stop = FALSE]] }
=============================================================================
