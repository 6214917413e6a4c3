---------------------------- MODULE MCConnectors ----------------------------
(* The pull connectors over feeds of a few items: two sites, a time of     *)
(* three digits that sorts after one of four, a revised alert, an item     *)
(* below the minimum that does not parse, an alert without a sent time,    *)
(* one revised under its old sent time; and the listeners over two topics. *)
EXTENDS Connectors

Item(s, t, l, f) == [site |-> s, time |-> t, level |-> l, fine |-> f]

MCKinds == {Quakes, Water, Fires, Air, Weather}

MCItemsOf ==
  LET early == Item(1, 930, 2, TRUE)
      late == {Item(1, 1200, 2, TRUE), Item(2, 1200, 2, TRUE)}
      bad == Item(2, 1300, 1, FALSE)
      unsent == Item(2, 0, 2, TRUE)
      again == Item(1, 1200, 3, TRUE)
  IN [k \in MCKinds |->
        late \cup {early} \cup (CASE k = Weather -> {unsent, again}
                                [] k = Fires -> {}
                                [] OTHER -> {bad})]

MCTopics == <<"a", "b">>

MCRawConfigs == {[period |-> -1, limit |-> 0, minimum |-> 2],
                 [period |-> 1, limit |-> 1, minimum |-> 2]}

=============================================================================
