--------------------------- MODULE MCConfigStore ---------------------------
(* Entries, aliases and a schedule over two times; URLs of which one       *)
(* extends another and one is unrelated, and the empty one. Initial files: *)
(* a fresh one with raw keys; one copied to a new machine, with a sentinel *)
(* and no bundle, an alias that shadows a model and one that lists itself; *)
(* and one whose key store was turned off by hand, with a chain of aliases *)
(* that one edit makes a cycle, by night or at any time.                   *)
EXTENDS ConfigStore, TLC

MCUrls == {<<>>, <<"x">>, <<"x", "y">>, <<"z">>}
MCNames == {"m", "a", "b", "s"}
NoCovered == <<>>
OwnUpstream == [n \in MCNames |-> n]
LoadSymmetry == Permutations(Loads)

Target(rank) == [rank |-> rank, ability |-> FALSE]
Alias(tools, targets) == [limit |-> 1, options |-> 1, tools |-> tools, targets |-> targets]

Fresh ==
  [store |-> TRUE, limit |-> 0,
   models |-> [m |-> [url |-> <<"x">>, key |-> "k1"], a |-> [url |-> <<"z">>, key |-> "k2"]],
   composite |-> [b |-> Alias("none", [m |-> Target("primary"), a |-> Target("fallback")])],
   schedule |-> [s |-> [b |-> {"day"}, m |-> {}]]]

OnNewMachine ==
  [store |-> TRUE, limit |-> 1,
   models |-> [m |-> [url |-> <<"x">>, key |-> Sentinel],
               a |-> [url |-> <<"x", "y">>, key |-> "k1"]],
   composite |-> [a |-> Alias("none", [m |-> Target("primary")]),
                  b |-> Alias("toolset", [b |-> Target("primary"), m |-> Target("off")])],
   schedule |-> [s |-> [b |-> {"day"}, m |-> {}]]]

Chained ==
  [store |-> FALSE, limit |-> 0,
   models |-> [m |-> [url |-> <<"x">>, key |-> Sentinel]],
   composite |-> [a |-> Alias("decision", [b |-> [rank |-> "share", ability |-> TRUE]]),
                  b |-> Alias("none", [m |-> Target("off")])],
   schedule |-> [s |-> [a |-> {"night"}]]]

MCFiles == {Fresh, OnNewMachine, Chained}
=============================================================================
