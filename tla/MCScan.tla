------------------------------- MODULE MCScan --------------------------------
(* Scan for TLC: two servers, each of one of a few kinds, or one after falsy *)
(* entries.                                                                  *)
EXTENDS Scan

Kind(transport, package, needsConfig, tools, hint) ==
    [transport |-> transport, package |-> package, needsConfig |-> needsConfig,
     protocol |-> "latest", tools |-> tools, hint |-> hint, leak |-> FALSE]

Plain     == [NoTools EXCEPT !.total = 4, !.writes = TRUE]
Dangerous == [NoTools EXCEPT !.total = 4, !.dangerous = 2]
Secret    == [NoTools EXCEPT !.total = 7, !.dangerous = 2, !.flaws = {"secret", "invalid"}]
Malformed == [NoTools EXCEPT !.total = 2, !.flaws = {"malformed"}]
Null      == [NoTools EXCEPT !.total = 1, !.flaws = {"null"}]

Empty == Kind("empty", "refused", FALSE, NoTools, FALSE)
None  == Kind("null", NONE, FALSE, NoTools, FALSE)

MCServers == {Kind("npm", "runs", FALSE, Dangerous, TRUE),
              Kind("npm", "runs", TRUE, Plain, TRUE),
              Kind("npm", "noBin", FALSE, Plain, FALSE),
              Kind("local", NONE, FALSE, Secret, FALSE),
              Kind("local", NONE, FALSE, Malformed, FALSE),
              Kind("http", NONE, FALSE, Plain, TRUE),
              Kind("http", NONE, TRUE, Plain, FALSE),
              Kind("http", NONE, FALSE, Secret, FALSE),
              Kind("http", NONE, FALSE, Malformed, TRUE),
              Kind("http", NONE, FALSE, Null, TRUE),
              Empty, None}

MCLists == {<<a, b>> : a, b \in MCServers} \cup {<<a, Empty, b>> : a, b \in MCServers}
=============================================================================
