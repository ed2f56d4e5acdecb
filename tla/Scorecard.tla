------------------------------ MODULE Scorecard ------------------------------
(* lib/checks.js: the health card of one probe, as a function of what the    *)
(* probe saw.  An observation o has                                          *)
(*   transport  "npm", "local" or "http"; of a falsy entry "empty", no name  *)
(*              of a package, or "null"                                      *)
(*   package    what npm says: "runs", "deprecated", "noBin", "refused"      *)
(*   handshake  "quick", "slow", "slower", "needsConfig", "failed", "broken" *)
(*              (an exception after it) or "skipped"                         *)
(*   protocol   "latest", "older" or NONE                                    *)
(*   listing    "listed", "failed" or "unasked", and tools, those it gave    *)
(*   hint, leak its output has a word on credentials, has a secret           *)
(*   pings      "quick", "slow", "failing" or NONE                           *)
EXTENDS Integers, FiniteSets, FiniteSetsExt, NoValue

(* What matters of a list of tools: how many, how many dangerous, whether    *)
(* one of them certainly, whether others write, and its flaws: "invalid"     *)
(* schemas, entries that are "malformed" or, among the first eight, "null",  *)
(* a "secret" in a description.                                              *)
NoTools == [total |-> 0, dangerous |-> 0, certain |-> FALSE, writes |-> FALSE, flaws |-> {}]

Check(status, score, max) == [status |-> status, score |-> score, max |-> max]

Unknown(max) == Check("UNKNOWN", 0, max)

Ok(o) == o.handshake \in {"quick", "slow", "slower"}
Skipped(o) == o.handshake = "skipped"
Remote(o)  == o.transport = "http"
Unless(o, max) == Unknown(IF Skipped(o) THEN 0 ELSE max)

(* npm view: "noBin" and "deprecated" are warnings. *)
Lookup(package) == CASE package = "runs"    -> Check("PASS", 15, 15)
                     [] package = "refused" -> Check("FAIL", 0, 15)
                     [] OTHER               -> Check("WARN", 10, 15)

Installability(o) == CASE o.transport = "local" -> Check("SKIPPED", 0, 0)
                       [] o.transport = "http"  -> Check("SKIPPED", 0, 15)
                       [] OTHER                 -> Lookup(o.package)

Generous(o) ==   \* mutant: a server that asks for its configuration is well-behaved
    CASE o.handshake = "quick"  -> Check("PASS", 25, 25)
      [] o.handshake = "slow"   -> Check("PASS", 21, 25)
      [] o.handshake = "slower" -> Check("WARN", 17, 25)
      [] o.handshake = "needsConfig" -> Check("CONFIG_REQUIRED", 25, 25)
      [] OTHER -> Check("FAIL", 0, 25)

Handshake(o) ==
    CASE o.handshake = "quick"  -> Check("PASS", 25, 25)
      [] o.handshake = "slow"   -> Check("PASS", 21, 25)
      [] o.handshake = "slower" -> Check("WARN", 17, 25)
      [] o.handshake = "needsConfig" -> Check("CONFIG_REQUIRED", IF Remote(o) THEN 12 ELSE 15, 25)
      [] o.handshake = "skipped" ->
             Check(IF o.package = "refused" THEN "FAIL" ELSE "SKIPPED", 0, 0)
      [] OTHER -> Check("FAIL", 0, 25)

EmptyIsValid(o) ==   \* mutant: of no tools, none has an invalid schema
    CASE ~Ok(o) -> Unless(o, 15)
      [] Ok(o) /\ "invalid" \in o.tools.flaws -> Check("WARN", 8, 15)
      [] OTHER -> Check("PASS", 15, 15)

Schema(o) ==
    CASE o.tools.total = 0 /\ o.listing = "failed" /\ ~Remote(o) -> Check("FAIL", 0, 15)
      [] o.tools.total > 0 /\ "invalid" \in o.tools.flaws -> Check("WARN", 8, 15)
      [] o.tools.total > 0 /\ "invalid" \notin o.tools.flaws -> Check("PASS", 15, 15)
      [] OTHER -> Unless(o, 15)

(* Dangerous for certain, or more than 30 in 100, is a failure. *)
Grave(tools) == tools.dangerous > 0 /\ (tools.certain \/ 10 * tools.dangerous > 3 * tools.total)

Many(tools) == 100 * tools.dangerous > 15 * tools.total

DangerWarning(o) == Check("WARN", IF ~Remote(o) /\ Many(o.tools) THEN 2 ELSE 4, 10)
NoDanger(o)      == Check("PASS", IF ~Remote(o) /\ o.tools.writes THEN 8 ELSE 10, 10)

Destructive(o) ==
    CASE o.tools.total = 0 -> Unless(o, 10)
      [] o.tools.total > 0 /\ Grave(o.tools) -> Check("FAIL", 0, 10)
      [] o.tools.total > 0 /\ ~Grave(o.tools) /\ o.tools.dangerous > 0 -> DangerWarning(o)
      [] OTHER -> NoDanger(o)

(* Of a remote server the hint is one in its name, or headers that were      *)
(* given; a local one that asks for its configuration requires credentials.  *)
RemoteAuthentication(o) == CASE ~Ok(o)           -> Unknown(10)
                             [] Ok(o) /\ o.hint  -> Check("PASS", 10, 10)
                             [] Ok(o) /\ ~o.hint -> Check("WARN", 3, 10)

Requires(o) == o.hint \/ o.handshake = "needsConfig"

LocalAuthentication(o) ==
    CASE Requires(o) -> Check("REQUIRED", 10, 10)
      [] ~Requires(o) /\ Ok(o) /\ o.tools.total > 0 -> Check("WARN", 3, 10)
      [] OTHER -> Unless(o, 10)

Authentication(o) == IF Remote(o) THEN RemoteAuthentication(o) ELSE LocalAuthentication(o)

Leaks(o) == "secret" \in o.tools.flaws \/ (o.leak /\ ~Remote(o))

NoLeak(o) == CASE Remote(o) /\ o.tools.total > 0 -> Check("PASS", 10, 10)
               [] Remote(o) /\ ~(o.tools.total > 0) -> Unknown(10)
               [] ~Remote(o) /\ Ok(o)  -> Unknown(0)
               [] ~Remote(o) /\ ~Ok(o) -> Unless(o, 10)

SecretExposure(o) == IF Leaks(o) THEN Check("FAIL", 0, 10) ELSE NoLeak(o)

Protocol(o) == CASE ~Ok(o) -> Unless(o, 10)
                 [] Ok(o) /\ o.protocol = "latest" -> Check("PASS", 10, 10)
                 [] Ok(o) /\ o.protocol = "older"  -> Check("WARN", 6, 10)
                 [] OTHER -> Unknown(10)

Latency(o) == CASE ~Ok(o) -> Unless(o, 5)
                [] Ok(o) /\ o.pings = "quick" -> Check("PASS", 5, 5)
                [] Ok(o) /\ o.pings = "slow"  -> Check("WARN", 3, 5)
                [] OTHER -> Check("FAIL", 1, 5)

(* An exception after a remote handshake turns the card into that of a       *)
(* connection that failed.                                                   *)
Reported(o) == IF o.handshake = "broken" THEN [o EXCEPT !.tools = NoTools] ELSE o

Card(o) == [installability |-> Installability(o), handshake |-> Handshake(o),
            schema |-> Schema(Reported(o)), destructive |-> Destructive(Reported(o)),
            authentication |-> Authentication(o), secretExposure |-> SecretExposure(Reported(o)),
            protocol |-> Protocol(o), latency |-> Latency(o)]

Score(card) == card.installability.score + card.handshake.score + card.schema.score
               + card.destructive.score + card.authentication.score
               + card.secretExposure.score + card.protocol.score + card.latency.score

Failing(card) == \E name \in DOMAIN card : card[name].status = "FAIL"
=============================================================================
