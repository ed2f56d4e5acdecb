-------------------------------- MODULE Scan ---------------------------------
(* mcp-trustcard scan --batch [--parallel]: workers take the servers of a    *)
(* list from one queue and probe them, one each at a time; a server may be   *)
(* silent, fail, need configuration or exit at any moment.  The exit code is *)
(* what CI acts on.                                                          *)
EXTENDS Naturals, Sequences, Scorecard

CONSTANTS Servers,    \* records of what a server is, see Scorecard
          Lists,      \* the lists to scan, sequences of servers
          MaxWorkers  \* bound: --parallel

ASSUME ScanAssumption == /\ MaxWorkers \in Nat \ {0}
                         /\ Lists \subseteq Seq(Servers)
                         /\ \A s \in Servers : s.hint \in BOOLEAN
                         /\ NONE \notin {0, 1}

VARIABLES list,       \* the servers to scan
          queue,      \* the indices no worker has taken
          worker,     \* worker[w]: the index it probes, 0 or Ended
          stage,      \* stage[i]: what the probe of server i waits for
          child,      \* child[i]: its process, as the scanner sees it
          seen,       \* seen[i]: what the probe has seen
          answered,   \* the servers that answered initialize
          results,    \* the indices whose cards are done, in order
          exit        \* the exit code, or NONE

scanVars == <<list, queue, worker, stage, child, seen, answered, results, exit>>
pool  == <<queue, worker>>

Ended   == -1
Workers == DOMAIN worker
Indices == DOMAIN list
Remote_(i) == list[i].transport = "http"

(* Entries that are falsy: the empty string, which is no package name, and   *)
(* null and the like, which are no entries at all.                           *)
Falsy(s) == s.transport \in {"empty", "null"}

(* --parallel 1 is a loop over the list, not a worker of the queue. *)
Parallel == Cardinality(Workers) > 1

Blank(s) == [transport |-> s.transport, package |-> s.package, handshake |-> "skipped",
             protocol |-> NONE, listing |-> "unasked", tools |-> NoTools,
             hint |-> s.hint, leak |-> s.leak, pings |-> NONE]

ScanInit == /\ list \in Lists
            /\ queue = [i \in DOMAIN list |-> i]
            /\ \E n \in 1..MaxWorkers : worker = [w \in 1..n |-> 0]
            /\ stage = [i \in DOMAIN list |-> "queued"]
            /\ child = [i \in DOMAIN list |-> "absent"]
            /\ seen = [i \in DOMAIN list |-> Blank(list[i])]
            /\ answered = {}
            /\ results = <<>>
            /\ exit = NONE

-----------------------------------------------------------------------------
Running == exit = NONE

(* An exception no one catches ends the scan, and with it all its results. *)
Crash == /\ exit' = 1
         /\ UNCHANGED <<list, pool, stage, child, seen, answered, results>>

FirstStage(s) == CASE s.transport = "local" -> "starting"
                   [] s.transport = "http"  -> "initializing"
                   [] OTHER -> "installing"

(* if (!entry) break: a worker that meets a falsy entry drops it and ends. *)
Drops(i) == Parallel /\ Falsy(list[i])

Takes(w) == Running /\ worker[w] = 0 /\ queue # <<>>

TakesLate(w) ==   \* mutant: the entry stays in the queue until its card is done
    /\ Takes(w) /\ ~Drops(Head(queue))
    /\ worker' = [worker EXCEPT ![w] = Head(queue)]
    /\ queue' = IF stage[Head(queue)] = "queued" THEN queue ELSE Tail(queue)
    /\ stage' = [stage EXCEPT ![Head(queue)] = FirstStage(list[Head(queue)])]
    /\ UNCHANGED <<list, child, seen, answered, results, exit>>

Take(w) == /\ Takes(w) /\ ~Drops(Head(queue))
           /\ \/ list[Head(queue)].transport = "null" /\ Crash
              \/ /\ list[Head(queue)].transport # "null"
                 /\ worker' = [worker EXCEPT ![w] = Head(queue)]
                 /\ queue' = Tail(queue)
                 /\ stage' = [stage EXCEPT ![Head(queue)] = FirstStage(list[Head(queue)])]
                 /\ UNCHANGED <<list, child, seen, answered, results, exit>>

Break(w) == /\ Takes(w) /\ Drops(Head(queue))
            /\ worker' = [worker EXCEPT ![w] = Ended]
            /\ queue' = Tail(queue)
            /\ UNCHANGED <<list, stage, child, seen, answered, results, exit>>

WorkerEnds(w) == /\ Running
                 /\ worker[w] = 0
                 /\ queue = <<>>
                 /\ worker' = [worker EXCEPT ![w] = Ended]
                 /\ UNCHANGED <<list, queue, stage, child, seen, answered, results, exit>>

Waits(i, s) == Running /\ stage[i] = s

(* The probe of i has seen o and goes on to s. *)
Sees(i, o, s) == /\ seen' = [seen EXCEPT ![i] = o]
                 /\ stage' = [stage EXCEPT ![i] = s]
                 /\ UNCHANGED <<list, pool, results>>

(* Writing to a process that has exited unnoticed is such an exception. *)
Crashes(i) == child[i] = "exited" /\ Crash

(* npm view: what the registry says, or a failed lookup. *)
Installed(i) ==
    /\ Waits(i, "installing")
    /\ \E p \in {list[i].package, "refused"} :
          Sees(i, [seen[i] EXCEPT !.package = p, !.hint = @ /\ p # "refused"],
               IF p \in {"noBin", "refused"} THEN "stopping" ELSE "starting")
    /\ UNCHANGED <<child, answered, exit>>

(* start() resolves whether or not the command could be started; then the    *)
(* request is written to no one, which may be noticed before it is.          *)
StartChild(i) == /\ Waits(i, "starting")
                 /\ \/ /\ \E c \in {"running", "gone"} : child' = [child EXCEPT ![i] = c]
                       /\ stage' = [stage EXCEPT ![i] = "initializing"]
                       /\ UNCHANGED <<list, pool, seen, answered, results, exit>>
                    \/ Crash

Speaks(i) == child[i] \in {"running", "exited"}

Initialized(i) ==
    /\ Waits(i, "initializing") /\ Speaks(i) /\ ~list[i].needsConfig
    /\ \/ /\ answered' = answered \cup {i}
          /\ \E h \in {"quick", "slow", "slower"} :
                Sees(i, [seen[i] EXCEPT !.handshake = h, !.protocol = list[i].protocol], "listing")
          /\ UNCHANGED <<child, exit>>
       \/ Crashes(i)   \* when it writes tools/list

(* An error, or no answer in time: of every protocol version, if remote. *)
HearsOnly(i) ==   \* mutant: a request that is not answered is waited for
    /\ Waits(i, "initializing") /\ list[i].needsConfig
    /\ Sees(i, [seen[i] EXCEPT !.handshake = "needsConfig"], "stopping")
    /\ UNCHANGED <<child, answered, exit>>

HandshakeFails(i) ==
    /\ Waits(i, "initializing")
    /\ \E h \in {"failed"} \cup IF list[i].needsConfig THEN {"needsConfig"} ELSE {} :
          Sees(i, [seen[i] EXCEPT !.handshake = h], "stopping")
    /\ UNCHANGED <<child, answered, exit>>

(* Lists the analysis of which raises an exception: of malformed entries,    *)
(* null among them, and of invalid schemas of a remote server, by a misspelt *)
(* v.errors.                                                                 *)
Raises(i) ==
    list[i].tools.flaws \cap ({"malformed", "null"} \cup IF Remote_(i) THEN {"invalid"} ELSE {}) # {}

(* tools/list.  Nothing catches what the analysis of dangers raises. *)
Listed(i) ==
    /\ Waits(i, "listing") /\ Speaks(i)
    /\ \/ Crashes(i)
       \/ Raises(i) /\ Crash
       \/ /\ ~Raises(i)
          /\ Sees(i, [seen[i] EXCEPT !.listing = "listed", !.tools = list[i].tools], "pinging")
          /\ UNCHANGED <<child, answered, exit>>

ListFails(i) ==
    /\ Waits(i, "listing") /\ ~Remote_(i)
    /\ \/ Crashes(i)
       \/ /\ Sees(i, [seen[i] EXCEPT !.listing = "failed"], "pinging")
          /\ UNCHANGED <<child, answered, exit>>

(* A remote server: POSTs with timeouts of their own.  Its card is made in   *)
(* one try, whose catch makes it that of a connection that failed.  Its      *)
(* latency is the time all this took.                                        *)
RemoteInitialized(i) ==
    /\ Waits(i, "initializing") /\ Remote_(i) /\ ~list[i].needsConfig
    /\ answered' = answered \cup {i}
    /\ Sees(i, [seen[i] EXCEPT !.handshake = "quick", !.protocol = list[i].protocol], "listing")
    /\ UNCHANGED <<child, exit>>

RemoteListed(i) ==
    /\ Waits(i, "listing") /\ Remote_(i)
    /\ \E p \in {"quick", "slow", "failing"} :
          Sees(i, [seen[i] EXCEPT !.listing = "listed", !.tools = list[i].tools, !.pings = p,
                      !.handshake = IF Raises(i) THEN "broken" ELSE @],
               "stopping")
    /\ UNCHANGED <<child, answered, exit>>

RemoteListFails(i) ==
    /\ Waits(i, "listing") /\ Remote_(i)
    /\ \E p \in {"quick", "slow", "failing"} :
          Sees(i, [seen[i] EXCEPT !.listing = "failed", !.pings = p], "stopping")
    /\ UNCHANGED <<child, answered, exit>>

(* Three more tools/list requests. *)
Pinged(i) == /\ Waits(i, "pinging") /\ child[i] = "running"
             /\ \E p \in {"quick", "slow"} : Sees(i, [seen[i] EXCEPT !.pings = p], "stopping")
             /\ UNCHANGED <<child, answered, exit>>

PingsFail(i) == /\ Waits(i, "pinging")
                /\ Sees(i, [seen[i] EXCEPT !.pings = "failing"], "stopping")
                /\ UNCHANGED <<child, answered, exit>>

(* Each ping is written when the one before is over. *)
PingCrashes(i) == Waits(i, "pinging") /\ Crashes(i)

(* client.stop(), and the worker has its card.  A null among the tools of a  *)
(* remote server has no name to print.                                       *)
Stopped(i, w) == /\ Waits(i, "stopping")
                 /\ worker[w] = i
                 /\ \/ "null" \in seen[i].tools.flaws /\ Crash
                    \/ /\ "null" \notin seen[i].tools.flaws
                       /\ child' = [child EXCEPT ![i] = IF @ = "absent" THEN @ ELSE "gone"]
                       /\ stage' = [stage EXCEPT ![i] = "scored"]
                       /\ results' = Append(results, i)
                       /\ worker' = [worker EXCEPT ![w] = 0]
                       /\ UNCHANGED <<list, queue, seen, answered, exit>>

(* A server's process exits, and later its 'exit' event is handled. *)
ChildExits(i) == /\ Running
                 /\ \/ child[i] = "running" /\ child' = [child EXCEPT ![i] = "exited"]
                    \/ child[i] = "exited" /\ child' = [child EXCEPT ![i] = "gone"]
                 /\ UNCHANGED <<list, pool, stage, seen, answered, results, exit>>

CardOf(i) == Card(seen[i])

(* applyCi: --threshold below 50 changes nothing, the last line still asks   *)
(* for 50 points; above it only asks for more.                               *)
MeetsCi(strict) ==
    /\ strict => \A n \in DOMAIN results : ~Failing(CardOf(results[n]))
    /\ \A n \in DOMAIN results : Score(CardOf(results[n])) >= 50

Report == /\ Running
          /\ \A w \in Workers : worker[w] = Ended
          /\ \E strict \in BOOLEAN : exit' = IF MeetsCi(strict) THEN 0 ELSE 1
          /\ UNCHANGED <<list, pool, stage, child, seen, answered, results>>

Progresses(i) == Initialized(i) \/ Listed(i) \/ Pinged(i) \/ RemoteInitialized(i) \/ RemoteListed(i)
GivesUp(i) == HandshakeFails(i) \/ ListFails(i) \/ RemoteListFails(i) \/ PingsFail(i)
Goes(i) == Installed(i) \/ StartChild(i) \/ GivesUp(i) \/ \E w \in Workers : Stopped(i, w)

Works(w) == Take(w) \/ Break(w) \/ WorkerEnds(w)

ScanNext == \/ \E w \in Workers : Works(w)
            \/ \E i \in Indices : Progresses(i) \/ Goes(i) \/ ChildExits(i) \/ PingCrashes(i)
            \/ Report

(* The scanner's own steps and its timers happen; servers owe it nothing. *)
Fairness ==
    /\ \A w \in 1..MaxWorkers : WF_scanVars(w \in Workers /\ Works(w))
    /\ \A i \in 1..Max({Len(l) : l \in Lists}) : WF_scanVars(i \in Indices /\ Goes(i))
    /\ WF_scanVars(Report)

ScanSpec == ScanInit /\ [][ScanNext]_scanVars /\ Fairness

-----------------------------------------------------------------------------

(* The entries a scan has no card of: falsy ones, which end the worker that  *)
(* takes them, and those after as many of them as there are workers.         *)
DroppedBefore(i) == {j \in 1..(i - 1) : Drops(j)}

Lost(i) == Drops(i) \/ Cardinality(DroppedBefore(i)) >= Cardinality(Workers)

(* CI goes on only if every entry of the list that is not lost answered      *)
(* initialize: no sum of credits for installing, asking for configuration    *)
(* and requiring credentials reaches the 50 points of applyCi.               *)
PassAnswered == exit = 0 => \A i \in Indices : i \in answered \/ Lost(i)

(* A server that lets tools/list fail never scores above what the same probe *)
(* gives it when it lists its tools ("UNKNOWN carries zero credit: a skipped *)
(* check is not affirmative evidence"), if the analysis of that list raises  *)
(* no exception.                                                             *)
HidingNeverPays ==
    \A i \in Indices :
        stage[i] = "scored" /\ seen[i].listing = "failed" /\ ~Raises(i) =>
            Score(CardOf(i)) <=
                Score(Card([seen[i] EXCEPT !.listing = "listed", !.tools = list[i].tools]))

(* A scan that reports has exactly one card of every entry that is not lost, *)
(* and none of the others, however its workers shared the list.              *)
CardsAreTheList ==
    exit # NONE /\ (\A w \in Workers : worker[w] = Ended) =>
        /\ \A i \in Indices : (\E n \in DOMAIN results : results[n] = i) <=> ~Lost(i)
        /\ \A m, n \in DOMAIN results : results[m] = results[n] => m = n

(* Every scan ends, whatever the servers do or fail to do. *)
ScanEnds == <>(exit # NONE)
=============================================================================
