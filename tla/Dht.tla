-------------------------------- MODULE Dht ---------------------------------
(***************************************************************************)
(* Discovery in the DHT: the iterative lookup over nodes that may not      *)
(* answer, and the record that a server publishes and a client resolves.   *)
(***************************************************************************)
EXTENDS Naturals, FiniteSets, Sequences
LOCAL INSTANCE SequencesExt

(***************************************************************************)
(* One machine's lookups on the Mainline DHT (dht/node.rs): the seeds from *)
(* the persisted node cache and the bootstrap routers, the iterative walk  *)
(* of at most Rounds rounds towards the target, the final `get` over the   *)
(* closest contacts that still lack a write token, the storers and values  *)
(* it ends with, the cache of live nodes it leaves behind, and the put.    *)
(*                                                                         *)
(* A node is the number that is its distance to the target.  A round is    *)
(* one step, as the code gathers answers until its deadline and absorbs    *)
(* them afterwards: which answers came in time, and which came twice, is   *)
(* chosen.  Answers to an earlier round fail the transaction-id match and  *)
(* count as lost.                                                          *)
(***************************************************************************)
CONSTANTS
  WalkNodes,        \* the DHT's nodes, each its distance to the target
  Routers,      \* the bootstrap routers: they answer find_node, not get
  Graphs,       \* the contact tables considered: node -> nodes it names
  K,            \* contacts asked per round, and nodes stored at
  Rounds,       \* ROUNDS
  MaxPersisted, \* MAX_PERSISTED_NODES
  Lossy,        \* whether answers may be lost or late
  Lookups,      \* bound: lookups made
  Dups,         \* bound: answers delivered twice
  WalkFaults        \* bound: nodes that leave or join, and cache expiries

DhtAssumption ==
  /\ WalkNodes \subseteq Nat /\ Routers \subseteq WalkNodes /\ IsFiniteSet(WalkNodes)
  /\ Graphs \subseteq [WalkNodes -> SUBSET WalkNodes]
  /\ K \in Nat \ {0} /\ Rounds \in Nat \ {0} /\ MaxPersisted \in Nat
  /\ Lookups \in Nat /\ Dups \in Nat /\ WalkFaults \in Nat /\ Lossy \in BOOLEAN

VARIABLES
  knows,    \* the contacts each node names
  up,       \* the nodes that answer now
  walkHolders,  \* the nodes that store the record
  walkCache,    \* [nodes, fresh, had]: the dht-nodes file; ghost had: a lookup
                \* since it last expired found live nodes
  w,        \* the walk in progress
  left      \* [lookups, dups, faults]: the budgets

walkVars == <<knows, up, walkHolders, walkCache, w, left>>

(* The closest n of S. *)
Closest(S, n) == {x \in S : Cardinality({y \in S : y < x}) < n}

(* Walk::default, before the seeds are asked.  tokens counts the answers   *)
(* that carried a token, storers the nodes they came from; ghosts: got,    *)
(* the nodes asked with get; ran, whether the final get was sent; clean,   *)
(* nothing was lost or came twice.                                         *)
Walk0 == [phase |-> "idle", round |-> 0, asked |-> {}, shortlist |-> {},
          queried |-> {}, known |-> {}, storers |-> {}, tokens |-> 0,
          values |-> {}, responders |-> {}, got |-> {}, ran |-> FALSE,
          clean |-> TRUE, dns |-> FALSE]

(* read_node_cache: a file past NODE_CACHE_TTL reads as empty. *)
read_node_cache == IF walkCache.fresh THEN walkCache.nodes ELSE {}

(* The seeds of a lookup: the cached nodes, and the routers whose names    *)
(* resolved (dns).                                                         *)
Seeds(dns) == read_node_cache \cup (IF dns THEN Routers ELSE {})

(* lookup begins: no seed at all is an error. *)
Lookup(dns) ==
  /\ w.phase \in {"idle", "done", "failed"} /\ left.lookups > 0
  /\ LET seed == Seeds(dns) IN
       w' = [Walk0 EXCEPT !.phase = IF seed = {} THEN "failed" ELSE "round",
                          !.asked = seed, !.dns = dns]
  /\ left' = [left EXCEPT !.lookups = @ - 1]
  /\ UNCHANGED <<knows, up, walkHolders, walkCache>>

(* Whether an answer to the query of this round carries a token: only a    *)
(* get is answered with one, and only by a node that implements it.        *)
Tokens(answers, get) == IF get THEN answers \ Routers ELSE {}

(* record over the answers, twice of them delivered twice. *)
Recorded(walk, answers, twice, get, discover) ==
  LET t == Tokens(answers, get) IN
  [walk EXCEPT
    !.responders = @ \cup answers,
    !.values = @ \cup (t \cap walkHolders),
    !.storers = @ \cup t,
    !.tokens = @ + Cardinality(t) + Cardinality(t \cap twice),
    !.known = IF discover THEN @ \cup answers ELSE @,
    !.shortlist = IF discover THEN @ \cup UNION {knows[a] : a \in answers}
                  ELSE @]

(* finalists: the K closest responders without a token and nodes never     *)
(* asked.                                                                  *)
finalists(walk) ==
  Closest({c \in walk.known \cup walk.shortlist :
             /\ c \notin walk.storers
             /\ (c \in walk.known) \/ (c \notin walk.queried)}, K)

(* finish: the K closest token holders, and the live lists it may persist: *)
(* the storers, then responders up to MAX_PERSISTED_NODES.                 *)
finish(walk) ==
  LET s == Closest(walk.storers, K) IN
  [storers |-> s,
   lives |-> {L \in SUBSET walk.responders :
               /\ s \subseteq L
               /\ Cardinality(L) =
                    LET all == Cardinality(walk.responders) IN
                    IF all > MaxPersisted THEN MaxPersisted ELSE all}]

(* write_node_cache and the result, once nothing is left to ask. *)
Done(walk) ==
  LET f == finish(walk) IN
  \E live \in f.lives :
    /\ w' = [walk EXCEPT !.phase = "done", !.storers = f.storers, !.asked = {}]
    /\ walkCache' = [nodes |-> live, fresh |-> TRUE,
                     had |-> (walkCache.had \/ live # {})]

(* The end of the rounds: a final get when fewer than K tokens came. *)
Final(walk) ==
  IF walk.tokens < K /\ finalists(walk) # {}
  THEN /\ w' = [walk EXCEPT !.phase = "final", !.asked = finalists(walk),
                            !.ran = TRUE]
       /\ UNCHANGED walkCache
  ELSE Done(walk)

(* The answers the round may gather, given who is asked. *)
Gathered(asked) == IF Lossy THEN SUBSET (asked \cap up) ELSE {asked \cap up}

(* absorb: the K closest contacts not asked yet. *)
NextAsked(walk) == Closest(walk.shortlist \ walk.queried, K)

(* The next round, or the end of the rounds. *)
Onward(walk) ==
  IF walk.round = Rounds \/ NextAsked(walk) = {} THEN Final(walk)
  ELSE w' = [walk EXCEPT !.asked = NextAsked(walk)] /\ UNCHANGED walkCache

(* One round: its queries, the answers in time, and what is asked next. *)
Round ==
  /\ w.phase = "round"
  /\ \E answers \in Gathered(w.asked) :
     \E twice \in {T \in SUBSET answers : Cardinality(T) <= left.dups} :
       LET get == w.round > 0
           heard == Recorded([w EXCEPT !.queried = @ \cup w.asked,
                                       !.got = IF get THEN @ \cup w.asked ELSE @,
                                       !.round = @ + 1],
                             answers, twice, get, TRUE)
           walk == [heard EXCEPT
                     !.clean = @ /\ answers = w.asked \cap up /\ twice = {}]
       IN  /\ Onward(walk)
           /\ left' = [left EXCEPT !.dups = @ - Cardinality(twice)]
  /\ UNCHANGED <<knows, up, walkHolders>>

(* The final get and the end of the walk. *)
FinalRound ==
  /\ w.phase = "final"
  /\ \E answers \in Gathered(w.asked) :
       Done([Recorded(w, answers, {}, TRUE, FALSE) EXCEPT
              !.got = @ \cup w.asked,
              !.clean = @ /\ answers = w.asked \cap up])
  /\ UNCHANGED <<knows, up, walkHolders, left>>

(* put: the record goes to every storer; those that answer store it. *)
Put ==
  /\ w.phase = "done" /\ w.storers # {}
  /\ \E acks \in Gathered(w.storers) : walkHolders' = walkHolders \cup acks
  /\ w' = Walk0
  /\ UNCHANGED <<knows, up, walkCache, left>>

(* Between lookups a node leaves, with what it stored, or joins. *)
Churn(n) ==
  /\ w.phase \in {"idle", "done"} /\ left.faults > 0
  /\ up' = IF n \in up THEN up \ {n} ELSE up \cup {n}
  /\ walkHolders' = walkHolders \ {n}
  /\ w' = Walk0
  /\ left' = [left EXCEPT !.faults = @ - 1]
  /\ UNCHANGED <<knows, walkCache>>

(* The cache file grows older than NODE_CACHE_TTL. *)
WalkExpire ==
  /\ w.phase \in {"idle", "done"} /\ walkCache.fresh /\ left.faults > 0
  /\ walkCache' = [walkCache EXCEPT !.fresh = FALSE, !.had = FALSE]
  /\ left' = [left EXCEPT !.faults = @ - 1]
  /\ UNCHANGED <<knows, up, walkHolders, w>>

(* No lookup is left to make. *)
WalkSpent == w.phase \in {"idle", "done", "failed"} /\ left.lookups = 0
             /\ UNCHANGED walkVars

WalkInit ==
  /\ knows \in Graphs
  /\ up = WalkNodes /\ walkHolders = {}
  /\ walkCache = [nodes |-> {}, fresh |-> FALSE, had |-> FALSE]
  /\ w = Walk0
  /\ left = [lookups |-> Lookups, dups |-> Dups, faults |-> WalkFaults]

WalkNext ==
  \/ \E dns \in BOOLEAN : Lookup(dns)
  \/ Round
  \/ FinalRound
  \/ Put
  \/ \E n \in WalkNodes : Churn(n)
  \/ WalkExpire
  \/ WalkSpent

WalkSpec == WalkInit /\ [][WalkNext]_walkVars

(* gather returns at its deadline whatever the network does. *)
WalkDue == Round \/ FinalRound

----------------------------------------------------------------------------
(* The type invariant. *)
WalkTypeOK ==
  /\ knows \in Graphs /\ up \subseteq WalkNodes /\ walkHolders \subseteq WalkNodes
  /\ walkCache \in [nodes : SUBSET WalkNodes, fresh : BOOLEAN, had : BOOLEAN]
  /\ w.phase \in {"idle", "round", "final", "done", "failed"}
  /\ w.round \in 0 .. Rounds
  /\ \A f \in {w.asked, w.shortlist, w.queried, w.known, w.storers, w.values,
               w.responders, w.got} : f \subseteq WalkNodes
  /\ left \in [lookups : 0 .. Lookups, dups : 0 .. Dups, faults : 0 .. WalkFaults]

(* A walk that asked once more with get has then asked every one of the K  *)
(* closest contacts it reached: those that answered it, and those it was   *)
(* told of and had not tried before (walk, finalists).                     *)
FinalRoundCovers ==
  w.phase = "done" /\ w.ran =>
    Closest(w.known \cup (w.shortlist \ w.queried), K) \subseteq w.got

(* A lookup that lost nothing and reached a node implementing get within   *)
(* reach of its final round ends with somewhere to store: a cache holding  *)
(* only nodes close to the target does not leave put() without a token     *)
(* (the comment of walk on a warm cache).                                  *)
WarmCacheStores ==
  w.phase = "done" /\ w.clean /\ (Closest(w.responders, K) \ Routers) # {} =>
    w.storers # {}

(* A lookup whose router names resolved and whose routers answer reaches   *)
(* the DHT, however stale the nodes in the cache are (lookup).             *)
RoutersRecover ==
  w.phase = "done" /\ w.clean /\ w.dns /\ Routers \cap up # {} =>
    Routers \cap w.responders # {}

(* What is stored at is also what the next lookup starts from: every node  *)
(* a put is sent to is in the node cache (finish, write_node_cache).       *)
StorersCached ==
  w.phase = "done" /\ walkCache.fresh => w.storers \subseteq walkCache.nodes

(* Every lookup ends, whatever is lost (ROUNDS and QUERY_TIMEOUT). *)
LookupEndsWhen == w.phase \in {"round", "final"}
LookupEndsThen == w.phase \in {"done", "idle"}

-----------------------------------------------------------------------------
(***************************************************************************)
(* Finding the server through the DHT (dht/mod.rs): the server's announce  *)
(* loop, which persists a sequence number, looks up the record's nodes and *)
(* its own external address, and puts a signed record; and a dialer        *)
(* (znpppoe's uplink.rs) that resolves the newest record, caches the       *)
(* address, dials it and drops the cache when the dial fails.              *)
(*                                                                         *)
(* Between the two: DHT nodes that keep the record with the highest        *)
(* sequence number, lookups that reach only some of them, a wall clock     *)
(* that steps either way, an external address that changes, crashes of the *)
(* server, and values that are no record of this identity.  Keys, seals    *)
(* and signatures are abstracted to the flag `own`.                        *)
(***************************************************************************)
CONSTANTS
  RecordNodes,      \* DHT nodes near the target
  Addrs,      \* addresses the server's uplink may have
  MaxClock,   \* bound: the wall clock
  MaxSeq,     \* bound: sequence numbers
  BackoffMax, \* COLD_START_BACKOFF_MAX and BACKOFF_MAX, in BACKOFF_STARTs
  Interval,   \* REPUBLISH_INTERVAL, beyond every backoff
  Torn,       \* whether a crash may fall inside the write of the seq file
  RecordFaults      \* bound: crashes, clock steps, moves, drops, partial lookups

RecordAssumption ==
  /\ IsFiniteSet(RecordNodes) /\ Addrs # {} /\ MaxClock \in Nat /\ MaxSeq \in Nat
  /\ BackoffMax \in Nat \ {0} /\ Interval \in Nat /\ Interval > BackoffMax
  /\ Torn \in BOOLEAN /\ RecordFaults \in Nat

VARIABLES
  clock,  \* the server's wall clock
  wan,    \* the address the server is reachable at
  disk,   \* the seq file; 0 when missing, empty or corrupt
  srv,    \* [pc, seq, seen, warm, backoff, delay, stored]: the announce loop
  nodes,  \* node -> the value it keeps: [seq, addr, own, nth], or <<>>
  cli,    \* [pc, addr, backoff]: the dialer
  recordCache,  \* [addr, fresh]: the dialer's cached address, or <<>>
  aux     \* [faults, puts, top]: budget; records put; highest seq put

recordVars == <<clock, wan, disk, srv, nodes, cli, recordCache, aux>>

NoValue == <<>>
Lower(a, b) == IF a < b THEN a ELSE b
Higher(a, b) == IF a > b THEN a ELSE b

(* One fault of the environment, while the bound on sequence numbers       *)
(* leaves the announcer room to answer it.                                 *)
Spend ==
  /\ aux.faults > 0 /\ srv.seq + 3 <= MaxSeq
  /\ aux' = [aux EXCEPT !.faults = @ - 1]

(* The nodes a lookup reaches: all of them, or fewer at the cost of a      *)
(* fault.                                                                  *)
Reached(r) == IF r = RecordNodes THEN UNCHANGED aux ELSE Spend

----------------------------------------------------------------------------
(* The announcer.                                                          *)

next_seq(now, last) == Higher(now, last + 1)

(* read_seq: a missing, empty or corrupt file reads as 0, as disk has it.  *)
read_seq == disk

(* publish begins: the next sequence number, and the file opened, which    *)
(* truncates it.                                                           *)
Persist ==
  /\ srv.pc = "start" /\ next_seq(clock, read_seq) <= MaxSeq
  /\ srv' = [srv EXCEPT !.pc = "writing", !.seq = next_seq(clock, read_seq)]
  /\ disk' = 0
  /\ UNCHANGED <<clock, wan, nodes, cli, recordCache, aux>>

(* write_seq has written the number. *)
Written ==
  /\ srv.pc = "writing"
  /\ disk' = srv.seq
  /\ srv' = [srv EXCEPT !.pc = "lookup"]
  /\ UNCHANGED <<clock, wan, nodes, cli, recordCache, aux>>

(* The pause of announce_loop: the interval once a publish was stored, a   *)
(* doubling backoff until then.                                            *)
Rested(stored) ==
  LET warm == srv.warm \/ stored > 0 IN
  [srv EXCEPT !.pc = "asleep", !.warm = warm,
    !.delay = IF warm THEN Interval ELSE srv.backoff,
    !.backoff = IF warm THEN @ ELSE Lower(2 * @, BackoffMax),
    !.stored = @ \/ stored > 0]

(* publish: the lookup finds the nodes to store at and the address they    *)
(* see this server at; one that reaches nobody is an error.                *)
Located(r) ==
  /\ srv.pc = "lookup"
  /\ Reached(r)
  /\ srv' = IF r = {} THEN Rested(0)
            ELSE [srv EXCEPT !.pc = "put", !.seen = wan]
  /\ UNCHANGED <<clock, wan, disk, nodes, cli, recordCache>>

(* A node takes a put whose number is higher than the one it keeps. *)
Takes(n) == nodes[n] = NoValue \/ ~ nodes[n].own \/ nodes[n].seq < srv.seq

(* sealed_record: the record of this identity, ghost nth its place in the  *)
(* order of publication.                                                   *)
sealed_record(addr, seq) ==
  [seq |-> seq, addr |-> addr, own |-> TRUE, nth |-> aux.puts + 1]

(* publish: the put at the nodes of the lookup, those that take it. *)
PutRecord(r) ==
  /\ srv.pc = "put" /\ r # {}
  /\ r # RecordNodes => aux.faults > 0 /\ srv.seq + 3 <= MaxSeq
  /\ LET took == {n \in r : Takes(n)}
         rec == sealed_record(srv.seen, srv.seq)
     IN /\ nodes' = [n \in RecordNodes |-> IF n \in took THEN rec ELSE nodes[n]]
        /\ srv' = Rested(Cardinality(took))
  /\ aux' = [aux EXCEPT !.puts = @ + 1, !.top = Higher(@, srv.seq),
                        !.faults = IF r = RecordNodes THEN @ ELSE @ - 1]
  /\ UNCHANGED <<clock, wan, disk, cli, recordCache>>

(* The sleep ends. *)
Wake ==
  /\ srv.pc = "asleep"
  /\ srv' = [srv EXCEPT !.pc = "start"]
  /\ UNCHANGED <<clock, wan, disk, nodes, cli, recordCache, aux>>

Booted == [pc |-> "start", seq |-> 0, seen |-> wan, warm |-> FALSE,
           backoff |-> 1, delay |-> 0, stored |-> FALSE]

(* The server crashes and is started again: only the seq file survives. *)
Restart ==
  /\ Spend /\ (srv.pc = "writing" => Torn)
  /\ srv' = Booted
  /\ UNCHANGED <<clock, wan, disk, nodes, cli, recordCache>>

----------------------------------------------------------------------------
(* The dialer.                                                             *)

(* accept: published under this identity's key, signed and sealed by it. *)
accept(v) == v.own

(* resolve: of the values a lookup returned, the accepted one with the     *)
(* highest number, the first of equals.                                    *)
Best(values) ==
  FoldLeft(LAMBDA b, v : IF (b # NoValue /\ b.seq >= v.seq) \/ ~ accept(v)
                         THEN b ELSE v,
           NoValue, values)

(* The values that a lookup reaching r returns, in some order. *)
Values(r) ==
  LET holders == {n \in r : nodes[n] # NoValue} IN
  {[i \in DOMAIN s |-> nodes[s[i]]] : s \in SetToSeqs(holders)}

(* The pause after a failed attempt. *)
Failed == [cli EXCEPT !.pc = "wait", !.backoff = Lower(2 * @, BackoffMax)]

(* read_cache: an entry older than CACHE_TTL is a miss. *)
read_cache == IF recordCache # NoValue /\ recordCache.fresh THEN recordCache ELSE NoValue

write_cache(a) == [addr |-> a, fresh |-> TRUE]

clear_cache == NoValue

(* Target::resolve: the cached address while it is fresh, else the DHT,    *)
(* whose answer is cached.                                                 *)
Resolve(r) ==
  /\ cli.pc = "idle"
  /\ IF read_cache # NoValue
     THEN /\ cli' = [cli EXCEPT !.pc = "dial", !.addr = read_cache.addr]
          /\ UNCHANGED <<recordCache, aux>>
     ELSE \E values \in Values(r) :
            /\ Reached(r)
            /\ IF Best(values) = NoValue
               THEN cli' = Failed /\ UNCHANGED recordCache
               ELSE /\ cli' = [cli EXCEPT !.pc = "dial",
                                          !.addr = Best(values).addr]
                    /\ recordCache' = write_cache(Best(values).addr)
  /\ UNCHANGED <<clock, wan, disk, srv, nodes>>

(* attempt: the dial succeeds where the server is; one that fails drops    *)
(* the cached address.                                                     *)
attempt ==
  /\ cli.pc = "dial"
  /\ IF cli.addr = wan
     THEN cli' = [cli EXCEPT !.pc = "up", !.backoff = 1] /\ UNCHANGED recordCache
     ELSE cli' = Failed /\ recordCache' = clear_cache
  /\ UNCHANGED <<clock, wan, disk, srv, nodes, aux>>

(* The backoff is over. *)
Retry ==
  /\ cli.pc = "wait"
  /\ cli' = [cli EXCEPT !.pc = "idle"]
  /\ UNCHANGED <<clock, wan, disk, srv, nodes, recordCache, aux>>

----------------------------------------------------------------------------
(* The environment.                                                        *)

(* The link of a connected dialer dies. *)
Drop ==
  /\ cli.pc = "up" /\ Spend
  /\ cli' = [cli EXCEPT !.pc = "idle"]
  /\ UNCHANGED <<clock, wan, disk, srv, nodes, recordCache>>

(* The server's address changes, and links to the old one die. *)
Move(a) ==
  /\ a # wan /\ Spend
  /\ wan' = a
  /\ cli' = IF cli.pc = "up" THEN [cli EXCEPT !.pc = "idle"] ELSE cli
  /\ UNCHANGED <<clock, disk, srv, nodes, recordCache>>

(* The clock is set, forwards or back. *)
Step(t) ==
  /\ t # clock /\ Spend
  /\ clock' = t
  /\ UNCHANGED <<wan, disk, srv, nodes, cli, recordCache>>

(* The cached address grows older than CACHE_TTL. *)
RecordExpire ==
  /\ recordCache # NoValue /\ recordCache.fresh /\ Spend
  /\ recordCache' = [recordCache EXCEPT !.fresh = FALSE]
  /\ UNCHANGED <<clock, wan, disk, srv, nodes, cli>>

(* A node has a value that is not a record of this identity. *)
Alien(n) ==
  /\ nodes[n] = NoValue /\ Spend
  /\ nodes' = [nodes EXCEPT ![n] = [seq |-> MaxSeq, addr |-> wan, own |-> FALSE,
                                    nth |-> 0]]
  /\ UNCHANGED <<clock, wan, disk, srv, cli, recordCache>>

(* The sequence numbers of the bound are used up. *)
RecordSpent == srv.pc = "start" /\ next_seq(clock, read_seq) > MaxSeq /\ UNCHANGED recordVars

RecordInit ==
  /\ clock \in 1 .. MaxClock /\ wan \in Addrs /\ disk = 0
  /\ srv = Booted
  /\ nodes = [n \in RecordNodes |-> NoValue]
  /\ cli = [pc |-> "idle", addr |-> wan, backoff |-> 1]
  /\ recordCache = NoValue
  /\ aux = [faults |-> RecordFaults, puts |-> 0, top |-> 0]

RecordNext ==
  \/ Persist
  \/ Written
  \/ \E r \in SUBSET RecordNodes : Located(r)
  \/ \E r \in SUBSET RecordNodes : PutRecord(r)
  \/ Wake
  \/ Restart
  \/ \E r \in SUBSET RecordNodes : Resolve(r)
  \/ attempt
  \/ Retry
  \/ Drop
  \/ \E a \in Addrs : Move(a)
  \/ \E t \in 1 .. MaxClock : Step(t)
  \/ RecordExpire
  \/ \E n \in RecordNodes : Alien(n)
  \/ RecordSpent

RecordSpec == RecordInit /\ [][RecordNext]_recordVars

(* Both loops go on for ever, and what they wait for is a timer or bounded *)
(* by one.                                                                 *)
RecordDue(i) ==
    \/ i = 1 /\ (Persist \/ Written \/ Wake \/ \E r \in SUBSET RecordNodes : Located(r) \/ PutRecord(r))
    \/ i = 2 /\ (attempt \/ Retry \/ \E r \in SUBSET RecordNodes : Resolve(r))

----------------------------------------------------------------------------
(* The type invariant. *)
RecordTypeOK ==
  /\ clock \in 1 .. MaxClock /\ wan \in Addrs /\ disk \in 0 .. MaxSeq
  /\ srv \in [pc : {"start", "writing", "lookup", "put", "asleep"},
              seq : 0 .. MaxSeq, seen : Addrs, warm : BOOLEAN,
              backoff : 1 .. BackoffMax, delay : 0 .. Interval,
              stored : BOOLEAN]
  /\ cli \in [pc : {"idle", "dial", "wait", "up"}, addr : Addrs,
              backoff : 1 .. BackoffMax]
  /\ aux.faults \in 0 .. RecordFaults /\ aux.top \in 0 .. MaxSeq

(* A record about to be put has a higher number than every record put      *)
(* before, over crashes between persist and put and however the clock was  *)
(* stepped (publish, next_seq).                                            *)
SeqRises == srv.pc = "put" => srv.seq > aux.top

(* Of the records within reach, the address resolved is the one published  *)
(* last, whatever order the values come in and whatever else is stored     *)
(* under the target (resolve, accept).                                     *)
NewestResolved ==
  \A r \in SUBSET RecordNodes : \A values \in Values(r) :
    \A i \in DOMAIN values : values[i].own =>
      /\ Best(values) # NoValue /\ Best(values).own
      /\ Best(values).nth >= values[i].nth

(* The announcer settles to the long interval only after a node stored its *)
(* record in this run: a put accepted by nobody does not count             *)
(* (announce_loop).                                                        *)
ColdStaysShort == srv.pc = "asleep" /\ srv.delay = Interval => srv.stored

(* A dialer that is not connected comes up again: the announcer puts the   *)
(* new address at a number the nodes take, the stale cache entry is        *)
(* dropped by the dial that fails, and the newest record is the one found. *)
ReconnectsWhen == cli.pc # "up"
ReconnectsThen == cli.pc = "up"
=============================================================================
