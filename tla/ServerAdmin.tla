---------------------------- MODULE ServerAdmin -----------------------------
(***************************************************************************)
(* Administration of a running server: the client table, its file and the  *)
(* sessions that live by it, and the mutations that are acknowledged once  *)
(* they are saved.                                                         *)
(***************************************************************************)
EXTENDS Naturals, FiniteSets, Functions

(***************************************************************************)
(* Who may connect to a server (src/src/server.rs): the [[clients]] list,  *)
(* the credential table built from it, the sessions authenticated with it, *)
(* and the three writers of the list: admin requests, which edit it and    *)
(* then save the file, the operator, who edits the file, and the watcher,  *)
(* which reads the file after every write to it (the daemon's own saves    *)
(* included) and applies what it read.                                     *)
(*                                                                         *)
(* update_clients is one step: it runs under the list's lock. Everything   *)
(* else interleaves with it: a handshake holds the table it cloned when it *)
(* began, a save the text it rendered, the watcher the file it read. The  *)
(* server has a seed.                                                      *)
(***************************************************************************)
CONSTANTS
    Id,           \* client ids
    Secret,       \* client secrets; "seed" derives one from the seed
    Reserved,     \* the secrets of the admin and discovery credentials
    Cli,          \* the --client entries
    Admin,        \* admin exchanges, one request each
    Request,      \* the kinds of request the admins make
    Conn,         \* incoming client connections
    Texts,        \* client lists the operator may write, Malformed included
    MaxEdits,     \* operator edits
    EarlyEdit     \* whether the operator may edit before the watch is set up

AccessEntry == [id : Id, secret : Secret \cup {"seed"}]

\* Text config::load rejects.
Malformed == {[id |-> "", secret |-> "malformed"]}

NoRequest == [kind |-> "none", entry |-> [id |-> "", secret |-> ""]]

AccessAssumption ==
    /\ "seed" \notin Secret
    /\ Cli \subseteq AccessEntry
    /\ MaxEdits \in Nat
    /\ EarlyEdit \in BOOLEAN

VARIABLES
    list,         \* file_clients
    table,        \* client_credentials: id -> psk
    accessFile,         \* the [[clients]] of the file on disk
    admin,        \* the admin exchanges
    saver,        \* who holds save_lock
    watch,        \* the watch_clients task
    event,        \* an inotify event for the file is waiting
    conns,        \* handshakes and sessions
    edits,        \* operator edits left
    behind        \* history: the last save failed or the last text was rejected

accessVars == <<list, table, accessFile, admin, saver, watch, event, conns, edits, behind>>

-----------------------------------------------------------------------------
\* derive_psk of an entry's secret, or of the one the seed derives for its id.
Psk(entry) == IF entry.secret = "seed" THEN [from |-> "seed", value |-> entry.id]
              ELSE [from |-> "secret", value |-> entry.secret]
NoPsk == [from |-> "none", value |-> ""]

\* client_specs: the --client entries stand in for an empty list.
client_specs(next) == IF next = {} THEN Cli ELSE next

\* client_table accepts entries with distinct ids and credentials, none of them
\* the admin's or the discovery's.
Resolves(next) ==
    LET specs == client_specs(next)
    IN  /\ \A e, f \in specs : e # f => e.id # f.id /\ Psk(e) # Psk(f)
        /\ \A e \in specs : Psk(e).value \notin Reserved

client_table(next) ==
    LET specs == client_specs(next)
    IN  [i \in {e.id : e \in specs} |->
            Psk(CHOOSE e \in specs : e.id = i)]

Lookup(t, i) == IF i \in DOMAIN t THEN t[i] ELSE NoPsk

AccessTypeOK ==
    /\ list \subseteq AccessEntry
    /\ Resolves(list)
    /\ DOMAIN table \subseteq Id
    /\ accessFile \in SUBSET AccessEntry \cup {Malformed}
    /\ \A m \in Admin : admin[m].at \in
           {"idle", "edited", "rendered", "saved", "refused", "unsaved"}
    /\ saver \in Admin \cup {"nobody"}
    /\ watch.at \in {"off", "waiting", "read"}
    /\ \A c \in Conn : conns[c].at \in {"new", "handshake", "live", "gone"}
    /\ edits \in 0..MaxEdits

\* With no list of its own an edit starts from the --client entries.
Base == IF list = {} THEN Cli ELSE list


\* update_clients with an edit that went through: the new table is installed
\* and the registered sessions whose credential it removed or changed are
\* cancelled. A handshake in flight is marked (history) when the update changed
\* the id it is about to authenticate.
Update(next) ==
    LET new == client_table(next)
        Differs(i) == Lookup(table, i) # Lookup(new, i)
    IN  /\ list' = next
        /\ table' = new
        /\ conns' = [c \in Conn |->
               CASE conns[c].at = "live" /\ Differs(conns[c].id)
                        -> [conns[c] EXCEPT !.cancelled = TRUE]
                 [] conns[c].at = "handshake"
                        -> [conns[c] EXCEPT !.outdated =
                               @ \cup {i \in Id : Differs(i)}]
                 [] OTHER -> conns[c]]

-----------------------------------------------------------------------------
\* What the request's edit makes of the list; {} of lists when it is refused.
Edited(req) ==
    CASE req.kind = "add" ->
             IF \E e \in Base : e.id = req.entry.id THEN {}
             ELSE {Base \cup {req.entry}}
      [] req.kind = "set" ->
             IF \E e \in Base : e.id = req.entry.id
             THEN {{e \in Base : e.id # req.entry.id} \cup {req.entry}} ELSE {}
      [] req.kind = "remove" ->
             IF \E e \in Base : e.id = req.entry.id
             THEN {{e \in Base : e.id # req.entry.id}} ELSE {}

\* apply_sync_mutation of a client request, up to the save.
AdminEdit(m, req) ==
    /\ admin[m].at = "idle"
    /\ \/ \E next \in Edited(req) :
              /\ Resolves(next)
              /\ Update(next)
              /\ admin' = [admin EXCEPT ![m] = [@ EXCEPT !.at = "edited", !.req = req]]
       \/ /\ \A next \in Edited(req) : ~Resolves(next)
          /\ admin' = [admin EXCEPT ![m] = [@ EXCEPT !.at = "refused", !.req = req]]
          /\ UNCHANGED <<list, table, conns>>
    /\ UNCHANGED <<accessFile, saver, watch, event, edits, behind>>

\* persist takes save_lock and renders the list as it is now.
Render(m) ==
    /\ admin[m].at = "edited"
    /\ saver = "nobody"
    /\ saver' = m
    /\ admin' = [admin EXCEPT ![m] = [@ EXCEPT !.at = "rendered", !.text = list]]
    /\ UNCHANGED <<list, table, accessFile, watch, event, conns, edits, behind>>

\* save_atomic that goes unnoticed: the rename raises no event.
SaveUnseen(m) ==
    /\ admin[m].at = "rendered"
    /\ saver' = "nobody"
    /\ accessFile' = admin[m].text
    /\ behind' = FALSE
    /\ admin' = [admin EXCEPT ![m] = [@ EXCEPT !.at = "saved"]]
    /\ UNCHANGED <<list, table, watch, event, conns, edits>>

\* save_atomic renames the new text into place, which the watch sees; the
\* exchange answers (true, "").
Save(m) ==
    /\ admin[m].at = "rendered"
    /\ saver' = "nobody"
    /\ accessFile' = admin[m].text
    /\ event' = (watch.at # "off")
    /\ behind' = FALSE
    /\ admin' = [admin EXCEPT ![m] = [@ EXCEPT !.at = "saved"]]
    /\ UNCHANGED <<list, table, watch, conns, edits>>

\* The write fails: the edit stays in memory and the exchange answers false.
SaveFails(m) ==
    /\ admin[m].at = "rendered"
    /\ saver' = "nobody"
    /\ behind' = TRUE
    /\ admin' = [admin EXCEPT ![m] = [@ EXCEPT !.at = "unsaved"]]
    /\ UNCHANGED <<list, table, accessFile, watch, event, conns, edits>>

\* The operator saves the file.
OperatorEdit(text) ==
    /\ edits > 0
    /\ EarlyEdit \/ watch.at # "off"
    /\ text # accessFile
    /\ accessFile' = text
    /\ event' = (watch.at # "off")
    /\ edits' = edits - 1
    /\ UNCHANGED <<list, table, admin, saver, watch, conns, behind>>

-----------------------------------------------------------------------------
\* FileWatch::new, once the server has bound its listeners.
WatchStarts ==
    /\ watch.at = "off"
    /\ watch' = [watch EXCEPT !.at = "waiting"]
    /\ UNCHANGED <<list, table, accessFile, admin, saver, event, conns, edits, behind>>

\* changed() returns and reload_clients reads the file.
ReadFile ==
    /\ watch.at = "waiting"
    /\ event
    /\ event' = FALSE
    /\ watch' = [at |-> "read", text |-> accessFile]
    /\ UNCHANGED <<list, table, accessFile, admin, saver, conns, edits, behind>>

\* reload_clients replaces the list by what it read; a text that does not load
\* or resolve changes nothing.
Apply ==
    /\ watch.at = "read"
    /\ watch' = [at |-> "waiting", text |-> {}]
    /\ IF watch.text # Malformed /\ Resolves(watch.text)
       THEN Update(watch.text) /\ behind' = FALSE
       ELSE behind' = TRUE /\ UNCHANGED <<list, table, conns>>
    /\ UNCHANGED <<accessFile, admin, saver, event, edits>>

-----------------------------------------------------------------------------
\* A connection is accepted and its handshake takes the table as it is.
Handshake(c) ==
    /\ conns[c].at = "new"
    /\ conns' = [conns EXCEPT ![c] = [@ EXCEPT !.at = "handshake", !.creds = table]]
    /\ UNCHANGED <<list, table, accessFile, admin, saver, watch, event, edits, behind>>

\* The handshake authenticates one of the clients of the table it holds, and
\* register_client admits it: no live session holds its id.
Register(c, i) ==
    /\ conns[c].at = "handshake"
    /\ i \in DOMAIN conns[c].creds
    /\ \A d \in Conn : conns[d].at = "live" => conns[d].id # i
    /\ conns' = [conns EXCEPT ![c] =
           [at |-> "live", creds |-> <<>>, id |-> i, psk |-> conns[c].creds[i],
            cancelled |-> FALSE, outdated |-> @.outdated]]
    /\ UNCHANGED <<list, table, accessFile, admin, saver, watch, event, edits, behind>>

\* The session's loop sees its cancel, or the link ends, and unregisters.
SessionEnds(c) ==
    /\ conns[c].at = "live"
    /\ conns' = [conns EXCEPT ![c] = [at |-> "gone"]]
    /\ UNCHANGED <<list, table, accessFile, admin, saver, watch, event, edits, behind>>

\* boot: credentials() accepts the file the server was started with.
AccessInit ==
    /\ accessFile \in Texts \ {Malformed}
    /\ Resolves(accessFile)
    /\ list = accessFile
    /\ table = client_table(accessFile)
    /\ admin = [m \in Admin |-> [at |-> "idle", req |-> NoRequest, text |-> {}]]
    /\ saver = "nobody"
    /\ watch = [at |-> "off", text |-> {}]
    /\ event = FALSE
    /\ conns = [c \in Conn |-> [at |-> "new", creds |-> <<>>, id |-> "none",
                                psk |-> NoPsk, cancelled |-> FALSE,
                                outdated |-> {}]]
    /\ edits = MaxEdits
    /\ behind = FALSE

Requests == [kind : Request, entry : AccessEntry]

AccessIdle == UNCHANGED accessVars

AccessNext ==
    \/ \E m \in Admin : \/ \E req \in Requests : AdminEdit(m, req)
                        \/ Render(m) \/ Save(m) \/ SaveFails(m)
    \/ \E text \in Texts : OperatorEdit(text)
    \/ WatchStarts \/ ReadFile \/ Apply
    \/ \E c \in Conn : \/ Handshake(c) \/ SessionEnds(c)
                       \/ \E i \in Id : Register(c, i)
    \/ AccessIdle

\* Tasks that have something to do are scheduled, and a write returns.
AccessDue(i, m) ==
    \/ i = 1 /\ (WatchStarts \/ ReadFile \/ Apply)
    \/ i = 2 /\ (Render(m) \/ Save(m) \/ SaveFails(m))

AccessSpec == AccessInit /\ [][AccessNext]_accessVars

-----------------------------------------------------------------------------
\* A session outlives a change of its credential by its cancellation only: one
\* that is registered and not cancelled holds the credential the table lists,
\* unless the change fell inside its handshake (update_clients, handle_incoming).
SessionsFollowTheTable ==
    \A c \in Conn :
        /\ conns[c].at = "live"
        /\ ~conns[c].cancelled
        /\ conns[c].id \notin conns[c].outdated
        => Lookup(table, conns[c].id) = conns[c].psk

\* Admin edits, operator edits and reloads of the daemon's own saves settle:
\* once they stop, the file and the running server agree on who may connect, or
\* the last save failed or the last text was refused (persist, watch_clients).
FileAndServerSettleThen == behind \/ list = accessFile

\* No accepted client list ever hides a lockout: a list the file or an edit
\* failed to produce leaves the clients that were authorised in place
\* (update_clients: "A failed edit, or a list that does not resolve, changes
\* nothing").
RefusedChangesNothing ==
    (\E m \in Admin : admin[m].at = "idle" /\ admin'[m].at = "refused")
     \/ (watch.at = "read" /\ watch'.at = "waiting"
         /\ (watch.text = Malformed \/ ~Resolves(watch.text)))
     => UNCHANGED <<list, table, conns>>

-----------------------------------------------------------------------------
(***************************************************************************)
(* Several admin exchanges at once on one server (src/src/server.rs):      *)
(* every exchange is a session of its own that opens with AdminHello, and  *)
(* in mode 1 sends one mutation, which is applied to one of the three      *)
(* tables the config file holds (listeners, routes, clients), saved and    *)
(* then answered.  The saves go through `save_lock`; the text of a save is *)
(* copied table by table, so the other sessions mutate between the copies. *)
(*                                                                         *)
(* One step is one critical section of a table, the taking of save_lock,   *)
(* or the blocking write.  The write itself replaces the whole file or     *)
(* nothing (module SaveFile).  The watch that reloads `[[clients]]` from   *)
(* an edited file is module ServerAccess and is left out here: no operator *)
(* edits the file, and no client comes from the command line.              *)
(***************************************************************************)
CONSTANTS
    Session,      \* admin exchanges
    Listener,     \* listener keys
    Route,        \* route keys
    Client,       \* client ids
    Pinned,       \* listeners and routes the command line gives
    MaxCrashes,   \* bound: crashes of the server
    MaxFailures   \* bound: saves the disk refuses

SaveEntry == Listener \cup Route \cup Client
Tables == <<Listener, Route, Client>>

BoundsNat == MaxCrashes \in Nat /\ MaxFailures \in Nat
PinnedEntries == Pinned \subseteq Listener \cup Route

VARIABLES
    backed,   \* does the node have a config file (config_path)
    mem,      \* the owner of every entry: "absent", "cli", "file" or "runtime"
    saveFile,     \* the entries the config file holds
    lock,     \* the session holding save_lock, or "free"
    sess,     \* sess[s]: the exchange
    last,     \* ghost: the session whose mutation touched the entry last
    dirty,    \* ghost: a save failed and none has succeeded since
    left      \* what remains of the bounds

saveVars == <<backed, mem, saveFile, lock, sess, last, dirty, left>>

NoSession == "none"
Fresh == [at |-> "new", op |-> "none", entry |-> "none", text |-> {}, copied |-> 0]
Live == {"new", "mutate", "applied", "copying"}
Over == {"ok", "refused", "unsaved", "closed", "crashed"}

Ended(x, how) == [x EXCEPT !.at = how, !.text = {}, !.copied = 0]

SaveTypeOK ==
    /\ backed \in BOOLEAN
    /\ mem \in [SaveEntry -> {"absent", "cli", "file", "runtime"}]
    /\ saveFile \subseteq SaveEntry
    /\ lock \in Session \cup {"free"}
    /\ \A s \in Session :
         /\ sess[s].at \in Live \cup Over
         /\ sess[s].op \in {"none", "add", "remove"}
         /\ sess[s].entry \in SaveEntry \cup {"none"}
         /\ sess[s].text \subseteq SaveEntry
         /\ sess[s].copied \in 0..3
    /\ last \in [SaveEntry -> Session \cup {NoSession}]
    /\ dirty \in BOOLEAN
    /\ left \in [crashes : 0..MaxCrashes, failures : 0..MaxFailures]

-----------------------------------------------------------------------------
(* The hello: a wrong version or an unknown mode ends the session; mode 0  *)
(* is a snapshot (module ServerConsole), mode 1 announces a mutation.      *)
Hello(s, version, mode) ==
    /\ sess[s].at = "new"
    /\ sess' = [sess EXCEPT ![s].at =
                  CASE version # "ours"  -> "closed"
                    [] mode = 0          -> "closed"
                    [] mode = 1          -> "mutate"
                    [] OTHER             -> "closed"]
    /\ UNCHANGED <<backed, mem, saveFile, lock, last, dirty, left>>

\* The admin announced a mutation and never sent it.
RequestTimesOut(s) ==
    /\ sess[s].at = "mutate"
    /\ sess' = [sess EXCEPT ![s].at = "closed"]
    /\ UNCHANGED <<backed, mem, saveFile, lock, last, dirty, left>>

mutation_source == IF backed THEN "file" ELSE "runtime"

\* What a table refuses: a listener or a client that is already there or not
\* there, a listener the command line pins.  Routes are simply set and cleared.
Refuses(op, e) ==
    CASE e \in Route  -> FALSE
      [] op = "add"   -> mem[e] # "absent"
      [] OTHER        -> mem[e] = "absent" \/ e \in Listener \cap Pinned

Applied(op, e) == [mem EXCEPT ![e] = IF op = "add" THEN mutation_source ELSE "absent"]

\* The table is changed under its own lock, before any save.
Mutate(s, op, e) ==
    /\ sess[s].at = "mutate"
    /\ IF Refuses(op, e)
       THEN /\ sess' = [sess EXCEPT ![s].at = "refused"]
            /\ UNCHANGED <<mem, last>>
       ELSE /\ mem' = Applied(op, e)
            /\ last' = [last EXCEPT ![e] = s]
            /\ sess' = [sess EXCEPT ![s] = [@ EXCEPT !.at = "applied", !.op = op, !.entry = e]]
    /\ UNCHANGED <<backed, saveFile, lock, dirty, left>>

\* A node without a config file has nothing to save.
SkipSave(s) ==
    /\ sess[s].at = "applied"
    /\ ~backed
    /\ sess' = [sess EXCEPT ![s].at = "ok"]
    /\ UNCHANGED <<backed, mem, saveFile, lock, last, dirty, left>>

Lock(s) ==
    /\ sess[s].at = "applied"
    /\ backed
    /\ lock = "free"
    /\ lock' = s
    /\ sess' = [sess EXCEPT ![s].at = "copying"]
    /\ UNCHANGED <<backed, mem, saveFile, last, dirty, left>>

\* Of a table, a save takes what the file owns.
OwnedByFile(t) == {e \in t : mem[e] = "file"}

\* One table copied under its lock; the next one is copied later.
Copy(s) ==
    /\ sess[s].at = "copying"
    /\ sess[s].copied < 3
    /\ LET n == sess[s].copied + 1
       IN sess' = [sess EXCEPT ![s] = [@ EXCEPT !.text = @ \cup OwnedByFile(Tables[n]),
                                                !.copied = n]]
    /\ UNCHANGED <<backed, mem, saveFile, lock, last, dirty, left>>

\* The blocking write succeeds, the lock is released and the verdict sent.
Write(s) ==
    /\ sess[s].at = "copying"
    /\ sess[s].copied = 3
    /\ saveFile' = sess[s].text
    /\ lock' = "free"
    /\ sess' = [sess EXCEPT ![s] = Ended(@, "ok")]
    /\ dirty' = FALSE
    /\ UNCHANGED <<backed, mem, last, left>>


\* The write fails: the mutation stays in memory and the verdict is negative.
WriteFails(s) ==
    /\ sess[s].at = "copying"
    /\ sess[s].copied = 3
    /\ left.failures > 0
    /\ left' = [left EXCEPT !.failures = @ - 1]
    /\ lock' = "free"
    /\ sess' = [sess EXCEPT ![s] = Ended(@, "unsaved")]
    /\ dirty' = TRUE
    /\ UNCHANGED <<backed, mem, saveFile, last>>

\* The server dies and boots again from the file and its command line.
Booted == [e \in SaveEntry |-> CASE e \in saveFile   -> "file"
                             [] e \in Pinned -> "cli"
                             [] OTHER        -> "absent"]

Crash ==
    /\ left.crashes > 0
    /\ left' = [left EXCEPT !.crashes = @ - 1]
    /\ mem' = Booted
    /\ lock' = "free"
    /\ dirty' = FALSE
    /\ sess' = [s \in Session |-> IF sess[s].at \in Live \ {"new"}
                                  THEN Ended(sess[s], "crashed") ELSE sess[s]]
    /\ UNCHANGED <<backed, saveFile, last>>

-----------------------------------------------------------------------------
SaveInit ==
    /\ backed \in BOOLEAN
    /\ saveFile = {}
    /\ mem = [e \in SaveEntry |-> IF e \in Pinned THEN "cli" ELSE "absent"]
    /\ lock = "free"
    /\ sess = [s \in Session |-> Fresh]
    /\ last = [e \in SaveEntry |-> NoSession]
    /\ dirty = FALSE
    /\ left = [crashes |-> MaxCrashes, failures |-> MaxFailures]

SaveIdle == UNCHANGED saveVars

SaveNext ==
    \/ \E s \in Session, version \in {"ours", "other"}, mode \in 0..2 : Hello(s, version, mode)
    \/ \E s \in Session : RequestTimesOut(s)
    \/ \E s \in Session, op \in {"add", "remove"}, e \in SaveEntry : Mutate(s, op, e)
    \/ \E s \in Session : SkipSave(s)
    \/ \E s \in Session : Lock(s)
    \/ \E s \in Session : Copy(s)
    \/ \E s \in Session : Write(s)
    \/ \E s \in Session : WriteFails(s)
    \/ Crash
    \/ SaveIdle

(* Tasks run on, the blocking thread ends, save_lock is a fair queue.       *)
SaveDue(s) == SkipSave(s) \/ Copy(s) \/ Write(s) \/ WriteFails(s)
SaveInsisted(s) == Lock(s)

SaveSpec == SaveInit /\ [][SaveNext]_saveVars

-----------------------------------------------------------------------------
Owned == {e \in SaveEntry : mem[e] = "file"}
InFlight == {s \in Session : sess[s].at \in {"applied", "copying"}}

(* An admin that was told ok finds its mutation in the file from then on,  *)
(* crashes included, unless a later mutation touched the same entry: no    *)
(* save under way when it was applied may write an older text over it.     *)
AckedIsDurable ==
    backed => \A e \in SaveEntry :
        (last[e] # NoSession /\ sess[last[e]].at = "ok")
            => (e \in saveFile <=> sess[last[e]].op = "add")

(* With no save under way and no failed one outstanding the file holds     *)
(* exactly what the file owns in memory: nothing of the command line, and  *)
(* also what an earlier failed save had left out.                          *)
QuietFileIsTrue == (backed /\ InFlight = {} /\ ~dirty) => saveFile = Owned

(* Every applied mutation is answered, however many saves queue up.        *)
EveryMutationIsAnsweredWhen(s) == sess[s].at = "applied"
EveryMutationIsAnsweredThen(s) == sess[s].at \in Over
=============================================================================
