----------------------------- MODULE Deployment -----------------------------
(***************************************************************************)
(* Installation and upgrade: the steps that replace a deployed service and *)
(* put it back when they fail, and the reading of the release they fetch.  *)
(***************************************************************************)
EXTENDS Integers, Sequences, FiniteSets, SequencesExt

(***************************************************************************)
(* A host's zeronat installed and upgraded (installer install.rs, sys.rs;  *)
(* upgrade.rs; install-support): the installer's install and its upgrade,  *)
(* and zeronat upgrade, each a sequence of commands against systemd,       *)
(* docker and the release server.  A step is one command; commands fail,   *)
(* releases are published in between, the tool may be killed.  The host    *)
(* bridge is HostBridge's.                                                 *)
(***************************************************************************)
CONSTANTS
    Methods,        \* how it may be deployed: of {"systemd", "compose", "run"}
    Switch,         \* whether a later install may choose another method
    Tools,          \* what is run after the first install: of {"install", "offer", "upgrade"}
    Versions,       \* the last release
    Runs,           \* how often a tool is run
    Faults,         \* how many commands fail
    MayFail,        \* which
    Slips,          \* how many releases have a manifest of the release before
    Kills           \* how often a tool is killed

VARIABLES
    latest,         \* the version releases/latest leads to
    man,            \* the version the signed manifest under a tag speaks of
    host,           \* files, service, image and container
    tool,           \* the tool that runs, or what is left of the last one
    left            \* budgets

deployVars == <<latest, man, host, tool, left>>

-----------------------------------------------------------------------------
Partial == -1       \* a binary cut short
Corrupt == -2       \* one that is not the release's
Unknown == -3       \* a version that could not be read

\* The run options of a container, by what they are for.
Opts == {"cmd", "network", "restart", "caps", "devices", "confine", "binds"}
Off == [ver |-> 0, cfg |-> 0, env |-> 0, opts |-> {}, by |-> "none"]

Bare == [env |-> 0, unit |-> 0, loaded |-> 0, bin |-> 0, svc |-> Off, image |-> 0, ctr |-> Off, compose |-> FALSE,
         port |-> "none", tmp |-> 0]
Idle == [kind |-> "none", method |-> "none", cfg |-> 0, todo |-> <<>>, ver |-> 0, man |-> 0, got |-> 0, opts |-> {},
         result |-> "none", found |-> {}, offer |-> 0, before |-> Bare, cause |-> "none"]

DeployInit ==
    /\ latest = 1 /\ man = [v \in 1..Versions |-> v] /\ host = Bare /\ tool = Idle
    /\ left = [runs |-> Runs, faults |-> Faults, slips |-> Slips, kills |-> Kills, method |-> "none", cfg |-> 0,
               killed |-> FALSE]

\* The control port belongs to whoever has bound it; the other keeps restarting until it is free.
Bind(h) ==
    LET held == (h.port = "svc" /\ h.svc # Off) \/ (h.port = "ctr" /\ h.ctr # Off)
    IN  [h EXCEPT !.port = IF held THEN @ ELSE IF h.svc # Off THEN "svc" ELSE IF h.ctr # Off THEN "ctr" ELSE "none"]

-----------------------------------------------------------------------------
(* The commands of each tool, in order. *)

\* Everything is fetched from the tag that was resolved.
FromTag == << "manifest", "signature", "verify", "tempfile", "binary", "prepare", "check", "bin_open", "bin_write" >>

download_binary == << "resolve" >> \o FromTag

install_systemd == << "arch" >> \o download_binary \o << "unit", "daemon_reload", "enable", "restart" >>

install_docker(method) ==
    << "rm_quiet" >> \o IF method = "compose" THEN << "compose_fetch", "compose_file", "compose_pull", "compose_up" >>
                        ELSE << "pull", "fresh_opts", "run" >>

execute(method) ==
    << "mkdir", "env" >> \o IF method = "systemd" THEN install_systemd ELSE install_docker(method)

upgrade_systemd == << "arch" >> \o download_binary \o << "restart" >>

recreate_container == << "inspect", "rm", "run" >>

upgrade_docker == IF host.compose THEN << "compose_pull", "compose_up" >> ELSE << "pull" >> \o recreate_container

upgrade_systemd_with == << "arch" >> \o FromTag \o << "restart" >>
recreate_run == << "env_there", "inspect", "rm", "run" >>

upgrade_docker_cli == IF host.compose THEN << "compose_pull", "compose_up" >> ELSE << "pull" >> \o recreate_run

-----------------------------------------------------------------------------
(* Probes. *)
systemd_version == IF host.unit # 0 /\ host.bin # 0 THEN {IF host.bin > 0 THEN host.bin ELSE Unknown} ELSE {}

\* A compose file counts as a deployment, container or not.
docker_deployment == IF host.ctr # Off THEN {host.ctr.ver} ELSE IF host.compose THEN {Unknown} ELSE {}

\* A version that cannot be read is taken to be behind.
version_newer(l, current) == current = Unknown \/ l > current

\* The installer's probe of the same two deployments.
installed == [systemd |-> systemd_version, docker |-> docker_deployment]

Behind(l) == {d \in {"systemd", "docker"} : \E v \in installed[d] : version_newer(l, v)}

-----------------------------------------------------------------------------
(* What a command needs, beyond luck, and what it does. *)

ArtifactListed == tool.got = tool.ver

Works(c) ==
    CASE c = "verify"     -> tool.man = tool.ver
      [] c = "check"      -> ArtifactListed
      [] c = "compose_up" -> host.ctr.by \in {"none", "compose"}
      [] c = "run"        -> host.ctr = Off
      [] c = "env_there"  -> host.env # 0
      [] OTHER            -> TRUE

DownloadFile(h) == [h EXCEPT !.tmp = @ + 1]
DropDownload(h) == [h EXCEPT !.tmp = 0]

\* A failed write of env file, unit or compose file leaves the old one.
place(h, file, cfg) == [h EXCEPT ![file] = cfg]

Started == [Off EXCEPT !.ver = host.bin, !.cfg = host.loaded, !.env = host.env]
Container(opts, by, cfg) == [ver |-> host.image, cfg |-> cfg, env |-> host.env, opts |-> opts, by |-> by]

\* A container made again has the command line of the one before; compose reads it from the env file.
OnHost(c) ==
    CASE c = "env"            -> place(host, "env", tool.cfg)
      [] c = "tempfile"       -> DownloadFile(host)
      [] c = "bin_open"       -> [host EXCEPT !.bin = Partial]
      [] c = "bin_write"      -> DropDownload([host EXCEPT !.bin = tool.got])
      [] c = "unit"           -> place(host, "unit", tool.cfg)
      [] c = "daemon_reload"  -> [host EXCEPT !.loaded = host.unit]
      [] c = "restart"        -> Bind([host EXCEPT !.svc = Started])
      [] c \in {"rm", "rm_quiet"} -> Bind([host EXCEPT !.ctr = Off])
      [] c = "compose_file"   -> place(host, "compose", TRUE)
      [] c \in {"pull", "compose_pull"} -> [host EXCEPT !.image = latest]
      [] c = "compose_up"     -> Bind([host EXCEPT !.ctr = Container(Opts, "compose", host.env)])
      [] c = "run"            -> Bind([host EXCEPT !.ctr = Container(tool.opts, "run", tool.cfg)])
      [] OTHER                -> host

\* What zeronat upgrade reads back of a container, and what the installer does.
Carried(kind) == IF kind = "upgrade" THEN Opts \ {"confine", "binds"} ELSE Opts

ResolveLatest == [tool EXCEPT !.ver = latest]
fetch_small == [tool EXCEPT !.man = man[tool.ver]]

OnTool(c) ==
    CASE c = "resolve"    -> ResolveLatest
      [] c = "manifest"   -> fetch_small
      [] c = "binary"     -> [tool EXCEPT !.got = tool.ver]
      [] c = "fresh_opts" -> [tool EXCEPT !.opts = Opts]
      [] c = "inspect"    -> [tool EXCEPT !.opts = Carried(tool.kind), !.cfg = host.ctr.cfg]
      [] OTHER            -> tool

Running == tool.todo # <<>>
Cmd == Head(tool.todo)
Charged == left' = [left EXCEPT !.faults = @ - 1]
Ends(t, h) == IF t.todo = <<>> THEN [t EXCEPT !.result = "done"] ELSE t

\* A command goes well.
Succeeds ==
    /\ Running /\ Works(Cmd)
    /\ host' = OnHost(Cmd) /\ tool' = Ends([OnTool(Cmd) EXCEPT !.todo = Tail(@)], host)
    /\ UNCHANGED <<latest, man, left>>

\* A failed command ends the tool with its message; the download's directory goes with it.
Fails ==
    /\ Running /\ (~Works(Cmd) \/ (Cmd \in MayFail /\ left.faults > 0)) /\ Cmd \notin {"rm_quiet", "inspect"}
    /\ IF Works(Cmd) THEN Charged ELSE UNCHANGED left
    /\ host' = DropDownload(host)
    /\ tool' = [tool EXCEPT !.todo = <<>>, !.result = "failed", !.cause = Cmd]
    /\ UNCHANGED <<latest, man>>

\* The first docker rm may fail, a docker inspect that fails reads as nothing.
FailsQuietly ==
    /\ Running /\ Cmd \in MayFail \cap {"rm_quiet", "inspect"} /\ left.faults > 0 /\ Charged
    /\ \E o \in Carried(tool.kind) \ {"network", "restart"} :
         tool' = [tool EXCEPT !.todo = Tail(@), !.cfg = IF Cmd = "inspect" THEN host.ctr.cfg ELSE @,
                              !.opts = IF Cmd = "inspect" THEN Carried(tool.kind) \ {o} ELSE @]
    /\ UNCHANGED <<latest, man, host>>

\* The transfer ends well with other bytes than the release's.
Garbled ==
    /\ Running /\ Cmd = "binary" /\ "garble" \in MayFail /\ left.faults > 0 /\ Charged
    /\ tool' = [tool EXCEPT !.todo = Tail(@), !.got = Corrupt] /\ UNCHANGED <<latest, man, host>>

-----------------------------------------------------------------------------
(* The operator, the releases, a kill. *)
Fresh(kind) == ~Running /\ left.runs > 0 /\ kind \in Tools \cup {"install"}
Begin(t) == tool' = [t EXCEPT !.before = host]

Install(method) ==
    /\ Fresh("install") /\ (left.method = "none" \/ ("install" \in Tools /\ (Switch \/ left.method = method)))
    /\ Begin([Idle EXCEPT !.kind = "install", !.method = method, !.cfg = left.cfg + 1, !.todo = execute(method)])
    /\ left' = [left EXCEPT !.runs = @ - 1, !.method = method, !.cfg = @ + 1]
    /\ UNCHANGED <<latest, man, host>>

Steps(behind, systemd, docker) ==
    (IF "systemd" \in behind THEN systemd ELSE <<>>) \o (IF "docker" \in behind THEN docker ELSE <<>>)

\* The installer's upgrade starts over with what the offer names.
upgrade == << "accept" >> \o Steps(Behind(latest), upgrade_systemd, upgrade_docker)

latest_version == latest

\* zeronat upgrade: the deployments are probed, the latest release is resolved, those behind are upgraded.
run_upgrade ==
    /\ Fresh("upgrade") /\ left.method # "none"
    /\ LET found == {d \in {"systemd", "docker"} : installed[d] # {}}
           todo == Steps(Behind(latest_version), upgrade_systemd_with, upgrade_docker_cli)
       IN  Begin([Idle EXCEPT !.kind = "upgrade", !.ver = latest_version, !.found = found, !.todo = todo,
                              !.result = IF found = {} THEN "nothing" ELSE IF todo = <<>> THEN "done" ELSE "none"])
    /\ left' = [left EXCEPT !.runs = @ - 1] /\ UNCHANGED <<latest, man, host>>

\* The installer offers an upgrade when something is behind, and goes ahead when the operator says so.
upgrade_offer ==
    /\ Fresh("offer") /\ left.method # "none" /\ Behind(latest) # {}
    /\ Begin([Idle EXCEPT !.kind = "offer", !.ver = latest, !.offer = latest, !.found = Behind(latest),
                          !.todo = upgrade])
    /\ left' = [left EXCEPT !.runs = @ - 1] /\ UNCHANGED <<latest, man, host>>

Publish ==
    /\ latest < Versions /\ latest' = latest + 1
    /\ \E slip \in {FALSE} \cup (IF left.slips > 0 THEN {TRUE} ELSE {}) :
         /\ man' = IF slip THEN [man EXCEPT ![latest + 1] = latest] ELSE man
         /\ left' = IF slip THEN [left EXCEPT !.slips = @ - 1] ELSE left
    /\ UNCHANGED <<host, tool>>

Killed ==
    /\ Running /\ left.kills > 0 /\ left' = [left EXCEPT !.kills = @ - 1, !.killed = TRUE]
    /\ tool' = [tool EXCEPT !.todo = <<>>, !.result = "killed", !.cause = "kill"] /\ UNCHANGED <<latest, man, host>>

Over == ~Running /\ left.runs = 0 /\ latest = Versions /\ UNCHANGED deployVars
Waits == ~Running /\ left.runs > 0 /\ latest = Versions /\ UNCHANGED deployVars

DeployNext ==
    \/ \E m \in Methods : Install(m)
    \/ run_upgrade \/ upgrade_offer \/ Succeeds \/ Fails \/ FailsQuietly \/ Garbled \/ Publish \/ Killed \/ Over \/ Waits

DeploySpec == DeployInit /\ [][DeployNext]_deployVars

-----------------------------------------------------------------------------
\* Versions and configurations are ones that exist, and at most one download is under way.
TypeOK ==
    /\ host.bin \in {Partial, Corrupt} \cup 0..Versions /\ host.image \in 0..Versions /\ host.tmp \in 0..1
    /\ {host.env, host.unit, host.loaded, host.svc.cfg, host.ctr.cfg} \subseteq 0..left.cfg
    /\ host.port \in {"none", "svc", "ctr"} /\ tool.result \in {"none", "done", "failed", "killed", "nothing"}

\* No binary is put in place that is not the one its release's signed manifest lists (download_binary).
VerifiedOnly ==
    /\ host.bin # Corrupt /\ (host.bin > 0 => man[host.bin] = host.bin)
    /\ tool.kind \in {"install", "upgrade"} /\ tool.result = "done" /\ tool.got # 0 => host.bin = tool.ver

\* An install that reports the service running runs it, as configured, on the binary or image it fetched,
\* and it holds the control port (execute: "zeronat ... is running").
InstallApplied ==
    tool.kind = "install" /\ tool.result = "done" =>
      IF tool.method = "systemd"
      THEN host.svc = [Off EXCEPT !.ver = host.bin, !.cfg = tool.cfg, !.env = tool.cfg] /\ host.port = "svc"
      ELSE /\ host.ctr.ver = host.image /\ host.ctr.cfg = tool.cfg /\ host.ctr.env = tool.cfg /\ host.ctr.opts = Opts
           /\ host.port = "ctr"

\* An upgrade that reports success leaves every deployment it found running the release it compared with, or a later one.
UpgradeReported ==
    tool.kind \in {"upgrade", "offer"} /\ tool.result = "done" =>
      /\ "systemd" \in tool.found => host.svc.ver >= tool.ver
      /\ "docker" \in tool.found => host.ctr.ver >= tool.ver

\* A container made again runs with every option of the one before.
ConfigCarried == host.ctr # Off => host.ctr.opts = Opts

\* Tools that were not killed leave no download behind.
TempGone == ~Running /\ ~left.killed => host.tmp = 0

\* An upgrade that fails before it stops anything leaves what was running as it was.
FailureKeepsService ==
    tool.kind \in {"upgrade", "offer"} /\ tool.result = "failed" /\ tool.cause \notin {"run", "rm", "restart", "compose_up"} =>
      \/ host.svc = tool.before.svc /\ host.ctr = tool.before.ctr
      \/ host.svc.ver > tool.before.svc.ver /\ host.ctr = tool.before.ctr

\* A tool fails because a command did, or because the release's manifest is not the tag's.
FailsForCause ==
    tool.result = "failed" => left.faults < Faults \/ \E v \in 1..Versions : man[v] # v

-----------------------------------------------------------------------------
(***************************************************************************)
(* A signed release manifest parsed line by line and a downloaded file     *)
(* checked against its entry chunk by chunk (install-support release.rs).  *)
(* Names are numbers in their byte order; a size is the text it is written *)
(* as; a digest is the content it is the digest of.                        *)
(***************************************************************************)
CONSTANTS Names, Limit, MaxLines, MaxData, Chunk

VARIABLES
    signed,     \* whether the signature is the key's over these bytes
    lines,      \* the manifest's lines after its header
    data,       \* the file that was downloaded
    at,         \* the next line, or the next byte of the file
    prev, entries, remaining, hashed,
    res         \* "parse", "read", or how it ended

releaseVars == <<signed, lines, data, at, prev, entries, remaining, hashed, res>>

Bytes == {0, 1}
Files == UNION {[1..n -> Bytes] : n \in 0..MaxData}
\* Sizes as written: a number, or one with a leading zero.
Sizes == {[n |-> n, zero |-> FALSE] : n \in 0..(Limit + 1)} \cup {[n |-> 1, zero |-> TRUE]}
Digests == {f \in Files : Len(f) \in 1..2}
Line == [name : Names, size : Sizes, digest : Digests]
Wanted == CHOOSE n \in Names : \A m \in Names : n <= m

ReleaseInit ==
    /\ signed \in BOOLEAN /\ lines \in UNION {[1..n -> Line] : n \in 0..MaxLines} /\ data \in Files
    /\ at = 1 /\ prev = 0 /\ entries = <<>> /\ remaining = 0 /\ hashed = <<>>
    /\ res = IF signed THEN "parse" ELSE "unsigned"

size_ok(s) == ~s.zero /\ s.n # 0 /\ s.n <= Limit

name_ok(p, n) == p < n

\* One line of the manifest; any defect refuses the whole.
parse ==
    /\ res = "parse" /\ at <= Len(lines)
    /\ LET l == lines[at]
       IN  IF size_ok(l.size) /\ name_ok(prev, l.name)
           THEN /\ entries' = [n \in DOMAIN entries \cup {l.name} |->
                                 IF n = l.name THEN [digest |-> l.digest, size |-> l.size.n] ELSE entries[n]]
                /\ prev' = l.name /\ at' = at + 1 /\ UNCHANGED res
           ELSE res' = "malformed" /\ UNCHANGED <<entries, prev, at>>
    /\ UNCHANGED <<signed, lines, data, remaining, hashed>>

\* The end of the manifest; the file's entry is looked up.
parsed ==
    /\ res = "parse" /\ at > Len(lines)
    /\ res' = IF entries = <<>> THEN "malformed" ELSE IF Wanted \notin DOMAIN entries THEN "unlisted" ELSE "read"
    /\ at' = 1 /\ remaining' = IF res' = "read" THEN entries[Wanted].size ELSE 0
    /\ UNCHANGED <<signed, lines, data, prev, entries, hashed>>

\* One read of the file: n bytes of what is left of it.
verify_artifact(n) ==
    IF n = 0
    THEN /\ res' = IF remaining = 0 /\ hashed = entries[Wanted].digest THEN "ok" ELSE "mismatch"
         /\ UNCHANGED <<at, remaining, hashed>>
    ELSE IF n > remaining THEN res' = "mismatch" /\ UNCHANGED <<at, remaining, hashed>>
    ELSE /\ hashed' = hashed \o SubSeq(data, at, at + n - 1) /\ remaining' = remaining - n
         /\ at' = at + n /\ UNCHANGED res

Read ==
    /\ res = "read" /\ \E n \in 0..Chunk :
         n <= Len(data) - at + 1 /\ (n = 0 => at > Len(data)) /\ verify_artifact(n)
    /\ UNCHANGED <<signed, lines, data, prev, entries>>

Ended == res \notin {"parse", "read"} /\ UNCHANGED releaseVars

ReleaseNext == parse \/ parsed \/ Read \/ Ended

ReleaseSpec == ReleaseInit /\ [][ReleaseNext]_releaseVars

-----------------------------------------------------------------------------
\* What is hashed never exceeds the signed size, however the reads fall (verify_artifact).
Bounded == res = "read" => remaining >= 0 /\ Len(hashed) + remaining = entries[Wanted].size

\* A manifest that is accepted is the only one with its content: its lines are its entries in the order of their names.
Canonical ==
    res \in {"read", "ok", "mismatch", "unlisted"} =>
      /\ Len(lines) = Cardinality(DOMAIN entries)
      /\ lines = [i \in 1..Len(lines) |->
                    LET n == SetToSortSeq(DOMAIN entries, <)[i]
                    IN  [name |-> n, size |-> [n |-> entries[n].size, zero |-> FALSE], digest |-> entries[n].digest]]

\* A file is accepted exactly when the signed manifest lists its size and its content, however it was read.
AcceptedIsListed ==
    /\ res = "ok" => /\ signed
                     /\ \E i \in 1..Len(lines) : /\ lines[i].name = Wanted /\ lines[i].digest = data
                                                 /\ lines[i].size = [n |-> Len(data), zero |-> FALSE]
    /\ res = "mismatch" => entries[Wanted] # [digest |-> data, size |-> Len(data)]
=============================================================================
