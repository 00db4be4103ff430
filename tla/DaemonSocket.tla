------------------------------ MODULE DaemonSocket ------------------------------
(***************************************************************************)
(* The life of the daemons of one user (secretd/src/main.rs: serve,        *)
(* build_engine, bind_uds; config.rs: StoreConfig).  A daemon resolves its *)
(* store from the environment and the config file, opens the engine on it, *)
(* and then takes the control socket: a socket file that answers belongs   *)
(* to a running daemon, one that does not is removed.  On a signal it      *)
(* drains, closes its listener and removes the file at the path.  Nothing  *)
(* but that file coordinates two daemons, a crash leaves it behind, and    *)
(* every check of the path is a call of its own.                           *)
(*                                                                         *)
(* A socket is the daemon that bound it.  File system errors other than a  *)
(* path that is there, or is not there, are left out.                      *)
(***************************************************************************)
CONSTANTS
  Daemon,   \* the processes ever started
  Setting   \* the environments and config files they may find

BackendText == {"unset", "blank", "inmem", "libsql", "other"}
UrlText == {"unset", "blank", "http_loopback", "http_remote", "tls_loopback", "bare"}
TokenVar == {"unset", "blank", "given"}
TokenFile == {"unset", "private", "open", "missing"}

ASSUME SettingAssumption ==
  Setting \subseteq [envBackend : BackendText, envUrl : UrlText,
                     fileBackend : BackendText, fileUrl : UrlText,
                     tokenVar : TokenVar, tokenFile : TokenFile]

VARIABLES
  pc,         \* how far each daemon is
  store,      \* the store it was configured for: a set of one, or none
  path,       \* the socket at the path of the control socket, if any
  listening,  \* the sockets whose listener is open
  tight,      \* the sockets whose file is 0600
  muddled     \* history: two daemons were at the path at once, since one was alive

vars == <<pc, store, path, listening, tight, muddled>>

-----------------------------------------------------------------------------
(***************************************************************************)
(* The configuration.  A refusal is the empty set.                         *)
(***************************************************************************)
Nothing == {"unset", "blank"}

(* The environment goes before the file, unless it is empty. *)
Override(env, file) == IF env \in Nothing THEN file ELSE env

(* load_token: the variable, or else the file, which only its owner may read. *)
LoadToken(s) ==
  IF s.tokenVar = "given" THEN {"variable"}
  ELSE CASE s.tokenFile = "unset" -> {"empty"}
         [] s.tokenFile = "private" -> {"file"}
         [] OTHER -> {}

(* split_scheme_host, host_is_loopback, url_is_acceptable: plain text to this host only. *)
Acceptable(url) == url = "http_loopback"

Resolve(backend, url, token) ==
  CASE backend \in Nothing \cup {"inmem"} ->
         {[backend |-> "inmem", url |-> "unset", token |-> "empty"]}
    [] backend = "libsql" /\ Acceptable(url) ->
         {[backend |-> "libsql", url |-> url, token |-> token]}
    [] OTHER -> {}

(* Mutant: the file is validated when it is read, the environment overrides it later. *)
LoadFileChecked(s) ==
  UNION {{[c EXCEPT !.url = Override(s.envUrl, c.url)] :
             c \in Resolve(Override(s.envBackend, s.fileBackend), s.fileUrl, token)} :
           token \in LoadToken(s)}

Load(s) ==
  UNION {Resolve(Override(s.envBackend, s.fileBackend),
                 Override(s.envUrl, s.fileUrl), token) : token \in LoadToken(s)}

Outcome == {Load(s) : s \in Setting}

-----------------------------------------------------------------------------
AtPath == {"connect", "remove", "bind", "chmod", "cleanup"}
Gone == {"off", "ended", "crashed"}
Label == AtPath \cup Gone \cup {"configure", "build", "exists", "serving", "draining"}

Init ==
  /\ pc = [d \in Daemon |-> "off"]
  /\ store = [d \in Daemon |-> {}]
  /\ path = {}
  /\ listening = {}
  /\ tight = {}
  /\ muddled = FALSE

Goto(d, label) == pc' = [pc EXCEPT ![d] = label]

(* The process ends: the kernel closes its listener. *)
Vanish(d, label) ==
  /\ Goto(d, label)
  /\ store' = [store EXCEPT ![d] = {}]
  /\ listening' = listening \ {d}

Fail(d) == Vanish(d, "ended") /\ UNCHANGED <<path, tight>>

Start(d) ==
  /\ pc[d] = "off"
  /\ Goto(d, "configure")
  /\ UNCHANGED <<store, path, listening, tight>>

Configure(d) ==
  /\ pc[d] = "configure"
  /\ \E outcome \in Outcome :
       IF outcome = {}
       THEN Fail(d)
       ELSE /\ store' = [store EXCEPT ![d] = outcome]
            /\ Goto(d, "build")
            /\ UNCHANGED <<path, listening, tight>>

(* build_engine: only a database can be out of reach. *)
Build(d) ==
  /\ pc[d] = "build"
  /\ \/ Goto(d, "exists") /\ UNCHANGED <<store, path, listening, tight>>
     \/ (\E c \in store[d] : c.backend = "libsql") /\ Fail(d)

(* bind_uds.  Mutant: a stale socket is not looked for. *)
ExistsNever(d) ==
  /\ pc[d] = "exists"
  /\ Goto(d, "bind")
  /\ UNCHANGED <<store, path, listening, tight>>

Exists(d) ==
  /\ pc[d] = "exists"
  /\ Goto(d, IF path = {} THEN "bind" ELSE "connect")
  /\ UNCHANGED <<store, path, listening, tight>>

(* Mutant: a socket found is removed without a probe. *)
ConnectNever(d) ==
  /\ pc[d] = "connect"
  /\ Goto(d, "remove")
  /\ UNCHANGED <<store, path, listening, tight>>

(* The probe: whoever answers is a running daemon; any error means there is none. *)
Connect(d) ==
  /\ pc[d] = "connect"
  /\ IF path \cap listening # {}
     THEN Fail(d)
     ELSE Goto(d, "remove") /\ UNCHANGED <<store, path, listening, tight>>

(* What is at the path now goes, whatever was there at the probe. *)
Remove(d) ==
  /\ pc[d] = "remove"
  /\ IF path = {}
     THEN Fail(d)
     ELSE path' = {} /\ Goto(d, "bind") /\ UNCHANGED <<store, listening, tight>>

(* Mutant: a file at the path is no obstacle. *)
BindBeside(d) ==
  /\ pc[d] = "bind"
  /\ path' = path \cup {d}
  /\ listening' = listening \cup {d}
  /\ Goto(d, "chmod")
  /\ UNCHANGED <<store, tight>>

(* Mutant: the daemon serves on the mode the umask left. *)
BindAndServe(d) ==
  /\ pc[d] = "bind"
  /\ IF path # {}
     THEN Fail(d)
     ELSE /\ path' = {d}
          /\ listening' = listening \cup {d}
          /\ Goto(d, "serving")
          /\ UNCHANGED <<store, tight>>

(* The file is created with a mode that the umask decides, *)
Bind(d) ==
  /\ pc[d] = "bind"
  /\ IF path # {}
     THEN Fail(d)
     ELSE /\ path' = {d}
          /\ listening' = listening \cup {d}
          /\ Goto(d, "chmod")
          /\ UNCHANGED <<store, tight>>

(* and the one at the path by now becomes 0600. *)
Chmod(d) ==
  /\ pc[d] = "chmod"
  /\ IF path = {}
     THEN Fail(d)
     ELSE tight' = tight \cup path /\ Goto(d, "serving") /\ UNCHANGED <<store, path, listening>>

(* SIGINT or SIGTERM: requests under way are finished, the listener still open, *)
Signal(d) ==
  /\ pc[d] = "serving"
  /\ Goto(d, "draining")
  /\ UNCHANGED <<store, path, listening, tight>>

(* then server::serve returns, which closes it, *)
Stop(d) ==
  /\ pc[d] = "draining"
  /\ listening' = listening \ {d}
  /\ Goto(d, "cleanup")
  /\ UNCHANGED <<store, path, tight>>

(* and whatever is at the path is removed. *)
Cleanup(d) ==
  /\ pc[d] = "cleanup"
  /\ Vanish(d, "ended")
  /\ path' = {}
  /\ UNCHANGED tight

(* A crash, a kill, or a signal before the handlers are installed. *)
Crash(d) ==
  /\ pc[d] \notin Gone
  /\ Vanish(d, "crashed")
  /\ UNCHANGED <<path, tight>>

(* History: daemons that took or left the path at the same time; it is forgotten when  *)
(* none is alive.                                                                      *)
Watch ==
  muddled' = /\ \E d \in Daemon : pc'[d] \notin Gone
             /\ muddled \/ \E d, e \in Daemon : d # e /\ {pc'[d], pc'[e]} \subseteq AtPath

Next ==
  /\ \E d \in Daemon :
       \/ Start(d) \/ Configure(d) \/ Build(d)
       \/ Exists(d) \/ Connect(d) \/ Remove(d) \/ Bind(d) \/ Chmod(d)
       \/ Signal(d) \/ Stop(d) \/ Cleanup(d) \/ Crash(d)
  /\ Watch

Spec == Init /\ [][Next]_vars

-----------------------------------------------------------------------------
(***************************************************************************)
(* Properties.                                                             *)
(***************************************************************************)

(* Every variable has its type, and only a daemon that has bound its socket listens.   *)
TypeOK ==
  /\ pc \in [Daemon -> Label]
  /\ store \in [Daemon -> SUBSET UNION Outcome]
  /\ path \in {{}} \cup {{d} : d \in Daemon}
  /\ listening = {d \in Daemon : pc[d] \in {"chmod", "serving", "draining"}}
  /\ tight \subseteq Daemon
  /\ muddled \in BOOLEAN

(* "a successful connection means a daemon is already running -> bail" (main.rs:171-172):  *)
(* whatever crashed before and whoever tries to start, clients reach the daemon that   *)
(* serves, so that there is only one; unless daemons came or went at the path at once. *)
ServingIsReachable ==
  ~muddled => \A d \in Daemon : pc[d] \in {"chmod", "serving", "draining"} => path = {d}

(* "the socket may be group/other-readable" only in "the window between the two"       *)
(* (main.rs:185-186): no daemon serves at the path on a socket that is not 0600, even  *)
(* when another removed, replaced or changed the file in that window.                  *)
SocketIsPrivate ==
  \A d \in path : pc[d] \in {"serving", "draining", "cleanup"} => d \in tight

(* "stale-socket reaped" (main.rs:12): what crashed daemons left never keeps one from  *)
(* starting: with a store it can open, it fails only at a socket somebody listens on.  *)
OnlyLiveDaemonsBlock ==
  [][\A d \in Daemon :
       pc[d] \in AtPath \ {"cleanup"} /\ pc'[d] = "ended" =>
         muddled \/ \E e \in listening \ {d} : path = {e}]_vars

(* "The auth token + metadata + write-integrity would otherwise cross the network in   *)
(* the clear" (config.rs:21-22): however environment and file are combined, the daemon *)
(* talks to a store on this host or in its memory, and its token was not lying open.   *)
TokenStaysOnHost ==
  \A d \in Daemon : \A c \in store[d] :
    /\ c.url \in {"unset", "http_loopback"}
    /\ c.backend = "libsql" <=> c.url # "unset"
    /\ c.token # "empty" => c.backend = "libsql" /\ c.token \in {"variable", "file"}
=============================================================================
