------------------------------- MODULE Engine -------------------------------
(***************************************************************************)
(* Engine.Reconcile: discover, diff, apply, verify, else roll back, with   *)
(* the managers it drives (firewall, HAProxy, WireGuard) and what those    *)
(* remember between transactions: lastAdd, lastDel, the iptables snapshot, *)
(* the last HAProxy backup and the interfaces created.                     *)
(*                                                                         *)
(* Of a chain we keep, for each port mapping, the sequence of the          *)
(* addresses that its rules lead to: rules of different mappings match     *)
(* different traffic, so their order among each other does not matter.     *)
(* HAProxy's file is its managed section (a route set, whose digest it     *)
(* carries, rendered for a backend address).                               *)
(* One command is one operation; an action that runs several can fail, or  *)
(* the process be killed, after any prefix of them.  Discover only reads,  *)
(* so a discovery that fails or meets a conflict is a stuttering step.     *)
(* Legacy chains, other hosts' rules and SSH units are left out.           *)
(***************************************************************************)
EXTENDS Naturals, Sequences, FiniteSets, SequencesExt

CONSTANTS
    NumMappings,   \* mappings are numbered in the order of their comments
    Addresses,     \* addresses a backend may have
    NumRouteSets,  \* SNI route sets 1..NumRouteSets; 0 is no route
    Ifaces,        \* interfaces of the WireGuard tunnels
    Systemctl,     \* haproxy_reload: systemctl (TRUE) or external (FALSE)
    MaxChanges,    \* bound: changes of the desired state
    MaxFaults      \* bound: failed commands, kills and reboots

Mappings == 1..NumMappings
Chains == {"DNAT", "FORWARD", "SNAT"}
Rules == [chain : Chains, id : Mappings, to : Addresses]
Tables == [Chains -> [Mappings -> Seq(Addresses)]]
Kinds == {"ADD", "CHANGE", "DELETE", "KEEP"}
Desired == [want : SUBSET Mappings, addr : Addresses, routes : 0..NumRouteSets]

ASSUME EngineConstants ==
    /\ NumMappings \in Nat /\ NumRouteSets \in Nat
    /\ MaxChanges \in Nat /\ MaxFaults \in Nat
    /\ Systemctl \in BOOLEAN /\ Addresses # {} /\ "none" \notin Addresses

EmptyConfig == [routes |-> 0, addr |-> "none"]
Configs == [routes : 1..NumRouteSets, addr : Addresses] \cup {EmptyConfig}

VARIABLES
    desired,     \* the (effective) desired state Reconcile is called with
    (* host *)
    chain,       \* where the managed rules lead, per chain and mapping
    hooked,      \* chains that exist and are jumped to
    cfg,         \* managed section of haproxy.cfg
    running,     \* the one HAProxy has loaded
    ifc,         \* "absent", "bare" (created, not configured) or "up"
    (* memory of the managers *)
    snapshot,    \* {} or the last iptables-save
    lastAdd,     \* rules added
    lastDel,     \* rules deleted
    lastBackup,  \* {} or the HAProxy section in the last backup
    created,     \* createdIfaces
    (* the transaction *)
    pc,
    todo,        \* what is left of the plan
    cause,       \* what failed: "apply" or "verify"
    rbErr,       \* has rollback met an error?
    result,      \* of the last Reconcile
    (* bounds and history *)
    changes,
    faults,
    before,      \* the host when the transaction began
    exact        \* does rollback know everything this transaction did to the rules?

hostVars == <<chain, hooked, cfg, running, ifc>>
memVars == <<snapshot, lastAdd, lastDel, lastBackup, created>>
txVars == <<pc, todo, cause, rbErr, result, before, exact>>
vars == <<desired, hostVars, memVars, txVars, changes, faults>>

NoPlan == [tun |-> {}, hap |-> "done", base |-> FALSE, fw |-> [m \in Mappings |-> "KEEP"]]

-----------------------------------------------------------------------------
(* reconcile.Diff *)

(* Mutant: a rule to another address is not noticed. *)
FirewallKindByPresence(d, ch, m) ==
    LET have == ch["DNAT"][m]
    IN  CASE m \in d.want /\ have = <<>> -> "ADD"
          [] m \notin d.want /\ have # <<>> -> "DELETE"
          [] OTHER -> "KEEP"

(* Only the DNAT chain is compared, and the last rule of a mapping counts. *)
FirewallKind(d, ch, m) ==
    LET have == ch["DNAT"][m]
    IN  CASE m \in d.want /\ have = <<>> -> "ADD"
          [] m \notin d.want /\ have # <<>> -> "DELETE"
          [] m \in d.want /\ have # <<>> /\ Last(have) # d.addr -> "CHANGE"
          [] OTHER -> "KEEP"

(* The digest covers the routes, not the addresses they are rendered with; *)
(* an interface without address or port is not seen as changed.            *)
Diff(d, ch, c, i) ==
    LET fw == [m \in Mappings |-> FirewallKind(d, ch, m)]
    IN  [tun |-> {n \in Ifaces : i[n] = "absent"},
         hap |-> IF c.routes # d.routes THEN "write" ELSE "done",
         base |-> \E m \in Mappings : fw[m] # "KEEP",
         fw |-> fw]

-----------------------------------------------------------------------------
(* iptables commands. *)

Commands(kind, rules) == [i \in DOMAIN rules |-> [kind |-> kind, rule |-> rules[i]]]

(* -D deletes the first match and fails without one; -A needs the chain. *)
Possible(ch, cmd) ==
    LET r == cmd.rule IN
    IF cmd.kind = "A" THEN r.chain \in hooked
    ELSE \E i \in DOMAIN ch[r.chain][r.id] : ch[r.chain][r.id][i] = r.to

Do(ch, cmd) ==
    LET r == cmd.rule IN
    [ch EXCEPT ![r.chain][r.id] =
        IF cmd.kind = "A" THEN Append(@, r.to) ELSE RemoveFirst(@, r.to)]

(* The chains after the first 0, 1, ... of the commands. *)
Run(ch, cmds) ==
    LET after[k \in 0..Len(cmds)] == IF k = 0 THEN ch ELSE Do(after[k - 1], cmds[k])
    IN  after
RunAll(ch, cmds) == Run(ch, cmds)[Len(cmds)]

RulesIn(ch, c, m) == [i \in DOMAIN ch[c][m] |-> [chain |-> c, id |-> m, to |-> ch[c][m][i]]]

(* Mutant: only the chain that Diff compares is cleaned. *)
RulesOfDnatOnly(ch, m) == RulesIn(ch, "DNAT", m)

(* deleteByCommentCopy: every rule of the mapping, chain by chain. *)
RulesOf(ch, m) == RulesIn(ch, "DNAT", m) \o RulesIn(ch, "FORWARD", m) \o RulesIn(ch, "SNAT", m)

(* addMappingRules *)
RulesFor(m, addr) ==
    <<[chain |-> "DNAT", id |-> m, to |-> addr],
      [chain |-> "FORWARD", id |-> m, to |-> addr],
      [chain |-> "SNAT", id |-> m, to |-> addr]>>

(* What one action of the plan deletes and adds. *)
Deleted(kind, m) == IF kind = "ADD" THEN <<>> ELSE RulesOf(chain, m)
Added(kind, m) == IF kind = "DELETE" THEN <<>> ELSE RulesFor(m, desired.addr)

(* Mutant: a CHANGE adds without deleting. *)
ActionCmdsAddOnly(kind, m) ==
    Commands("D", IF kind = "DELETE" THEN Deleted(kind, m) ELSE <<>>) \o Commands("A", Added(kind, m))

ActionCmds(kind, m) == Commands("D", Deleted(kind, m)) \o Commands("A", Added(kind, m))

(* Mutant: deleted rules are not put back. *)
UndoCmdsAddsOnly == Commands("D", Reverse(lastAdd))

(* IptablesNftManager.Rollback: the inverse of what is on record. *)
UndoCmds == Commands("D", Reverse(lastAdd)) \o Commands("A", lastDel)

(* Undoing works up to the k-th command. *)
Works(k) == Possible(Run(chain, UndoCmds)[k - 1], UndoCmds[k])
WorksBefore(k) == \A j \in 1..(k - 1) : Works(j)

-----------------------------------------------------------------------------
Host == [chain |-> chain, cfg |-> cfg, ifc |-> ifc]
NoRules == [c \in Chains |-> [m \in Mappings |-> <<>>]]

Init ==
    /\ desired = [want |-> {}, addr |-> CHOOSE x \in Addresses : TRUE, routes |-> 0]
    /\ chain = NoRules
    /\ hooked = {}
    /\ cfg = EmptyConfig
    /\ running = EmptyConfig
    /\ ifc = [i \in Ifaces |-> "absent"]
    /\ snapshot = {}
    /\ lastAdd = <<>>
    /\ lastDel = <<>>
    /\ lastBackup = {}
    /\ created = {}
    /\ pc = "idle"
    /\ todo = NoPlan
    /\ cause = "none"
    /\ rbErr = FALSE
    /\ result = "none"
    /\ changes = 0
    /\ faults = 0
    /\ before = Host
    /\ exact = FALSE

Faults(n) ==
    /\ faults + n <= MaxFaults
    /\ faults' = faults + n

(* Something failed: roll back, HAProxy first. *)
Fail(why) ==
    /\ pc' = "undoHap"
    /\ cause' = why
    /\ rbErr' = FALSE
    /\ todo' = NoPlan
    /\ UNCHANGED <<desired, result, before, changes>>

(* What a transaction in progress leaves alone. *)
Continue == UNCHANGED <<desired, pc, cause, rbErr, result, before, exact, changes>>

(* Reconcile is called with another desired state from now on. *)
ChangeDesired ==
    /\ pc = "idle"
    /\ changes < MaxChanges
    /\ changes' = changes + 1
    /\ desired' \in Desired \ {desired}
    /\ result' = "none"
    /\ UNCHANGED <<hostVars, memVars, pc, todo, cause, rbErr, before, exact, faults>>

(* Mutant: no BeginTx. *)
BeginKeepingCreated ==
    LET p == Diff(desired, chain, cfg, ifc) IN
    /\ pc = "idle"
    /\ before' = Host
    /\ IF p = NoPlan
       THEN /\ result' = "no changes"
            /\ UNCHANGED <<pc, todo, exact>>
       ELSE /\ result' = "none"
            /\ pc' = "apply"
            /\ todo' = p
            /\ exact' = (p.base /\ \A m \in Mappings : p.fw[m] # "CHANGE")
    /\ UNCHANGED <<desired, hostVars, memVars, cause, rbErr, changes, faults>>

(* Discover and Diff: no changes, or WG.BeginTx and on to applyPlan. *)
Begin ==
    LET p == Diff(desired, chain, cfg, ifc) IN
    /\ pc = "idle"
    /\ before' = Host
    /\ IF p = NoPlan
       THEN /\ result' = "no changes"
            /\ UNCHANGED <<created, pc, todo, exact>>
       ELSE /\ result' = "none"
            /\ created' = {}
            /\ pc' = "apply"
            /\ todo' = p
            /\ exact' = (p.base /\ \A m \in Mappings : p.fw[m] # "CHANGE")
    /\ UNCHANGED <<desired, hostVars, snapshot, lastAdd, lastDel, lastBackup, cause, rbErr,
                   changes, faults>>

(* WGManager.Apply, for a tunnel whose interface was missing. *)
ApplyTunnel ==
    /\ pc = "apply"
    /\ \E i \in todo.tun :
          /\ ifc' = [ifc EXCEPT ![i] = "up"]
          /\ created' = created \cup {i}
          /\ todo' = [todo EXCEPT !.tun = @ \ {i}]
    /\ Continue
    /\ UNCHANGED <<chain, hooked, cfg, running, snapshot, lastAdd, lastDel, lastBackup, faults>>

ApplyTunnelFails ==
    /\ pc = "apply"
    /\ \E i \in todo.tun :
          \/ UNCHANGED <<ifc, created>>
          \/ ifc' = [ifc EXCEPT ![i] = "bare"] /\ created' = created \cup {i}
    /\ Faults(1)
    /\ Fail("apply")
    /\ exact' = FALSE
    /\ UNCHANGED <<chain, hooked, cfg, running, snapshot, lastAdd, lastDel, lastBackup>>

(* Mutant: an empty route set is rendered, too. *)
RenderedAlways(d) == [routes |-> d.routes, addr |-> d.addr]

(* haproxy Manager.Apply: back up, write by rename ... *)
Rendered(d) ==
    IF d.routes = 0 THEN EmptyConfig ELSE [routes |-> d.routes, addr |-> d.addr]

HapTurn(step) == pc = "apply" /\ todo.tun = {} /\ todo.hap = step

WriteHaproxy ==
    /\ HapTurn("write")
    /\ lastBackup' = {cfg}
    /\ cfg' = Rendered(desired)
    /\ todo' = [todo EXCEPT !.hap = "reload"]
    /\ Continue
    /\ UNCHANGED <<chain, hooked, running, ifc, snapshot, lastAdd, lastDel, created, faults>>

WriteHaproxyFails ==
    /\ HapTurn("write")
    /\ lastBackup' \in {lastBackup, {cfg}}
    /\ Faults(1)
    /\ Fail("apply")
    /\ exact' = FALSE
    /\ UNCHANGED <<hostVars, snapshot, lastAdd, lastDel, created>>

(* ... validate and reload ... *)
ReloadHaproxy ==
    /\ HapTurn("reload")
    /\ running' = IF Systemctl THEN cfg ELSE running
    /\ todo' = [todo EXCEPT !.hap = "done"]
    /\ Continue
    /\ UNCHANGED <<chain, hooked, cfg, ifc, memVars, faults>>

(* ... or put the file back, best effort, and reload that. *)
ReloadHaproxyFails ==
    /\ HapTurn("reload")
    /\ \/ Faults(1) /\ cfg' \in lastBackup
       \/ Faults(2) /\ cfg' = cfg
    /\ running' \in {running} \cup (IF Systemctl THEN {cfg'} ELSE {})
    /\ Fail("apply")
    /\ exact' = FALSE
    /\ UNCHANGED <<chain, hooked, ifc, memVars>>

(* IptablesNftManager.Apply: backup and ensureInfrastructure ... *)
FwTurn(base) == HapTurn("done") /\ todo.base = base

PrepareFirewall ==
    /\ FwTurn(TRUE)
    /\ snapshot' = {[chain |-> chain, hooked |-> hooked]}
    /\ hooked' = Chains
    /\ lastAdd' = <<>>
    /\ lastDel' = <<>>
    /\ todo' = [todo EXCEPT !.base = FALSE]
    /\ Continue
    /\ UNCHANGED <<chain, cfg, running, ifc, lastBackup, created, faults>>

PrepareFirewallFails ==
    /\ FwTurn(TRUE)
    /\ \/ UNCHANGED <<snapshot, hooked>>
       \/ /\ snapshot' = {[chain |-> chain, hooked |-> hooked]}
          /\ hooked' \in {s \in SUBSET Chains : hooked \subseteq s}
    /\ Faults(1)
    /\ Fail("apply")
    /\ exact' = FALSE
    /\ UNCHANGED <<chain, cfg, running, ifc, lastAdd, lastDel, lastBackup, created>>

(* ... then the plan's actions, in the order of their comments.  Deletions *)
(* of a CHANGE are not recorded, nor is anything of an action that fails.  *)
Current(m) == todo.fw[m] # "KEEP" /\ \A n \in 1..(m - 1) : todo.fw[n] = "KEEP"

ApplyRule ==
    /\ FwTurn(FALSE)
    /\ \E m \in Mappings :
          LET kind == todo.fw[m] IN
          /\ Current(m)
          /\ chain' = RunAll(chain, ActionCmds(kind, m))
          /\ lastAdd' = lastAdd \o Added(kind, m)
          /\ lastDel' = IF kind = "DELETE" THEN lastDel \o Deleted(kind, m) ELSE lastDel
          /\ todo' = [todo EXCEPT !.fw[m] = "KEEP"]
    /\ Continue
    /\ UNCHANGED <<hooked, cfg, running, ifc, snapshot, lastBackup, created, faults>>

ApplyRuleFails ==
    /\ FwTurn(FALSE)
    /\ \E m \in Mappings :
          LET cmds == ActionCmds(todo.fw[m], m) IN
          /\ Current(m)
          /\ \E k \in 0..(Len(cmds) - 1) : chain' = Run(chain, cmds)[k]
    /\ Faults(1)
    /\ Fail("apply")
    /\ exact' = FALSE
    /\ UNCHANGED <<hooked, cfg, running, ifc, memVars>>

(* The second Discover and Diff. *)
Applied == FwTurn(FALSE) /\ \A m \in Mappings : todo.fw[m] = "KEEP"

Verify ==
    /\ Applied
    /\ Diff(desired, chain, cfg, ifc) = NoPlan
    /\ pc' = "idle"
    /\ result' = "applied"
    /\ exact' = FALSE
    /\ UNCHANGED <<desired, hostVars, memVars, todo, cause, rbErr, before, changes, faults>>

VerifyFails ==
    /\ Applied
    /\ \/ Diff(desired, chain, cfg, ifc) # NoPlan /\ UNCHANGED faults
       \/ Faults(1)
    /\ Fail("verify")
    /\ UNCHANGED <<hostVars, memVars, exact>>

-----------------------------------------------------------------------------
(* Engine.rollback: HAProxy, firewall, created interfaces; errors are      *)
(* collected and the next manager is rolled back all the same.             *)

UndoHaproxy ==
    /\ pc = "undoHap"
    /\ cfg' \in IF lastBackup = {} THEN {cfg} ELSE lastBackup
    /\ running' = IF Systemctl /\ lastBackup # {} THEN cfg' ELSE running
    /\ pc' = "undoFw"
    /\ UNCHANGED <<desired, chain, hooked, ifc, memVars, todo, cause, rbErr, result, before, exact,
                   changes, faults>>

UndoHaproxyFails ==
    /\ pc = "undoHap"
    /\ lastBackup # {}
    /\ Faults(1)
    /\ cfg' \in {cfg} \cup lastBackup
    /\ pc' = "undoFw"
    /\ rbErr' = TRUE
    /\ UNCHANGED <<desired, chain, hooked, running, ifc, memVars, todo, cause, result, before,
                   exact, changes>>

UndoFirewall ==
    /\ pc = "undoFw"
    /\ WorksBefore(Len(UndoCmds) + 1)
    /\ chain' = RunAll(chain, UndoCmds)
    /\ lastAdd' = <<>>
    /\ lastDel' = <<>>
    /\ pc' = "undoWg"
    /\ UNCHANGED <<desired, hooked, cfg, running, ifc, snapshot, lastBackup, created, todo, cause,
                   rbErr, result, before, exact, changes, faults>>

(* A command fails: the whole snapshot is restored instead, if it can be,  *)
(* and the records are kept.                                               *)
RestoreSnapshot ==
    /\ pc = "undoFw"
    /\ \E k \in 1..Len(UndoCmds) :
          /\ WorksBefore(k)
          /\ LET n == IF Works(k) THEN 1 ELSE 0 IN
             \/ /\ Faults(n)
                /\ \E s \in snapshot : chain' = s.chain /\ hooked' = s.hooked
                /\ UNCHANGED rbErr
             \/ /\ Faults(n + 1)
                /\ chain' = Run(chain, UndoCmds)[k - 1]
                /\ rbErr' = TRUE
                /\ UNCHANGED hooked
    /\ pc' = "undoWg"
    /\ UNCHANGED <<desired, cfg, running, ifc, memVars, todo, cause, result, before, exact, changes>>

(* The transaction is over.  After a failed verification the caller is     *)
(* told "rolled back" whatever rollback returned.                          *)
UndoTunnels ==
    /\ pc = "undoWg"
    /\ \/ ifc' = [i \in Ifaces |-> IF i \in created THEN "absent" ELSE ifc[i]] /\ UNCHANGED <<rbErr, faults>>
       \/ /\ created # {}
          /\ Faults(1)
          /\ rbErr' = TRUE
          /\ \E left \in SUBSET created :
                /\ left # {}
                /\ ifc' = [i \in Ifaces |-> IF i \in created \ left THEN "absent" ELSE ifc[i]]
    /\ result' = IF cause = "verify" \/ ~rbErr' THEN "rolled back" ELSE "failed"
    /\ pc' = "idle"
    /\ exact' = FALSE
    /\ UNCHANGED <<desired, chain, hooked, cfg, running, memVars, todo, cause, before, changes>>

-----------------------------------------------------------------------------
ForgetProcess ==
    /\ snapshot' = {} /\ lastAdd' = <<>> /\ lastDel' = <<>> /\ lastBackup' = {} /\ created' = {}
    /\ pc' = "idle" /\ todo' = NoPlan /\ cause' = "none" /\ rbErr' = FALSE
    /\ result' = "none" /\ exact' = FALSE
    /\ UNCHANGED <<desired, changes, before>>

(* The agent is killed, between two steps or inside one. *)
Crash ==
    /\ Faults(1)
    /\ \/ UNCHANGED <<chain, ifc>>
       \/ /\ pc = "apply"
          /\ \E i \in todo.tun : ifc' = [ifc EXCEPT ![i] = "bare"]
          /\ UNCHANGED chain
       \/ /\ FwTurn(FALSE)
          /\ \E m \in Mappings :
                LET cmds == ActionCmds(todo.fw[m], m) IN
                Current(m) /\ \E k \in 1..Len(cmds) : chain' = Run(chain, cmds)[k]
          /\ UNCHANGED ifc
       \/ /\ pc = "undoFw"
          /\ \E k \in 1..Len(UndoCmds) :
                WorksBefore(k) /\ chain' = Run(chain, UndoCmds)[k - 1]
          /\ UNCHANGED ifc
    /\ ForgetProcess
    /\ UNCHANGED <<hooked, cfg, running>>

(* The host reboots: rules and interfaces are gone, HAProxy starts from    *)
(* its file.                                                               *)
Reboot ==
    /\ Faults(1)
    /\ chain' = NoRules
    /\ hooked' = {}
    /\ ifc' = [i \in Ifaces |-> "absent"]
    /\ running' = cfg
    /\ ForgetProcess
    /\ UNCHANGED cfg

(* haproxy_reload: external - a pass of the host's watcher at any time,    *)
(* seen from the agent (HaproxyReload has the script itself).  It reloads  *)
(* what it finds; a pass that is skipped, cut off or never started is no   *)
(* step ...                                                                *)
WatcherReload ==
    /\ ~Systemctl
    /\ running # cfg
    /\ running' = cfg
    /\ UNCHANGED <<desired, chain, hooked, cfg, ifc, memVars, txVars, changes, faults>>

(* ... or fails, before or after HAProxy has taken the file, and puts an   *)
(* earlier version over it, in the middle of a transaction too.            *)
WatcherRestores ==
    /\ ~Systemctl
    /\ Faults(1)
    /\ cfg' \in Configs \ {cfg}
    /\ running' \in {running, cfg}
    /\ UNCHANGED <<desired, chain, hooked, ifc, memVars, txVars, changes>>

Progress ==
    \/ Begin
    \/ ApplyTunnel
    \/ WriteHaproxy
    \/ ReloadHaproxy
    \/ PrepareFirewall
    \/ ApplyRule
    \/ Verify
    \/ VerifyFails
    \/ UndoHaproxy
    \/ UndoFirewall
    \/ RestoreSnapshot
    \/ UndoTunnels

CommandFails ==
    \/ ApplyTunnelFails
    \/ WriteHaproxyFails
    \/ ReloadHaproxyFails
    \/ PrepareFirewallFails
    \/ ApplyRuleFails
    \/ UndoHaproxyFails

Next ==
    \/ ChangeDesired
    \/ Progress
    \/ CommandFails
    \/ Crash
    \/ Reboot
    \/ WatcherReload
    \/ WatcherRestores

Spec == Init /\ [][Next]_vars

(* The agent calls Reconcile once per tick and every command returns.      *)
(* Nothing is assumed of the watcher.                                      *)
FairSpec == Spec /\ WF_vars(Progress)

-----------------------------------------------------------------------------
Count(s, x) == Cardinality({i \in DOMAIN s : s[i] = x})
SameRules(c1, c2) ==
    \A c \in Chains, m \in Mappings, x \in Addresses : Count(c1[c][m], x) = Count(c2[c][m], x)

(* Type invariant. *)
TypeOK ==
    /\ desired \in Desired
    /\ chain \in Tables
    /\ hooked \in SUBSET Chains
    /\ cfg \in Configs /\ running \in Configs
    /\ ifc \in [Ifaces -> {"absent", "bare", "up"}]
    /\ snapshot \in SUBSET [chain : Tables, hooked : SUBSET Chains]
    /\ lastAdd \in Seq(Rules) /\ lastDel \in Seq(Rules)
    /\ lastBackup \in SUBSET Configs
    /\ created \in SUBSET Ifaces
    /\ pc \in {"idle", "apply", "undoHap", "undoFw", "undoWg"}
    /\ todo \in [tun : SUBSET Ifaces, hap : {"write", "reload", "done"}, base : BOOLEAN,
                 fw : [Mappings -> Kinds]]
    /\ cause \in {"none", "apply", "verify"}
    /\ rbErr \in BOOLEAN /\ exact \in BOOLEAN
    /\ result \in {"none", "no changes", "applied", "rolled back", "failed"}
    /\ changes \in 0..MaxChanges /\ faults \in 0..MaxFaults

(* A mapping never has DNAT rules to two addresses: not while a CHANGE is  *)
(* half done, not when rollback replays the records or the snapshot of an  *)
(* earlier transaction, not after kills.  (Diff looks at the last rule,    *)
(* the kernel uses the first.)                                             *)
OneDestination ==
    \A m \in Mappings : LET to == chain["DNAT"][m] IN
        \A i, j \in DOMAIN to : to[i] = to[j]

(* As long as no command fails, a Reconcile that reports success leaves    *)
(* exactly one rule per wanted mapping in each of the three chains - the   *)
(* two that Diff does not compare included - HAProxy running the file, and *)
(* every interface configured; whatever the desired states before were.    *)
FaultFreeIsExact ==
    faults = 0 /\ result \in {"applied", "no changes"} =>
        /\ \A c \in Chains, m \in Mappings :
              chain[c][m] = IF m \in desired.want THEN <<desired.addr>> ELSE <<>>
        /\ cfg.routes = desired.routes
        /\ Systemctl => running = cfg
        /\ \A i \in Ifaces : ifc[i] = "up"

(* If everything a transaction did was ADD and DELETE and the verification *)
(* then fails, the inverse rules put the rules back as they were, up to    *)
(* their order.                                                            *)
UndoRestores ==
    [][pc = "undoFw" /\ exact /\ pc' = "undoWg" /\ faults' = faults
         => SameRules(chain', before.chain)]_vars

(* Rollback deletes only interfaces that this transaction created: one     *)
(* that was up when it began is up when it ends.                           *)
InterfacesKept ==
    [][pc = "undoWg" /\ pc' = "idle" /\ result' # "none"
         => \A i \in Ifaces : before.ifc[i] = "up" => ifc'[i] = "up"]_vars

(* Once the desired state is left alone and faults have ceased, the DNAT   *)
(* rules, the interfaces and the SNI routes in haproxy.cfg become and stay *)
(* the desired ones, whatever the failed commands, stale rollbacks, kills  *)
(* and files put back by the watcher were before, and whether or not the   *)
(* watcher reloads.  (Whether HAProxy runs the file is IdleIsSynced of     *)
(* HaproxyReload.)                                                         *)
Converged ==
    /\ \A m \in Mappings : LET to == chain["DNAT"][m] IN
          IF m \in desired.want THEN to # <<>> /\ to[1] = desired.addr ELSE to = <<>>
    /\ cfg.routes = desired.routes
    /\ \A i \in Ifaces : ifc[i] # "absent"
EventuallyConverged == <>[]Converged

-----------------------------------------------------------------------------
(* What docs/OPERATIONS.md says and the code does not do. *)

(* "Apply is transactional per reconcile: on verify failure the engine     *)
(* rolls back firewall (inverse rules / snapshot), HAProxy file+reload":   *)
(* the caller is told "rolled back" although the rules or the file are not *)
(* those of before.  A CHANGE deletes without record, and the records and  *)
(* the backup of an earlier transaction are replayed.                      *)
RolledBackIsBefore ==
    result = "rolled back" /\ cause = "verify" =>
        SameRules(chain, before.chain) /\ cfg = before.cfg
=============================================================================
