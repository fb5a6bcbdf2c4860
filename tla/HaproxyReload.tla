---------------------------- MODULE HaproxyReload ----------------------------
(***************************************************************************)
(* The host side of haproxy_reload: external - the script                  *)
(* haproxy-reload-on-change.sh, started by a systemd path unit (process    *)
(* "svc") or by hand (process "manual"), while agents go on renaming new   *)
(* versions of haproxy.cfg into place.                                     *)
(*                                                                         *)
(* A configuration is one content; its hash is the content.  The debounce  *)
(* is a wait of unknown length: its cap lets it end while the file is      *)
(* still changing, and the hash is taken again after it.  The backup       *)
(* directory is left out, nothing reads it.  Reloading an invalid file     *)
(* fails (the HAProxy unit checks it first).                               *)
(***************************************************************************)
EXTENDS Naturals, FiniteSets

CONSTANTS
    Contents,      \* versions of haproxy.cfg
    Good,          \* those that `haproxy -c' accepts
    First,         \* the one HAProxy started with
    Procs,         \* {"svc"} or {"svc", "manual"}
    MaxWrites,     \* bound: writes of the file
    MaxStarts,     \* bound: passes started by hand
    MaxFaults      \* bound: failed reloads and passes cut off

Positions == {"off", "wait", "debounce", "hash", "validate", "rehash", "reload", "confirm",
              "copy", "record", "restore"}

(* From the last look at the file to the end of a successful pass, and     *)
(* where HAProxy already runs what is not on record yet.                   *)
Committing == {"reload", "confirm", "copy", "record"}
Unrecorded == {"confirm", "copy", "record"}

ASSUME ReloadConstants ==
    /\ Good \subseteq Contents /\ First \in Good
    /\ "svc" \in Procs /\ Procs \subseteq {"svc", "manual"}
    /\ MaxWrites \in Nat /\ MaxStarts \in Nat /\ MaxFaults \in Nat

VARIABLES
    file,      \* haproxy.cfg
    running,   \* the content HAProxy has loaded
    lastGood,  \* {} or the content of haproxy.last-good.cfg
    state,     \* {} or the hash in haproxy-reload.state
    pending,   \* has the path unit a change to act on?
    lock,      \* holder of the flock
    pc,        \* position of each process in the script
    cur,       \* its variable cur
    aborted,   \* was the last pass cut off? (history)
    gap,       \* "now": a write has met the commit under way; "open": a commit was met by
               \* a write or cut off, and none has succeeded since; "closed" (history)
    writes, starts, faults

fileVars == <<file, running, lastGood, state>>
bounds == <<writes, starts, faults>>
vars == <<fileVars, pending, lock, pc, cur, aborted, gap, bounds>>

Init ==
    /\ file = First
    /\ running = First
    /\ lastGood = {}
    /\ state = {}
    /\ pending = FALSE
    /\ lock = {}
    /\ pc = [p \in Procs |-> "off"]
    /\ cur = [p \in Procs |-> First]
    /\ aborted = FALSE
    /\ gap = "closed"
    /\ writes = 0
    /\ starts = 0
    /\ faults = 0

Goto(p, pos) == pc' = [pc EXCEPT ![p] = pos]

(* The script ends; the kernel drops the flock. *)
Exit(p) == Goto(p, "off") /\ lock' = lock \ {p}

(* A rename over the watched path.  The path unit is told, except that a   *)
(* change while its service is active may go unnoticed.                    *)
Notified ==
    IF pc["svc"] = "off" THEN pending' = TRUE ELSE pending' \in {pending, TRUE}

(* An agent's Apply or Rollback. *)
Write ==
    /\ writes < MaxWrites
    /\ file' \in Contents \ {file}
    /\ Notified
    /\ writes' = writes + 1
    /\ gap' = IF \E p \in Procs : pc[p] \in Committing THEN "now" ELSE gap
    /\ UNCHANGED <<running, lastGood, state, lock, pc, cur, aborted, starts, faults>>

(* The path unit starts its service. *)
Trigger ==
    /\ pending
    /\ pc["svc"] = "off"
    /\ pending' = FALSE
    /\ Goto("svc", "wait")
    /\ UNCHANGED <<fileVars, lock, cur, aborted, gap, bounds>>

StartByHand ==
    /\ "manual" \in Procs
    /\ pc["manual"] = "off"
    /\ starts < MaxStarts
    /\ starts' = starts + 1
    /\ Goto("manual", "wait")
    /\ UNCHANGED <<fileVars, pending, lock, cur, aborted, gap, writes, faults>>

(* flock -n, else flock *)
Lock(p) ==
    /\ pc[p] = "wait"
    /\ lock = {}
    /\ lock' = {p}
    /\ aborted' = FALSE
    /\ Goto(p, "debounce")
    /\ UNCHANGED <<fileVars, pending, cur, gap, bounds>>

Debounce(p) ==
    /\ pc[p] = "debounce"
    /\ Goto(p, "hash")
    /\ UNCHANGED <<fileVars, pending, lock, cur, aborted, gap, bounds>>

(* cur=$(file_sha256): skip what is recorded as loaded. *)
Hash(p) ==
    /\ pc[p] = "hash"
    /\ cur' = [cur EXCEPT ![p] = file]
    /\ IF state = {file} THEN Exit(p) ELSE Goto(p, "validate") /\ UNCHANGED lock
    /\ UNCHANGED <<fileVars, pending, aborted, gap, bounds>>

Validate(p) ==
    /\ pc[p] = "validate"
    /\ Goto(p, IF file \in Good THEN "rehash" ELSE "restore")
    /\ UNCHANGED <<fileVars, pending, lock, cur, aborted, gap, bounds>>

(* Mutant: the hash is not taken again. *)
RehashStale(p) ==
    /\ pc[p] = "rehash"
    /\ Goto(p, IF file = cur[p] THEN "reload" ELSE "validate")
    /\ gap' = IF gap = "now" THEN "open" ELSE gap
    /\ UNCHANGED <<fileVars, pending, lock, cur, aborted, bounds>>

(* mutated_during_validate: start over. *)
Rehash(p) ==
    /\ pc[p] = "rehash"
    /\ Goto(p, IF file = cur[p] THEN "reload" ELSE "debounce")
    /\ gap' = IF gap = "now" THEN "open" ELSE gap
    /\ UNCHANGED <<fileVars, pending, lock, cur, aborted, bounds>>

Reload(p) ==
    /\ pc[p] = "reload"
    /\ file \in Good
    /\ running' = file
    /\ Goto(p, "confirm")
    /\ UNCHANGED <<file, lastGood, state, pending, lock, cur, aborted, gap, bounds>>

ReloadFails(p) ==
    /\ pc[p] = "reload"
    /\ \/ file \notin Good /\ UNCHANGED faults
       \/ faults < MaxFaults /\ faults' = faults + 1
    /\ Goto(p, "restore")
    /\ UNCHANGED <<fileVars, pending, lock, cur, aborted, gap, writes, starts>>

(* mutated_during_reload: start over, with nothing recorded. *)
Confirm(p) ==
    /\ pc[p] = "confirm"
    /\ Goto(p, IF file = cur[p] THEN "copy" ELSE "debounce")
    /\ UNCHANGED <<fileVars, pending, lock, cur, aborted, gap, bounds>>

(* cp haproxy.cfg haproxy.last-good.cfg *)
CopyLastGood(p) ==
    /\ pc[p] = "copy"
    /\ lastGood' = {file}
    /\ Goto(p, "record")
    /\ UNCHANGED <<file, running, state, pending, lock, cur, aborted, gap, bounds>>

(* Mutant: the state file is appended to. *)
WriteStateAppending(p) ==
    /\ pc[p] = "record"
    /\ state' = state \cup {cur[p]}
    /\ gap' = IF gap = "now" THEN "open" ELSE "closed"
    /\ Exit(p)
    /\ UNCHANGED <<file, running, lastGood, pending, cur, aborted, bounds>>

(* write_state "$cur"; exit 0 *)
WriteState(p) ==
    /\ pc[p] = "record"
    /\ state' = {cur[p]}
    /\ gap' = IF gap = "now" THEN "open" ELSE "closed"
    /\ Exit(p)
    /\ UNCHANGED <<file, running, lastGood, pending, cur, aborted, bounds>>

(* Mutant: a failure leaves the file in place. *)
RestoreNothing(p) ==
    /\ pc[p] = "restore"
    /\ Exit(p)
    /\ UNCHANGED <<fileVars, pending, cur, aborted, gap, bounds>>

(* restore_last_good, if there is one; exit 1. *)
Restore(p) ==
    /\ pc[p] = "restore"
    /\ IF lastGood = {}
       THEN UNCHANGED <<file, pending>>
       ELSE file' \in lastGood /\ Notified
    /\ Exit(p)
    /\ UNCHANGED <<running, lastGood, state, cur, aborted, gap, bounds>>

(* TimeoutStartSec, a file that cannot be read, or another command that    *)
(* fails under set -e.                                                     *)
Abort(p) ==
    /\ pc[p] # "off"
    /\ faults < MaxFaults
    /\ faults' = faults + 1
    /\ aborted' = TRUE
    /\ gap' = IF pc[p] \in Unrecorded THEN "open" ELSE gap
    /\ Exit(p)
    /\ UNCHANGED <<fileVars, pending, cur, writes, starts>>

Pass(p) ==
    \/ Lock(p)
    \/ Debounce(p)
    \/ Hash(p)
    \/ Validate(p)
    \/ Rehash(p)
    \/ Reload(p)
    \/ ReloadFails(p)
    \/ Confirm(p)
    \/ CopyLastGood(p)
    \/ WriteState(p)
    \/ Restore(p)

Next ==
    \/ Write
    \/ Trigger
    \/ StartByHand
    \/ \E p \in Procs : Pass(p) \/ Abort(p)

Spec == Init /\ [][Next]_vars

(* systemd acts on a change, and every command of the script returns. *)
FairSpec == Spec /\ WF_vars(Trigger) /\ \A p \in Procs : WF_vars(Pass(p))

-----------------------------------------------------------------------------
(* Type invariant. *)
TypeOK ==
    /\ file \in Contents /\ running \in Good
    /\ lastGood \in SUBSET Contents /\ Cardinality(lastGood) <= 1
    /\ state \in SUBSET Contents /\ Cardinality(state) <= 1
    /\ pending \in BOOLEAN /\ aborted \in BOOLEAN /\ gap \in {"closed", "open", "now"}
    /\ lock \in SUBSET Procs
    /\ pc \in [Procs -> Positions]
    /\ cur \in [Procs -> Contents]
    /\ writes \in 0..MaxWrites /\ starts \in 0..MaxStarts /\ faults \in 0..MaxFaults

(* Once a first pass has succeeded: when no pass is under way or due and   *)
(* the last one was not cut off, HAProxy runs the file on the live path -  *)
(* after failed validations and reloads, passes cut off and retried,       *)
(* writes at any time, and passes by hand that wait for the lock.  The     *)
(* script can lose track of one thing only: a write, or its own end,       *)
(* between the re-hash and the record (SkippedIsRunning), and the next     *)
(* pass that records a reload makes up for it.                             *)
IdleIsSynced ==
    /\ \A p \in Procs : pc[p] = "off"
    /\ ~pending /\ ~aborted /\ lastGood # {} /\ gap = "closed"
    => running = file

(* The script comes to rest: the restores it writes itself, the passes     *)
(* they trigger, writes and cuts at any time do not keep it going, and     *)
(* what it leaves on the live path is loaded, but for the same gap.  It    *)
(* takes that last-good is a file which `haproxy -c' accepts, for good or  *)
(* again (NoReloadLoop).                                                   *)
ComesToRest ==
    \/ <>[](/\ \A p \in Procs : pc[p] = "off"
            /\ aborted \/ lastGood = {} \/ gap # "closed" \/ running = file)
    \/ <>[](lastGood # {} /\ lastGood \cap Good = {})

-----------------------------------------------------------------------------
(* What the script's header and its smoke test say, and the script does    *)
(* not do when a write overlaps the reload.                                *)

(* "Invalid haproxy.cfg must restore last-good without a reload loop."     *)
(* (scripts/smoke-test-restore.sh:2): the script comes to rest.  But a     *)
(* write between the confirming hash and `cp' makes a file nobody has      *)
(* validated last-good, and restoring an invalid one starts the next pass. *)
NoReloadLoop == <>[](\A p \in Procs : pc[p] = "off")

(* "skip if hash matches last successful reload": a write during the       *)
(* reload that brings the recorded content back is skipped although the    *)
(* last successful reload loaded another one.                              *)
SkippedIsRunning ==
    [][\A p \in Procs : pc[p] = "hash" /\ pc'[p] = "off" /\ ~aborted' => running = file]_vars
=============================================================================
