------------------------ MODULE HaproxyReloadProofs ------------------------
(***************************************************************************)
(* Proofs about HaproxyReload, for any contents and any bounds, with       *)
(* writes and cuts at any point of the script: the type invariant, the     *)
(* lock and IdleIsSynced.                                                  *)
(***************************************************************************)
EXTENDS HaproxyReload, FiniteSetTheorems, TLAPS

\* One pass at a time: the flock is held from the debounce to the exit.
Locked ==
    /\ \A p \in Procs : pc[p] \notin {"off", "wait"} <=> p \in lock
    /\ \A p, q \in Procs : p \in lock /\ q \in lock => p = q

\* Unless a write has met it, a pass that commits works on the file it has hashed,
\* and after the reload HAProxy runs that.
CommitsFile ==
    gap # "now" =>
        \A p \in Procs :
            /\ pc[p] \in Committing => file = cur[p]
            /\ pc[p] \in Unrecorded => running = file
            /\ pc[p] = "record" => lastGood = {file}

\* With the gap closed, the last good file and the record are what HAProxy runs,
\* or both are missing, except while a pass is about to replace them.
RecordIsRunning ==
    gap = "closed" /\ (\A p \in Procs : pc[p] \notin Unrecorded) =>
        /\ state = lastGood
        /\ lastGood # {} => lastGood = {running}

RInv == TypeOK /\ Locked /\ CommitsFile /\ RecordIsRunning /\ IdleIsSynced

-----------------------------------------------------------------------------
(* Types and the lock *)

\* A set of one element, or none, is small.
LEMMA Small == Cardinality({}) <= 1 /\ \A x : Cardinality({x}) <= 1
  BY FS_EmptySet, FS_Singleton

\* The script has not run, and HAProxy runs the file.
LEMMA TypeStarts == Init => TypeOK /\ Locked
  <1> SUFFICES ASSUME Init PROVE TypeOK /\ Locked
    OBVIOUS
  <1>1. First \in Contents /\ First \in Good
    BY ReloadConstants
  <1>2. 0 \in 0..MaxWrites /\ 0 \in 0..MaxStarts /\ 0 \in 0..MaxFaults
    BY ReloadConstants
  <1>3. pc \in [Procs -> Positions] /\ \A p \in Procs : pc[p] = "off"
    BY DEF Init, Positions
  <1> QED  BY <1>1, <1>2, <1>3, Small DEF Init, TypeOK, Locked

\* The path unit has a change to act on, or has not.
LEMMA NotifiedTyped ==
    ASSUME TypeOK, Notified
    PROVE  pending' \in BOOLEAN
  <1>1. pending \in BOOLEAN /\ TRUE \in BOOLEAN
    BY DEF TypeOK
  <1> QED  BY <1>1, Zenon DEF Notified

\* Every step keeps the types and the lock.
LEMMA TypeKept ==
    ASSUME TypeOK, Locked, [Next]_vars
    PROVE  TypeOK' /\ Locked'
  <1> USE DEF fileVars, bounds, Goto, Positions
  <1>1. ReloadConstants /\ Procs \subseteq {"svc", "manual"}
    BY ReloadConstants
  <1>2. CASE Write
    BY <1>1, <1>2, ReloadConstants, NotifiedTyped DEF Write, TypeOK, Locked
  <1>3. CASE Trigger
    BY <1>1, <1>3, ReloadConstants DEF Trigger, TypeOK, Locked
  <1>4. CASE StartByHand
    BY <1>1, <1>4, ReloadConstants DEF StartByHand, TypeOK, Locked
  <1>5. ASSUME NEW p \in Procs, Lock(p) PROVE TypeOK' /\ Locked'
    BY <1>5 DEF Lock, TypeOK, Locked
  <1>6. ASSUME NEW p \in Procs, Debounce(p) \/ Validate(p) \/ Rehash(p) \/ Confirm(p)
        PROVE  TypeOK' /\ Locked'
    BY <1>6 DEF Debounce, Validate, Rehash, Confirm, TypeOK, Locked
  <1>7. ASSUME NEW p \in Procs, Hash(p) PROVE TypeOK' /\ Locked'
    BY <1>7 DEF Hash, Exit, TypeOK, Locked
  <1>8. ASSUME NEW p \in Procs, Reload(p) PROVE TypeOK' /\ Locked'
    BY <1>8 DEF Reload, TypeOK, Locked
  <1>9. ASSUME NEW p \in Procs, ReloadFails(p) PROVE TypeOK' /\ Locked'
    BY <1>9, ReloadConstants DEF ReloadFails, TypeOK, Locked
  <1>10. ASSUME NEW p \in Procs, CopyLastGood(p) PROVE TypeOK' /\ Locked'
    BY <1>10, Small DEF CopyLastGood, TypeOK, Locked
  <1>11. ASSUME NEW p \in Procs, WriteState(p) PROVE TypeOK' /\ Locked'
    BY <1>11, Small DEF WriteState, Exit, TypeOK, Locked
  <1>12. ASSUME NEW p \in Procs, Restore(p) PROVE TypeOK' /\ Locked'
    BY <1>12, NotifiedTyped DEF Restore, Exit, TypeOK, Locked
  <1>13. ASSUME NEW p \in Procs, Abort(p) PROVE TypeOK' /\ Locked'
    BY <1>13, ReloadConstants DEF Abort, Exit, TypeOK, Locked
  <1>14. CASE UNCHANGED vars
    BY <1>14 DEF vars, TypeOK, Locked
  <1> QED  BY <1>2, <1>3, <1>4, <1>5, <1>6, <1>7, <1>8, <1>9, <1>10, <1>11, <1>12, <1>13, <1>14
           DEF Next, Pass

\* The script's files hold at most one content, HAProxy only ever runs an
\* accepted one, and the positions are the script's (haproxy-reload-on-change.sh).
THEOREM ReloadTyped == Spec => []TypeOK
  <1>1. Init => TypeOK /\ Locked
    BY TypeStarts
  <1>2. (TypeOK /\ Locked) /\ [Next]_vars => (TypeOK /\ Locked)'
    BY TypeKept
  <1> QED  BY <1>1, <1>2, PTL DEF Spec

-----------------------------------------------------------------------------
(* IdleIsSynced *)

\* With the lock held by p, nobody else is in the script's body.
LEMMA Alone ==
    ASSUME TypeOK, Locked, NEW p \in Procs, pc[p] \notin {"off", "wait"}
    PROVE  \A q \in Procs : q # p => pc[q] \in {"off", "wait"}
  BY DEF Locked

\* A step of the pass that ends or goes on without touching a file.
LEMMA Moved ==
    ASSUME RInv, NEW p \in Procs, NEW at \in Positions, Goto(p, at),
           pc[p] \notin {"off", "wait"}, UNCHANGED fileVars,
           (TypeOK /\ Locked)', cur' = [cur EXCEPT ![p] = cur'[p]],
           at \notin Unrecorded, pc[p] \notin Unrecorded \/ gap = "now",
           gap' = gap \/ (gap = "now" /\ gap' = "open"),
           at = "reload" => file = cur'[p],
           at = "off" => running = file \/ lastGood = {} \/ gap # "closed"
    PROVE  RInv'
  <1> USE DEF fileVars, Committing, Unrecorded
  <1>1. /\ pc'[p] = at /\ \A q \in Procs : q # p => pc'[q] = pc[q] /\ cur'[q] = cur[q]
        /\ \A q \in Procs : q # p => pc[q] \in {"off", "wait"}
    BY Alone DEF Goto, RInv, TypeOK
  <1>2. CommitsFile'
    BY <1>1 DEF RInv, CommitsFile
  <1>3. RecordIsRunning'
    BY <1>1 DEF RInv, RecordIsRunning
  <1>4. IdleIsSynced'
    BY <1>1 DEF IdleIsSynced
  <1> QED  BY <1>2, <1>3, <1>4 DEF RInv

\* A new file on the live path: either the path unit is told, or its service is
\* under way; and a pass that commits is no longer trusted.
LEMMA WriteKeeps ==
    ASSUME RInv, Write, (TypeOK /\ Locked)'
    PROVE  RInv'
  <1> USE DEF fileVars, Committing, Unrecorded
  <1>1. CASE \E p \in Procs : pc[p] \in Committing
    <2>1. gap' = "now"
      BY <1>1 DEF Write
    <2> QED  BY <2>1 DEF RInv, CommitsFile, RecordIsRunning, IdleIsSynced
  <1>2. CASE \A p \in Procs : pc[p] \notin Committing
    <2>1. gap' = gap /\ pc' = pc /\ UNCHANGED <<running, lastGood, state, cur>>
      BY <1>2 DEF Write
    <2>2. CommitsFile' /\ RecordIsRunning'
      BY <1>2, <2>1 DEF RInv, CommitsFile, RecordIsRunning
    <2>3. IdleIsSynced'
      <3>1. CASE pc["svc"] = "off"
        BY <3>1, Zenon DEF Write, Notified, IdleIsSynced
      <3>2. CASE pc["svc"] # "off"
        BY <3>2, ReloadConstants DEF Write, IdleIsSynced
      <3> QED  BY <3>1, <3>2
    <2> QED  BY <2>2, <2>3 DEF RInv
  <1> QED  BY <1>1, <1>2

\* A pass is started; it will look at the file.
LEMMA StartKeeps ==
    ASSUME RInv, Trigger \/ StartByHand, (TypeOK /\ Locked)'
    PROVE  RInv'
  <1> USE DEF fileVars, Committing, Unrecorded
  <1>1. PICK p \in Procs : /\ pc' = [pc EXCEPT ![p] = "wait"] /\ pc[p] = "off"
                           /\ UNCHANGED <<fileVars, cur, gap>>
    BY ReloadConstants DEF Trigger, StartByHand, Goto
  <1>2. pc'[p] = "wait" /\ \A q \in Procs : q # p => pc'[q] = pc[q]
    BY <1>1 DEF RInv, TypeOK
  <1>3. CommitsFile' /\ RecordIsRunning'
    BY <1>1, <1>2 DEF RInv, CommitsFile, RecordIsRunning
  <1>4. IdleIsSynced'
    BY <1>2 DEF IdleIsSynced
  <1> QED  BY <1>3, <1>4 DEF RInv

\* The pass has the lock.
LEMMA LockKeeps ==
    ASSUME RInv, NEW p \in Procs, Lock(p), (TypeOK /\ Locked)'
    PROVE  RInv'
  <1> USE DEF fileVars, Committing, Unrecorded
  <1>1. /\ pc[p] = "wait" /\ pc'[p] = "debounce" /\ \A q \in Procs : q # p => pc'[q] = pc[q]
        /\ UNCHANGED <<fileVars, cur, gap>>
    BY DEF Lock, Goto, RInv, TypeOK
  <1>2. CommitsFile' /\ RecordIsRunning'
    BY <1>1 DEF RInv, CommitsFile, RecordIsRunning
  <1>3. IdleIsSynced'
    BY <1>1 DEF IdleIsSynced
  <1> QED  BY <1>2, <1>3 DEF RInv

\* What is recorded as loaded runs, so that skipping it is right.
LEMMA HashKeeps ==
    ASSUME RInv, NEW p \in Procs, Hash(p), (TypeOK /\ Locked)'
    PROVE  RInv'
  <1> USE DEF Positions, Unrecorded
  <1>1. pc[p] = "hash" /\ UNCHANGED <<fileVars, gap>> /\ cur' = [cur EXCEPT ![p] = cur'[p]]
    BY DEF Hash, RInv, TypeOK
  <1>2. CASE state = {file}
    <2>1. gap = "closed" => running = file
      BY <1>1, <1>2, Alone DEF RInv, RecordIsRunning
    <2>2. Goto(p, "off")
      BY <1>2 DEF Hash, Exit
    <2> QED  BY <1>1, <2>1, <2>2, Moved
  <1>3. CASE state # {file}
    <2>1. Goto(p, "validate")
      BY <1>3 DEF Hash
    <2> QED  BY <1>1, <2>1, Moved
  <1> QED  BY <1>2, <1>3

\* The steps before the reload, and a reload that fails.
LEMMA CheckKeeps ==
    ASSUME RInv, NEW p \in Procs, (TypeOK /\ Locked)',
           Debounce(p) \/ Validate(p) \/ Rehash(p) \/ ReloadFails(p)
    PROVE  RInv'
  <1> USE DEF Positions, Unrecorded
  <1>1. /\ pc[p] \in {"debounce", "validate", "rehash", "reload"} /\ UNCHANGED <<fileVars, cur>>
        /\ cur' = [cur EXCEPT ![p] = cur'[p]]
    BY DEF Debounce, Validate, Rehash, ReloadFails, RInv, TypeOK
  <1>2. PICK at \in {"hash", "rehash", "restore", "reload", "debounce"} :
           /\ Goto(p, at)
           /\ at = "reload" => file = cur[p]
           /\ gap' = gap \/ (gap = "now" /\ gap' = "open")
    BY DEF Debounce, Validate, Rehash, ReloadFails
  <1> QED  BY <1>1, <1>2, Moved

\* A pass that is cut off between the reload and the record leaves a gap.
LEMMA AbortKeeps ==
    ASSUME RInv, NEW p \in Procs, Abort(p), (TypeOK /\ Locked)'
    PROVE  RInv'
  <1> USE DEF fileVars, Committing, Unrecorded
  <1>1. /\ aborted' = TRUE /\ UNCHANGED <<fileVars, cur>>
        /\ gap' = IF pc[p] \in Unrecorded THEN "open" ELSE gap
        /\ pc'[p] = "off" /\ \A q \in Procs : q # p => pc'[q] = pc[q]
    BY DEF Abort, Exit, Goto, RInv, TypeOK
  <1>2. pc[p] \in Unrecorded => \A q \in Procs : q # p => pc[q] \in {"off", "wait"}
    BY Alone DEF RInv
  <1>3. CommitsFile' /\ RecordIsRunning'
    BY <1>1, <1>2 DEF RInv, CommitsFile, RecordIsRunning
  <1>4. IdleIsSynced'
    BY <1>1 DEF IdleIsSynced
  <1> QED  BY <1>3, <1>4 DEF RInv

\* The reload loads what was validated and hashed, and its record follows, unless
\* a write has met the commit.
LEMMA CommitKeeps ==
    ASSUME RInv, NEW p \in Procs, (TypeOK /\ Locked)',
           Reload(p) \/ Confirm(p) \/ CopyLastGood(p) \/ WriteState(p)
    PROVE  RInv'
  <1> USE DEF Committing, Unrecorded
  <1>1. /\ pc[p] \in Committing /\ file' = file /\ cur' = cur
        /\ gap # "now" => file = cur[p]
        /\ \A q \in Procs : q # p => pc'[q] = pc[q] /\ pc[q] \in {"off", "wait"}
    BY Alone DEF Reload, Confirm, CopyLastGood, WriteState, Goto, Exit, RInv, TypeOK, CommitsFile,
       fileVars
  <1>2. CASE Reload(p)
    <2>1. pc'[p] = "confirm" /\ running' = file /\ gap' = gap
      BY <1>2 DEF Reload, Goto, RInv, TypeOK
    <2> QED  BY <1>1, <2>1 DEF RInv, CommitsFile, RecordIsRunning, IdleIsSynced
  <1>3. CASE Confirm(p)
    <2>1. /\ pc[p] = "confirm" /\ pc'[p] = IF file = cur[p] THEN "copy" ELSE "debounce"
          /\ UNCHANGED <<fileVars, gap>>
      BY <1>3 DEF Confirm, Goto, RInv, TypeOK
    <2>2. CommitsFile'
      BY <1>1, <2>1 DEF RInv, CommitsFile, fileVars
    <2>3. RecordIsRunning'
      BY <1>1, <2>1 DEF RInv, RecordIsRunning, fileVars
    <2>4. IdleIsSynced'
      BY <2>1 DEF IdleIsSynced
    <2> QED  BY <2>2, <2>3, <2>4 DEF RInv
  <1>4. CASE CopyLastGood(p)
    <2>1. /\ pc[p] = "copy" /\ pc'[p] = "record" /\ running' = running /\ lastGood' = {file}
          /\ gap' = gap
      BY <1>4 DEF CopyLastGood, Goto, RInv, TypeOK
    <2> QED  BY <1>1, <2>1 DEF RInv, CommitsFile, RecordIsRunning, IdleIsSynced
  <1>5. CASE WriteState(p)
    <2>1. /\ pc[p] = "record" /\ pc'[p] = "off" /\ running' = running /\ lastGood' = lastGood
          /\ state' = {cur[p]} /\ gap' = IF gap = "now" THEN "open" ELSE "closed"
      BY <1>5 DEF WriteState, Goto, Exit, RInv, TypeOK
    <2>2. gap # "now" => lastGood = {file} /\ running = file
      BY <2>1 DEF RInv, CommitsFile
    <2>3. CommitsFile'
      BY <1>1, <2>1 DEF CommitsFile
    <2>4. RecordIsRunning'
      BY <1>1, <2>1, <2>2 DEF RecordIsRunning
    <2>5. IdleIsSynced'
      BY <1>1, <2>1, <2>2 DEF IdleIsSynced
    <2> QED  BY <2>3, <2>4, <2>5 DEF RInv
  <1> QED  BY <1>2, <1>3, <1>4, <1>5

\* With the gap closed, the last good file is the one HAProxy runs.
LEMMA RestoreKeeps ==
    ASSUME RInv, NEW p \in Procs, Restore(p), (TypeOK /\ Locked)'
    PROVE  RInv'
  <1> USE DEF Committing, Unrecorded
  <1>1. /\ pc[p] = "restore" /\ pc'[p] = "off" /\ UNCHANGED <<running, lastGood, state, cur, gap>>
        /\ \A q \in Procs : q # p => pc'[q] = pc[q] /\ pc[q] \in {"off", "wait"}
    BY Alone DEF Restore, Goto, Exit, RInv, TypeOK
  <1>2. gap = "closed" /\ lastGood # {} => file' = running
    BY <1>1 DEF Restore, RInv, RecordIsRunning
  <1>3. CommitsFile' /\ RecordIsRunning'
    BY <1>1 DEF RInv, CommitsFile, RecordIsRunning
  <1>4. IdleIsSynced'
    BY <1>1, <1>2 DEF IdleIsSynced
  <1> QED  BY <1>3, <1>4 DEF RInv

\* When no pass is under way or due, HAProxy runs the file on the live path, for
\* any contents and any writes, failures, cuts and passes by hand; a commit that a
\* write or a cut has met is made up for by the next one that is recorded
\* (haproxy-reload-on-change.sh).
THEOREM ReloadsSync == Spec => []IdleIsSynced
  <1>1. Init => RInv
    <2> SUFFICES ASSUME Init PROVE RInv
      OBVIOUS
    <2>1. TypeOK /\ Locked
      BY TypeStarts
    <2>2. \A p \in Procs : pc[p] = "off"
      BY DEF Init
    <2> QED  BY <2>1, <2>2
             DEF Init, RInv, CommitsFile, RecordIsRunning, IdleIsSynced, Committing, Unrecorded
  <1>2. RInv /\ [Next]_vars => RInv'
    <2> SUFFICES ASSUME RInv, [Next]_vars PROVE RInv'
      OBVIOUS
    <2>1. (TypeOK /\ Locked)'
      BY TypeKept DEF RInv
    <2>2. CASE Write \/ Trigger \/ StartByHand
      BY <2>1, <2>2, WriteKeeps, StartKeeps
    <2>3. ASSUME NEW p \in Procs, Pass(p) PROVE RInv'
      BY <2>1, <2>3, LockKeeps, HashKeeps, CheckKeeps, CommitKeeps, RestoreKeeps DEF Pass
    <2>4. ASSUME NEW p \in Procs, Abort(p) PROVE RInv'
      BY <2>1, <2>4, AbortKeeps
    <2>5. CASE UNCHANGED vars
      BY <2>1, <2>5 DEF vars, fileVars, RInv, CommitsFile, RecordIsRunning, IdleIsSynced
    <2> QED  BY <2>2, <2>3, <2>4, <2>5 DEF Next
  <1>3. RInv => IdleIsSynced
    BY DEF RInv
  <1> QED  BY <1>1, <1>2, <1>3, PTL DEF Spec
=============================================================================
