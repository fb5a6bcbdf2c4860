-------------------------- MODULE ControllerProofs --------------------------
(***************************************************************************)
(* Proofs about Controller, for any number of processes, scripts, tokens,  *)
(* requests and clients, any burst and rate, and any bounds.               *)
(***************************************************************************)
EXTENDS Controller, RateLimiterProofs, FiniteSetTheorems

\* Scripts are applied in ascending order, so the versions recorded, and those a
\* process has seen or applied, are initial segments, the latter no longer.
Segments ==
    /\ schema = recorded
    /\ \E k \in 0..Scripts : recorded = 1..k
    /\ \A p \in Processes :
         /\ \E j \in 0..Scripts : proc[p].applied = 1..j
         /\ proc[p].applied \subseteq recorded
         /\ proc[p].at \notin {"down", "migrate"} => recorded = 1..Scripts

\* The bootstrap token comes first: without it there is no other, no request, and
\* nobody serves.
BootstrapFirst ==
    /\ tokens[Bootstrap] = NoToken => \A n \in Names : tokens[n] = NoToken
    /\ \A h \in Handlers : req[h] # Free => tokens[Bootstrap] # NoToken
    /\ \A p \in Processes :
         proc[p].at \in {"stat", "listen", "serving"} => tokens[Bootstrap] # NoToken

\* A process holds a secret from the moment it has read the file to the INSERT,
\* and what it is about to insert is in the file.
Prepared ==
    \A p \in Processes :
        /\ IF proc[p].at \in {"write", "insert"} THEN proc[p].plain # 0 ELSE proc[p].plain = 0
        /\ proc[p].at = "insert" /\ tokens[Bootstrap] = NoToken /\ ~lost /\ ~outdated
             => file = proc[p].plain

\* A secret belongs to one token, and a revoked one still does.
SecretsUnique ==
    /\ \A m, n \in Names :
         tokens[m] # NoToken /\ tokens[n] # NoToken /\ tokens[m].secret = tokens[n].secret
             => m = n
    /\ \A k \in everRevoked : \E n \in Names : tokens[n] # NoToken /\ tokens[n].secret = k

\* Requests wait for the limiter with a time that lies in the past.
ReadInPast == \A h \in Handlers : req[h].at = "limit" => req[h].now <= clock

CInv ==
    /\ TypeOK /\ LInv /\ Segments /\ BootstrapFirst /\ Prepared /\ SecretsUnique /\ ReadInPast
    /\ FileOpensTheDoor /\ RevokedNeverReturns

-----------------------------------------------------------------------------
(* Fresh secrets *)

\* A function has at most as many values as arguments.
LEMMA ImageBound ==
    ASSUME NEW S, IsFiniteSet(S), NEW f
    PROVE  /\ IsFiniteSet({f[x] : x \in S})
           /\ Cardinality({f[x] : x \in S}) <= Cardinality(S)
  <1> DEFINE T == {f[x] : x \in S}
             g == [x \in S |-> f[x]]
  <1>1. g \in Surjection(S, T)
    BY DEF Surjection
  <1> QED  BY <1>1, FS_Surjection

\* newSecret finds one that nobody holds, when a name or the file is free.
LEMMA FreshExists ==
    ASSUME TypeOK, SecretsUnique,
           file \in {NoFile, 0} \/ \E n \in Names : tokens[n] = NoToken
    PROVE  Fresh \in 1..MaxSecrets /\ Fresh \notin Held
  <1> DEFINE Named == {m \in Names : tokens[m] # NoToken}
             secretOf == [m \in Names |-> tokens[m].secret]
             plainOf == [p \in Processes |-> proc[p].plain]
             Secrets == {secretOf[m] : m \in Named}
             Plains == {plainOf[p] : p \in Processes}
             InFile == {file} \ {NoFile, 0}
             Taken == Secrets \cup Plains \cup InFile
  <1>1. /\ IsFiniteSet(Names) /\ IsFiniteSet(Processes) /\ MaxSecrets \in Nat
        /\ MaxSecrets > Cardinality(Names) + Cardinality(Processes)
    BY ControllerAssumption
  <1>2. IsFiniteSet(Named) /\ Cardinality(Named) <= Cardinality(Names)
    BY <1>1, FS_Subset
  <1>3. IsFiniteSet(Secrets) /\ Cardinality(Secrets) <= Cardinality(Named)
    BY <1>2, ImageBound
  <1>4. IsFiniteSet(Plains) /\ Cardinality(Plains) <= Cardinality(Processes)
    BY <1>1, ImageBound
  <1>5. IsFiniteSet(InFile) /\ Cardinality(InFile) <= 1
    <2>1. IsFiniteSet({file}) /\ Cardinality({file}) = 1 /\ InFile \in SUBSET {file}
      BY FS_Singleton
    <2> QED  BY <2>1, FS_Subset
  <1>6. Held \cup {proc[p].plain : p \in Processes} \subseteq Taken
    <2>1. everRevoked \subseteq Secrets
      BY DEF SecretsUnique
    <2>2. {tokens[n].secret : n \in Named} \subseteq Secrets
      OBVIOUS
    <2>3. {proc[p].plain : p \in Processes} \subseteq Plains
      OBVIOUS
    <2> HIDE DEF Secrets, Plains, InFile
    <2> QED  BY <2>1, <2>2, <2>3 DEF Held, InFile
  <1> HIDE DEF Secrets, Plains, InFile, secretOf, plainOf
  <1>7. /\ Cardinality(Names) \in Nat /\ Cardinality(Processes) \in Nat
        /\ Cardinality(Named) \in Nat /\ Cardinality(Secrets) \in Nat
        /\ Cardinality(Plains) \in Nat /\ Cardinality(InFile) \in Nat
    BY <1>1, <1>2, <1>3, <1>4, <1>5, FS_CardinalityType
  <1>8. Cardinality(Named) + Cardinality(InFile) <= Cardinality(Names)
    <2>1. CASE file \in {NoFile, 0}
      <3>1. InFile = {}
        BY <2>1 DEF InFile
      <3> QED  BY <1>2, <1>7, <3>1, FS_EmptySet
    <2>2. CASE \E n \in Names : tokens[n] = NoToken
      <3>1. PICK n \in Names : tokens[n] = NoToken
        BY <2>2
      <3>2. IsFiniteSet(Names \ {n}) /\ Cardinality(Names \ {n}) = Cardinality(Names) - 1
        BY <1>1, FS_RemoveElement
      <3>3. Named \in SUBSET (Names \ {n})
        BY <3>1
      <3>4. Cardinality(Named) <= Cardinality(Names \ {n})
        BY <3>2, <3>3, FS_Subset
      <3> QED  BY <1>5, <1>7, <3>2, <3>4
    <2> QED  BY <2>1, <2>2
  <1> HIDE DEF Named
  <1>9. IsFiniteSet(Taken) /\ Cardinality(Taken) < MaxSecrets
    <2>1. /\ IsFiniteSet(Secrets \cup Plains)
          /\ Cardinality(Secrets \cup Plains) =
                Cardinality(Secrets) + Cardinality(Plains) - Cardinality(Secrets \cap Plains)
      BY <1>3, <1>4, FS_Union
    <2>2. /\ IsFiniteSet(Taken)
          /\ Cardinality(Taken) = Cardinality(Secrets \cup Plains) + Cardinality(InFile)
                                     - Cardinality((Secrets \cup Plains) \cap InFile)
      BY <1>5, <2>1, FS_Union
    <2>3. /\ IsFiniteSet(Secrets \cap Plains)
          /\ IsFiniteSet((Secrets \cup Plains) \cap InFile)
      BY <1>3, <2>1, FS_Subset
    <2>4. /\ Cardinality(Secrets \cap Plains) \in Nat
          /\ Cardinality((Secrets \cup Plains) \cap InFile) \in Nat
          /\ Cardinality(Secrets \cup Plains) \in Nat
          /\ Cardinality(Taken) \in Nat
      BY <2>1, <2>2, <2>3, FS_CardinalityType
    <2> QED  BY <1>1, <1>3, <1>4, <1>7, <1>8, <2>1, <2>2, <2>4
  <1>10. \E k \in 1..MaxSecrets : k \notin Taken
    <2>1. SUFFICES ASSUME 1..MaxSecrets \in SUBSET Taken PROVE FALSE
      OBVIOUS
    <2>2. Cardinality(1..MaxSecrets) = MaxSecrets
      BY <1>1, FS_Interval
    <2>3. Cardinality(1..MaxSecrets) <= Cardinality(Taken)
      BY <1>9, <2>1, FS_Subset
    <2>4. Cardinality(Taken) \in Nat
      BY <1>9, FS_CardinalityType
    <2> QED  BY <1>1, <1>9, <2>2, <2>3, <2>4
  <1>11. \E k \in 1..MaxSecrets : k \notin Held \cup {proc[p].plain : p \in Processes}
    BY <1>6, <1>10
  <1> QED  BY <1>11 DEF Fresh

-----------------------------------------------------------------------------
(* The invariant holds initially *)

\* An empty data directory satisfies the invariant.
LEMMA InitCInv == Init => CInv
  <1> SUFFICES ASSUME Init PROVE CInv
    OBVIOUS
  <1>1. LInv
    BY LimiterStarts DEF Init
  <1>2. Scripts \in Nat /\ MaxFaults \in Nat /\ MaxSecrets \in Nat /\ Bootstrap \in Names
    BY ControllerAssumption
  <1>3. 0 \in 0..Scripts /\ 0 \in 0..MaxFaults /\ 0 \in 0..MaxSecrets /\ 1..0 = {}
    BY <1>2
  <1>4. Down \in Process /\ Down.at = "down" /\ Down.applied = {} /\ Down.plain = 0
    BY <1>3 DEF Down, Process
  <1>5. TypeOK
    BY <1>1, <1>3, <1>4 DEF Init, TypeOK, LInv
  <1>6. Segments
    BY <1>3, <1>4 DEF Init, Segments
  <1>7. /\ BootstrapFirst /\ Prepared /\ SecretsUnique /\ ReadInPast
        /\ FileOpensTheDoor /\ RevokedNeverReturns
    BY <1>2, <1>4 DEF Init, BootstrapFirst, Prepared, SecretsUnique, ReadInPast, Free,
       FileOpensTheDoor, RevokedNeverReturns
  <1> QED  BY <1>1, <1>5, <1>6, <1>7 DEF CInv

-----------------------------------------------------------------------------
(* Start-up *)

\* A step of one process that changes nothing but where it is.
LEMMA ProcessStep ==
    ASSUME CInv, NEW p \in Processes,
           proc' = [proc EXCEPT ![p] = proc'[p]], proc'[p] \in Process,
           UNCHANGED <<limiterVars, database, file, req, faults, controllerHistory>>,
           \E j \in 0..Scripts : proc'[p].applied = 1..j,
           proc'[p].applied \subseteq recorded,
           proc'[p].at \notin {"down", "migrate"} => recorded = 1..Scripts,
           proc'[p].at \in {"stat", "listen", "serving"} => tokens[Bootstrap] # NoToken,
           IF proc'[p].at \in {"write", "insert"} THEN proc'[p].plain # 0 ELSE proc'[p].plain = 0,
           proc'[p].at = "insert" => file = proc'[p].plain
    PROVE  CInv'
  <1> USE DEF database, controllerHistory
  <1>1. LInv' /\ LimiterTypeOK'
    BY TickKeeps DEF CInv, LInv
  <1>2. /\ proc' \in [Processes -> Process]
        /\ \A q \in Processes : q # p => proc'[q] = proc[q]
    BY DEF CInv, TypeOK
  <1>3. TypeOK'
    BY <1>1, <1>2 DEF CInv, TypeOK
  <1>4. Segments'
    BY <1>2 DEF CInv, Segments
  <1>5. BootstrapFirst' /\ Prepared'
    BY <1>2 DEF CInv, BootstrapFirst, Prepared
  <1>6. SecretsUnique' /\ ReadInPast' /\ FileOpensTheDoor' /\ RevokedNeverReturns'
    BY DEF CInv, SecretsUnique, ReadInPast, FileOpensTheDoor, RevokedNeverReturns, Matches,
       limiterVars
  <1> QED  BY <1>1, <1>3, <1>4, <1>5, <1>6 DEF CInv

\* The process that has ended.
LEMMA DownProcess ==
    /\ Down \in Process /\ Down.at = "down" /\ Down.applied = {} /\ Down.plain = 0
    /\ \E j \in 0..Scripts : Down.applied = 1..j
  <1>1. 0 \in 0..Scripts /\ 0 \in 0..MaxSecrets /\ 1..0 = {}
    BY ControllerAssumption
  <1> QED  BY <1>1 DEF Down, Process

\* An error ends the process.
LEMMA ExitKeeps ==
    ASSUME CInv, NEW p \in Processes, Exit(p),
           UNCHANGED <<limiterVars, database, file, req, faults, controllerHistory>>
    PROVE  CInv'
  <1>1. proc' = [proc EXCEPT ![p] = proc'[p]] /\ proc'[p] = Down
    BY DEF Exit, CInv, TypeOK
  <1> QED  BY <1>1, DownProcess, ProcessStep

\* A step of run() that reads only.
LEMMA StepKeeps ==
    ASSUME CInv, NEW p \in Processes,
           NEW at \in {"name", "stat", "read", "listen", "serving"}, Step(p, at),
           UNCHANGED <<limiterVars, database, file, req, faults, controllerHistory>>,
           recorded = 1..Scripts, proc[p].plain = 0,
           at \in {"stat", "listen", "serving"} => tokens[Bootstrap] # NoToken
    PROVE  CInv'
  <1>1. proc[p] \in Process
    BY DEF CInv, TypeOK
  <1>2. proc' = [proc EXCEPT ![p] = [proc[p] EXCEPT !.at = at]]
    BY DEF Step
  <1> DEFINE new == [proc[p] EXCEPT !.at = at]
  <1>3. /\ new \in Process /\ new.at = at /\ new.applied = proc[p].applied
        /\ new.plain = proc[p].plain
    BY <1>1 DEF Process
  <1> HIDE DEF new
  <1>4. proc' = [proc EXCEPT ![p] = proc'[p]] /\ proc'[p] = new
    BY <1>2 DEF CInv, TypeOK, new
  <1>5. (\E j \in 0..Scripts : proc[p].applied = 1..j) /\ proc[p].applied \subseteq recorded
    BY DEF CInv, Segments
  <1> QED  BY <1>3, <1>4, <1>5, ProcessStep

\* OpenSQLite and migrate read the versions on record.
LEMMA StartKeeps ==
    ASSUME CInv, NEW p \in Processes, Start(p)
    PROVE  CInv'
  <1> DEFINE new == [proc[p] EXCEPT !.at = "migrate", !.applied = recorded]
  <1>1. proc[p] \in Process /\ recorded \subseteq 1..Scripts /\ proc[p].at = "down"
    BY DEF CInv, TypeOK, Start
  <1>2. proc' = [proc EXCEPT ![p] = new]
    BY DEF Start
  <1>3. /\ new \in Process /\ new.at = "migrate" /\ new.applied = recorded
        /\ new.plain = proc[p].plain
    BY <1>1 DEF Process
  <1> HIDE DEF new
  <1>4. proc' = [proc EXCEPT ![p] = proc'[p]] /\ proc'[p] = new
    BY <1>2 DEF CInv, TypeOK
  <1>5. proc[p].plain = 0 /\ \E j \in 0..Scripts : recorded = 1..j
    BY <1>1 DEF CInv, Prepared, Segments
  <1> QED  BY <1>3, <1>4, <1>5, ProcessStep DEF Start

\* When no script is due, all have been applied.
LEMMA MigratedKeeps ==
    ASSUME CInv, NEW p \in Processes, Migrated(p)
    PROVE  CInv'
  <1>1. PICK j \in 0..Scripts : proc[p].applied = 1..j
    BY DEF CInv, Segments
  <1>2. Scripts \in Nat /\ Due(p) = {}
    BY ControllerAssumption DEF Migrated
  <1>3. j = Scripts
    <2> SUFFICES ASSUME j # Scripts PROVE FALSE
      OBVIOUS
    <2>1. j + 1 \in 1..Scripts /\ j + 1 \notin 1..j /\ \A w \in 1..(j + 1 - 1) : w \in 1..j
      BY <1>2
    <2>2. j + 1 \in Due(p)
      BY <1>1, <2>1 DEF Due
    <2> QED  BY <1>2, <2>2
  <1>4. recorded = 1..Scripts
    BY <1>1, <1>3 DEF CInv, Segments, TypeOK
  <1>5. proc[p].plain = 0
    BY DEF CInv, Prepared, Migrated
  <1> QED  BY <1>4, <1>5, StepKeeps DEF Migrated

\* HasTokenName, and what follows when there is a token.
LEMMA HasTokenNameKeeps ==
    ASSUME CInv, NEW p \in Processes, HasTokenName(p)
    PROVE  CInv'
  <1>1. recorded = 1..Scripts /\ proc[p].plain = 0
    BY DEF CInv, Prepared, Segments, HasTokenName
  <1> QED  BY <1>1, StepKeeps DEF HasTokenName

\* Whether the token file is there is only looked at.
LEMMA StatFileKeeps ==
    ASSUME CInv, NEW p \in Processes, StatFile(p)
    PROVE  CInv'
  <1>1. recorded = 1..Scripts /\ proc[p].plain = 0 /\ tokens[Bootstrap] # NoToken
    BY DEF CInv, Prepared, Segments, BootstrapFirst, StatFile
  <1> QED  BY <1>1, StepKeeps, ExitKeeps DEF StatFile

\* ListenAndServe, or the port is taken.
LEMMA ListenKeeps ==
    ASSUME CInv, NEW p \in Processes, Listen(p)
    PROVE  CInv'
  <1>1. recorded = 1..Scripts /\ proc[p].plain = 0 /\ tokens[Bootstrap] # NoToken
    BY DEF CInv, Prepared, Segments, BootstrapFirst, Listen
  <1> QED  BY <1>1, StepKeeps, ExitKeeps DEF Listen

\* The secret left in the file is used again, or a fresh one drawn.
LEMMA ReadFileKeeps ==
    ASSUME CInv, NEW p \in Processes, ReadFile(p)
    PROVE  CInv'
  <1> DEFINE new(at, k) == [proc[p] EXCEPT !.at = at, !.plain = k]
  <1>1. /\ proc[p] \in Process /\ recorded = 1..Scripts
        /\ (\E j \in 0..Scripts : proc[p].applied = 1..j) /\ proc[p].applied \subseteq recorded
    BY DEF CInv, TypeOK, Segments, ReadFile
  <1>2. PICK at \in {"write", "insert"}, k \in 1..MaxSecrets :
          /\ proc' = [proc EXCEPT ![p] = new(at, k)]
          /\ at = "insert" => file = k
    <2>1. CASE file \notin {NoFile, 0}
      <3>1. file \in 1..MaxSecrets
        BY <2>1, ControllerAssumption DEF CInv, TypeOK
      <3> QED  BY <2>1, <3>1 DEF ReadFile
    <2>2. CASE file \in {NoFile, 0}
      <3>1. Fresh \in 1..MaxSecrets
        BY <2>2, FreshExists DEF CInv
      <3> QED  BY <2>2, <3>1 DEF ReadFile
    <2> QED  BY <2>1, <2>2
  <1>3. k # 0 /\ k \in 0..MaxSecrets
    BY ControllerAssumption
  <1>4. /\ new(at, k) \in Process /\ new(at, k).at = at /\ new(at, k).plain = k
        /\ new(at, k).applied = proc[p].applied
    BY <1>1, <1>3 DEF Process
  <1> HIDE DEF new
  <1>5. proc' = [proc EXCEPT ![p] = proc'[p]] /\ proc'[p] = new(at, k)
    BY <1>2 DEF CInv, TypeOK
  <1> QED  BY <1>1, <1>2, <1>3, <1>4, <1>5, ProcessStep DEF ReadFile

\* One transaction executes the next script and records it: the one process that
\* has seen all that is recorded can do so, for every other the script is there.
LEMMA MigrateKeeps ==
    ASSUME CInv, NEW p \in Processes, Migrate(p)
    PROVE  CInv'
  <1> USE DEF database, controllerHistory
  <1>1. PICK v \in Due(p) :
          IF v \in schema
          THEN Exit(p) /\ UNCHANGED <<schema, recorded>>
          ELSE /\ schema' = schema \cup {v}
               /\ recorded' = recorded \cup {v}
               /\ proc' = [proc EXCEPT ![p].applied = @ \cup {v}]
    BY DEF Migrate
  <1>2. CASE v \in schema
    BY <1>1, <1>2, ExitKeeps DEF Migrate
  <1>3. CASE v \notin schema
    <2> DEFINE new == [proc[p] EXCEPT !.applied = proc[p].applied \cup {v}]
    <2>1. PICK j \in 0..Scripts : proc[p].applied = 1..j
      BY DEF CInv, Segments
    <2>2. PICK k \in 0..Scripts : recorded = 1..k
      BY DEF CInv, Segments
    <2>3. Scripts \in Nat /\ v \in 1..Scripts /\ v \notin 1..j /\ (\A w \in 1..(v - 1) : w \in 1..j)
      BY ControllerAssumption, <2>1 DEF Due
    <2>4. 1..j \subseteq 1..k /\ v \notin 1..k /\ schema = recorded
      BY <1>3, <2>1, <2>2 DEF CInv, Segments
    <2>5. v = j + 1
      <3>1. SUFFICES ASSUME v # j + 1 PROVE FALSE
        OBVIOUS
      <3>2. j + 1 \in 1..(v - 1) /\ j + 1 \notin 1..j
        BY <2>3, <3>1
      <3> QED  BY <2>3, <3>2
    <2>6. k = j
      <3>1. SUFFICES ASSUME k # j PROVE FALSE
        OBVIOUS
      <3>2. k < j
        BY <2>3, <2>4, <2>5, <3>1
      <3>3. j \in 1..j /\ j \notin 1..k
        BY <3>2
      <3> QED  BY <2>4, <3>3
    <2>7. 1..v = 1..j \cup {v} /\ v \in 0..Scripts
      BY <2>3, <2>5
    <2>8. /\ schema' = 1..v /\ recorded' = 1..v /\ recorded \subseteq 1..v
          /\ proc[p].applied \cup {v} = 1..v /\ 1..v \subseteq 1..Scripts
      <3>1. 1..v \subseteq 1..Scripts
        BY <2>3
      <3>2. schema = 1..j /\ recorded = 1..j
        BY <2>2, <2>4, <2>6
      <3>3. schema' = schema \cup {v} /\ recorded' = recorded \cup {v}
        BY <1>1, <1>3
      <3> QED  BY <2>1, <2>7, <3>1, <3>2, <3>3, Zenon
    <2>9. proc[p] \in Process /\ proc' = [proc EXCEPT ![p] = new]
      BY <1>1, <1>3 DEF CInv, TypeOK
    <2>10. /\ new \in Process /\ new.at = proc[p].at /\ new.applied = 1..v
           /\ new.plain = proc[p].plain
      BY <2>8, <2>9 DEF Process
    <2> HIDE DEF new
    <2>11. /\ proc' \in [Processes -> Process] /\ proc'[p] = new
           /\ \A q \in Processes : q # p => proc'[q] = proc[q]
      BY <2>9, <2>10 DEF CInv, TypeOK
    <2>12. proc[p].at = "migrate"
      BY DEF Migrate
    <2>13. LInv' /\ LimiterTypeOK'
      BY TickKeeps DEF CInv, LInv, Migrate
    <2>14. TypeOK'
      BY <2>8, <2>11, <2>13 DEF CInv, TypeOK, Migrate
    <2>15. \A q \in Processes : proc[q].at \notin {"down", "migrate"} => FALSE
      <3>1. SUFFICES ASSUME NEW q \in Processes, proc[q].at \notin {"down", "migrate"} PROVE FALSE
        OBVIOUS
      <3> QED  BY <2>3, <2>2, <2>4, <3>1 DEF CInv, Segments
    <2>16. Segments'
      <3>1. \A q \in Processes : q # p =>
               /\ \E i \in 0..Scripts : proc'[q].applied = 1..i
               /\ proc'[q].applied \subseteq recorded'
               /\ proc'[q].at \in {"down", "migrate"}
        BY <2>8, <2>11, <2>15 DEF CInv, Segments
      <3>2. /\ \E i \in 0..Scripts : proc'[p].applied = 1..i
            /\ proc'[p].applied \subseteq recorded'
            /\ proc'[p].at \in {"down", "migrate"}
        BY <2>7, <2>8, <2>10, <2>11, <2>12
      <3>3. schema' = recorded' /\ \E i \in 0..Scripts : recorded' = 1..i
        BY <2>7, <2>8
      <3> QED  BY <3>1, <3>2, <3>3 DEF Segments
    <2>17. BootstrapFirst' /\ Prepared'
      BY <2>10, <2>11, <2>12 DEF CInv, BootstrapFirst, Prepared, Migrate
    <2>18. SecretsUnique' /\ ReadInPast' /\ FileOpensTheDoor' /\ RevokedNeverReturns'
      BY DEF CInv, SecretsUnique, ReadInPast, FileOpensTheDoor, RevokedNeverReturns, Matches,
         limiterVars, Migrate
    <2> QED  BY <2>13, <2>14, <2>16, <2>17, <2>18 DEF CInv
  <1> QED  BY <1>2, <1>3

\* WriteFile: what another process has prepared is overwritten only when the file
\* was read before that one wrote it.
LEMMA WriteFileKeeps ==
    ASSUME CInv, NEW p \in Processes, WriteFile(p)
    PROVE  CInv'
  <1> USE DEF database
  <1> DEFINE new == [proc[p] EXCEPT !.at = "insert"]
  <1>1. /\ proc[p] \in Process /\ proc[p].at = "write" /\ proc[p].plain # 0
        /\ recorded = 1..Scripts
    BY DEF CInv, TypeOK, Prepared, Segments, WriteFile
  <1>2. proc' = [proc EXCEPT ![p] = new]
    BY DEF WriteFile, Step
  <1>3. /\ new \in Process /\ new.at = "insert" /\ new.applied = proc[p].applied
        /\ new.plain = proc[p].plain
    BY <1>1 DEF Process
  <1> HIDE DEF new
  <1>4. /\ proc' \in [Processes -> Process] /\ proc'[p] = new
        /\ \A q \in Processes : q # p => proc'[q] = proc[q]
    BY <1>2, <1>3 DEF CInv, TypeOK
  <1>5. LInv' /\ LimiterTypeOK'
    BY TickKeeps DEF CInv, LInv, WriteFile
  <1>6. proc[p].plain \in 0..MaxSecrets
    BY <1>1 DEF Process
  <1>7. TypeOK'
    BY <1>4, <1>5, <1>6 DEF CInv, TypeOK, WriteFile
  <1>8. Segments'
    BY <1>1, <1>3, <1>4 DEF CInv, Segments, WriteFile
  <1>9. BootstrapFirst'
    BY <1>3, <1>4 DEF CInv, BootstrapFirst, WriteFile
  <1>10. \A q \in Processes : proc[q].plain # NoFile
    BY NoneAssumption DEF CInv, TypeOK, Process
  <1>11. Prepared'
    <2>1. ASSUME NEW q \in Processes, q # p,
                 proc'[q].at = "insert", tokens'[Bootstrap] = NoToken, ~lost', ~outdated'
          PROVE  FALSE
      <3>1. /\ proc[q].at = "insert" /\ tokens[Bootstrap] = NoToken /\ ~lost /\ ~outdated
            /\ file \in {NoFile, 0}
        BY <1>4, <2>1 DEF WriteFile
      <3> QED  BY <1>10, <3>1 DEF CInv, Prepared
    <2>2. file' = proc'[p].plain
      BY <1>3, <1>4 DEF WriteFile
    <2>3. \A q \in Processes :
             IF proc'[q].at \in {"write", "insert"} THEN proc'[q].plain # 0 ELSE proc'[q].plain = 0
      BY <1>1, <1>3, <1>4 DEF CInv, Prepared
    <2> QED  BY <2>1, <2>2, <2>3 DEF Prepared
  <1>12. SecretsUnique' /\ ReadInPast' /\ FileOpensTheDoor' /\ RevokedNeverReturns'
    BY DEF CInv, SecretsUnique, ReadInPast, FileOpensTheDoor, RevokedNeverReturns, Matches,
       limiterVars, WriteFile
  <1> QED  BY <1>5, <1>7, <1>8, <1>9, <1>11, <1>12 DEF CInv

\* The bootstrap token is inserted into an empty table.
LEMMA InsertBootstrapKeeps ==
    ASSUME CInv, NEW p \in Processes, InsertBootstrap(p)
    PROVE  CInv'
  <1> USE DEF database, controllerHistory
  <1>1. CASE tokens[Bootstrap] # NoToken
    BY <1>1, ExitKeeps DEF InsertBootstrap
  <1>2. CASE tokens[Bootstrap] = NoToken
    <2> DEFINE new == [proc[p] EXCEPT !.at = "listen", !.plain = 0]
               row == [secret |-> proc[p].plain, role |-> "operator", revoked |-> FALSE]
    <2>1. /\ proc[p] \in Process /\ proc[p].at = "insert" /\ proc[p].plain # 0
          /\ recorded = 1..Scripts
      BY DEF CInv, TypeOK, Prepared, Segments, InsertBootstrap
    <2>2. proc' = [proc EXCEPT ![p] = new] /\ tokens' = [tokens EXCEPT ![Bootstrap] = row]
      BY <1>2 DEF InsertBootstrap
    <2>3. 0 \in 0..MaxSecrets /\ Bootstrap \in Names
      BY ControllerAssumption
    <2>4. /\ new \in Process /\ new.at = "listen" /\ new.applied = proc[p].applied
          /\ new.plain = 0
      BY <2>1, <2>3 DEF Process
    <2>5. proc[p].plain \in 1..MaxSecrets
      <3>1. proc[p].plain \in 0..MaxSecrets
        BY <2>1 DEF Process
      <3> QED  BY <2>1, <3>1, ControllerAssumption
    <2>6. row \in Token /\ row.secret = proc[p].plain /\ row # NoToken
      <3>1. row \in Token /\ row.secret = proc[p].plain
        BY <2>5 DEF Token, TokenRoles
      <3> QED  BY <3>1, NoneAssumption
    <2> HIDE DEF new, row
    <2>7. /\ proc' \in [Processes -> Process] /\ proc'[p] = new
          /\ \A q \in Processes : q # p => proc'[q] = proc[q]
      BY <2>2, <2>4 DEF CInv, TypeOK
    <2>8. /\ tokens' \in [Names -> Token \cup {NoToken}] /\ tokens'[Bootstrap] = row
          /\ \A n \in Names : n # Bootstrap => tokens'[n] = NoToken
      BY <1>2, <2>2, <2>3, <2>6 DEF CInv, TypeOK, BootstrapFirst
    <2>9. everRevoked = {}
      BY <1>2 DEF CInv, BootstrapFirst, SecretsUnique
    <2>10. LInv' /\ LimiterTypeOK'
      BY TickKeeps DEF CInv, LInv, InsertBootstrap
    <2>11. TypeOK'
      BY <2>7, <2>8, <2>10 DEF CInv, TypeOK, InsertBootstrap
    <2>12. Segments'
      BY <2>1, <2>4, <2>7 DEF CInv, Segments, InsertBootstrap
    <2>13. BootstrapFirst'
      BY <2>6, <2>8 DEF BootstrapFirst
    <2>14. Prepared'
      BY <2>4, <2>6, <2>7, <2>8 DEF CInv, Prepared
    <2>15. SecretsUnique' /\ RevokedNeverReturns'
      BY <2>8, <2>9 DEF SecretsUnique, RevokedNeverReturns, InsertBootstrap
    <2>16. ReadInPast'
      BY DEF CInv, ReadInPast, InsertBootstrap, limiterVars
    <2>17. FileOpensTheDoor'
      BY <1>2, <2>1, <2>6, <2>8 DEF CInv, FileOpensTheDoor, Prepared, InsertBootstrap
    <2> QED  BY <2>10, <2>11, <2>12, <2>13, <2>14, <2>15, <2>16, <2>17 DEF CInv
  <1> QED  BY <1>1, <1>2

-----------------------------------------------------------------------------
(* Faults *)

\* A process is killed, perhaps while it writes the file or serves.
LEMMA KillKeeps ==
    ASSUME CInv, NEW p \in Processes, Kill(p)
    PROVE  CInv'
  <1> USE DEF database
  <1>1. proc' = [proc EXCEPT ![p] = Down]
    BY DEF Kill, Exit
  <1>2. /\ proc' \in [Processes -> Process] /\ proc'[p] = Down
        /\ \A q \in Processes : q # p => proc'[q] = proc[q]
    BY <1>1, DownProcess DEF CInv, TypeOK
  <1>3. faults' \in 0..MaxFaults /\ 0 \in 0..MaxSecrets
    BY ControllerAssumption DEF CInv, TypeOK, Kill
  <1>4. /\ file' \in {file, 0} /\ (file' = file \/ outdated' \/ file \in {NoFile, 0})
        /\ outdated' \in BOOLEAN /\ (outdated => outdated') /\ lost' = lost /\ tokens' = tokens
    BY DEF Kill, CInv, TypeOK
  <1>7. /\ LInv' /\ LimiterTypeOK' /\ ReadInPast'
        /\ req' \in [Handlers -> Request \cup {Free}]
        /\ \A h \in Handlers : req'[h] = Free \/ req'[h] = req[h]
    <2>1. CASE proc[p].at = "serving"
      <3>1. /\ buckets' = [c \in Clients |-> NoBucket] /\ admitted' = [c \in Clients |-> 0]
            /\ opened' = [c \in Clients |-> 0] /\ clock' = clock
            /\ req' = [h \in Handlers |-> Free]
        BY <2>1 DEF Kill
      <3>2. clock \in Nat /\ 0 \in Nat
        BY DEF CInv, LInv, LimiterTypeOK
      <3>3. LimiterTypeOK'
        BY <3>1, <3>2 DEF LimiterTypeOK
      <3>4. BucketsInPast' /\ Conserved' /\ AdmissionBounded'
        BY <3>1 DEF BucketsInPast, Conserved, AdmissionBounded
      <3>5. req' \in [Handlers -> Request \cup {Free}] /\ \A h \in Handlers : req'[h] = Free
        BY <3>1
      <3>6. ReadInPast'
        BY <3>5 DEF ReadInPast, Free
      <3> QED  BY <3>3, <3>4, <3>5, <3>6 DEF LInv
    <2>2. CASE proc[p].at # "serving"
      <3>1. UNCHANGED <<limiterVars, req>>
        BY <2>2 DEF Kill
      <3> QED  BY <3>1, TickKeeps DEF CInv, LInv, TypeOK, ReadInPast, limiterVars
    <2> QED  BY <2>1, <2>2
  <1>8. TypeOK'
    BY <1>2, <1>3, <1>4, <1>7 DEF CInv, TypeOK, Kill
  <1>9. Segments'
    BY <1>2, DownProcess DEF CInv, Segments, Kill
  <1>10. BootstrapFirst'
    BY <1>2, <1>4, <1>7, DownProcess DEF CInv, BootstrapFirst
  <1>11. \A q \in Processes : proc[q].plain # NoFile
    BY NoneAssumption DEF CInv, TypeOK, Process
  <1>12. Prepared'
    BY <1>2, <1>4, <1>11, DownProcess DEF CInv, Prepared
  <1>13. FileOpensTheDoor'
    <2>1. tokens[Bootstrap] # NoToken => tokens[Bootstrap].secret \notin {NoFile, 0}
      BY ControllerAssumption, NoneAssumption DEF CInv, TypeOK, Token
    <2> QED  BY <1>4, <2>1 DEF CInv, FileOpensTheDoor
  <1>14. SecretsUnique' /\ RevokedNeverReturns'
    BY DEF CInv, SecretsUnique, RevokedNeverReturns, Matches, Kill
  <1> QED  BY <1>7, <1>8, <1>9, <1>10, <1>12, <1>13, <1>14 DEF CInv

\* The token file is lost, or the original is put back.
LEMMA FileKeeps ==
    ASSUME CInv, LoseFile \/ RestoreFile
    PROVE  CInv'
  <1> USE DEF database, controllerHistory
  <1>1. /\ UNCHANGED <<limiterVars, schema, recorded, tokens, proc, req, everRevoked, outdated>>
        /\ lost' \in BOOLEAN /\ (lost => lost')
    BY DEF LoseFile, RestoreFile, CInv, TypeOK
  <1>2. LInv' /\ LimiterTypeOK'
    BY <1>1, TickKeeps DEF CInv, LInv
  <1>3. file' \in {NoFile} \cup 0..MaxSecrets /\ faults' \in 0..MaxFaults
    <2>1. CASE LoseFile
      BY <2>1, ControllerAssumption DEF LoseFile, CInv, TypeOK
    <2>2. CASE RestoreFile
      <3>1. tokens[Bootstrap] \in Token /\ faults' = faults
        BY <2>2, ControllerAssumption DEF RestoreFile, CInv, TypeOK
      <3>2. tokens[Bootstrap].secret \in 1..MaxSecrets
        BY <3>1 DEF Token
      <3> QED  BY <2>2, <3>1, <3>2, ControllerAssumption DEF RestoreFile, CInv, TypeOK
    <2> QED  BY <2>1, <2>2
  <1>4. TypeOK'
    BY <1>1, <1>2, <1>3 DEF CInv, TypeOK
  <1>5. /\ Segments' /\ BootstrapFirst' /\ SecretsUnique' /\ ReadInPast' /\ RevokedNeverReturns'
    BY <1>1 DEF CInv, Segments, BootstrapFirst, SecretsUnique, ReadInPast, RevokedNeverReturns,
       Matches, limiterVars
  <1>6. Prepared' /\ FileOpensTheDoor'
    BY DEF LoseFile, RestoreFile, CInv, Prepared, FileOpensTheDoor
  <1> QED  BY <1>2, <1>4, <1>5, <1>6 DEF CInv

-----------------------------------------------------------------------------
(* Requests *)

\* A step of one request that leaves the tokens alone.
LEMMA RequestStep ==
    ASSUME CInv, LInv', clock' = clock, NEW h \in Handlers,
           req' = [req EXCEPT ![h] = req'[h]], req'[h] \in Request \cup {Free},
           UNCHANGED <<database, file, proc, faults, controllerHistory>>,
           req'[h] # Free => tokens[Bootstrap] # NoToken,
           req'[h].at = "limit" => req'[h].now <= clock
    PROVE  CInv'
  <1> USE DEF database, controllerHistory
  <1>1. /\ req' \in [Handlers -> Request \cup {Free}]
        /\ \A i \in Handlers : i # h => req'[i] = req[i]
    BY DEF CInv, TypeOK
  <1>2. TypeOK'
    BY <1>1 DEF CInv, TypeOK, LInv
  <1>3. Segments' /\ Prepared' /\ SecretsUnique' /\ FileOpensTheDoor' /\ RevokedNeverReturns'
    BY DEF CInv, Segments, Prepared, SecretsUnique, FileOpensTheDoor, RevokedNeverReturns, Matches
  <1>4. BootstrapFirst'
    BY <1>1 DEF CInv, BootstrapFirst
  <1>5. ReadInPast'
    BY <1>1 DEF CInv, ReadInPast
  <1> QED  BY <1>2, <1>3, <1>4, <1>5 DEF CInv

\* A request that is answered.
LEMMA ReplyKeeps ==
    ASSUME CInv, LInv', clock' = clock, NEW h \in Handlers, Reply(h),
           UNCHANGED <<database, file, proc, faults, controllerHistory>>
    PROVE  CInv'
  <1>1. req' = [req EXCEPT ![h] = req'[h]] /\ req'[h] = Free
    BY DEF Reply, CInv, TypeOK
  <1>2. Free.at # "limit"
    BY DEF Free
  <1> QED  BY <1>1, <1>2, RequestStep

\* The tokens and secrets of the requests under way.
LEMMA RequestTyped ==
    ASSUME CInv, NEW h \in Handlers, req[h].at \in {"limit", "auth", "handle"}
    PROVE  req[h] \in Request /\ tokens[Bootstrap] # NoToken
  <1>1. req[h] # Free
    BY DEF Free
  <1> QED  BY <1>1 DEF CInv, TypeOK, BootstrapFirst

\* A request arrives.
LEMMA ArriveKeeps ==
    ASSUME CInv, NEW h \in Handlers, NEW c \in Clients, NEW k \in Held, NEW op \in Ops,
           Arrive(h, c, k, op)
    PROVE  CInv'
  <1> DEFINE new == [op |-> op, at |-> IF Mutating(op) THEN "limit" ELSE "auth",
                     client |-> c, now |-> IF Mutating(op) THEN clock ELSE 0, secret |-> k,
                     role |-> "none"]
  <1>1. tokens[Bootstrap] # NoToken
    BY DEF Arrive, Serving, CInv, BootstrapFirst
  <1>2. k \in 0..MaxSecrets
    <2>1. 1..MaxSecrets \subseteq 0..MaxSecrets
      BY ControllerAssumption
    <2>2. \A n \in Names : tokens[n] # NoToken => tokens[n].secret \in 1..MaxSecrets
      BY DEF CInv, TypeOK, Token
    <2> QED  BY <2>1, <2>2 DEF Held, CInv, TypeOK
  <1>3. LInv' /\ clock' = clock /\ clock \in Nat
    BY TickKeeps DEF CInv, LInv, LimiterTypeOK, Arrive, limiterVars
  <1>4. req' = [req EXCEPT ![h] = new]
    BY DEF Arrive
  <1>5. new \in Request /\ (new.at = "limit" => new.now <= clock)
    BY <1>2, <1>3 DEF Request
  <1> HIDE DEF new
  <1>6. req' = [req EXCEPT ![h] = req'[h]] /\ req'[h] = new
    BY <1>4 DEF CInv, TypeOK
  <1> QED  BY <1>1, <1>3, <1>5, <1>6, RequestStep DEF Arrive

\* The limiter admits a request or turns it away.
LEMMA LimitKeeps ==
    ASSUME CInv, NEW h \in Handlers, Limit(h)
    PROVE  CInv'
  <1>1. req[h].at = "limit" /\ UNCHANGED <<database, file, proc, faults, controllerHistory>>
    BY DEF Limit
  <1>2. req[h] \in Request /\ tokens[Bootstrap] # NoToken /\ req[h].now <= clock
    BY <1>1, RequestTyped DEF CInv, ReadInPast
  <1>3. req[h].client \in Clients /\ req[h].now \in 0..clock
    <2>1. req[h].client \in Clients /\ req[h].now \in Nat /\ clock \in Nat
      BY <1>2 DEF Request, CInv, LInv, LimiterTypeOK
    <2> QED  BY <1>2, <2>1
  <1>4. CASE Allow(req[h].client, req[h].now) /\ req' = [req EXCEPT ![h].at = "auth", ![h].now = 0]
    <2> DEFINE new == [req[h] EXCEPT !.at = "auth", !.now = 0]
    <2>1. LInv' /\ clock' = clock
      BY <1>3, <1>4, RequestKeeps DEF CInv, Allow
    <2>2. req' = [req EXCEPT ![h] = new]
      BY <1>4
    <2>3. new \in Request /\ new.at = "auth"
      BY <1>2 DEF Request
    <2> HIDE DEF new
    <2>4. req' = [req EXCEPT ![h] = req'[h]] /\ req'[h] = new
      BY <2>2 DEF CInv, TypeOK
    <2> QED  BY <1>1, <1>2, <2>1, <2>3, <2>4, RequestStep
  <1>5. CASE Refuse(req[h].client, req[h].now) /\ Reply(h)
    <2>1. LInv' /\ clock' = clock
      BY <1>3, <1>5, RequestKeeps DEF CInv, Refuse
    <2> QED  BY <1>1, <1>5, <2>1, ReplyKeeps
  <1> QED  BY <1>4, <1>5 DEF Limit

\* The token is looked up, and the role checked.
LEMMA AuthenticateKeeps ==
    ASSUME CInv, NEW h \in Handlers, Authenticate(h)
    PROVE  CInv'
  <1>1. /\ req[h].at = "auth"
        /\ UNCHANGED <<limiterVars, database, file, proc, faults, controllerHistory>>
    BY DEF Authenticate
  <1>2. LInv' /\ clock' = clock
    BY <1>1, TickKeeps DEF CInv, limiterVars
  <1>3. req[h] \in Request /\ tokens[Bootstrap] # NoToken
    BY <1>1, RequestTyped
  <1>4. CASE Reply(h)
    BY <1>1, <1>2, <1>4, ReplyKeeps
  <1>5. ASSUME NEW n \in Matches(req[h].secret),
               req' = [req EXCEPT ![h].at = "handle", ![h].secret = 0, ![h].role = tokens[n].role]
        PROVE  CInv'
    <2> DEFINE new == [req[h] EXCEPT !.at = "handle", !.secret = 0, !.role = tokens[n].role]
    <2>1. tokens[n].role \in TokenRoles
      BY DEF Matches, CInv, TypeOK, Token
    <2>2. 0 \in 0..MaxSecrets
      BY ControllerAssumption
    <2>3. req' = [req EXCEPT ![h] = new]
      BY <1>5
    <2>4. new \in Request /\ new.at = "handle"
      BY <1>3, <2>1, <2>2 DEF Request
    <2> HIDE DEF new
    <2>5. req' = [req EXCEPT ![h] = req'[h]] /\ req'[h] = new
      BY <2>3 DEF CInv, TypeOK
    <2> QED  BY <1>1, <1>2, <1>3, <2>4, <2>5, RequestStep
  <1> QED  BY <1>4, <1>5 DEF Authenticate

\* Handlers that leave the tokens alone, and requests that are refused.
LEMMA AnswerKeeps ==
    ASSUME CInv, NEW h \in Handlers, HandleOther(h) \/ Refused(h)
    PROVE  CInv'
  <1>1. Reply(h) /\ UNCHANGED <<limiterVars, database, file, proc, faults, controllerHistory>>
    BY DEF HandleOther, Refused, controllerHistory
  <1>2. LInv' /\ clock' = clock
    BY <1>1, TickKeeps DEF CInv, limiterVars
  <1> QED  BY <1>1, <1>2, ReplyKeeps

\* The frame of the handlers that change tokens.
LEMMA TokenStep ==
    ASSUME CInv, NEW h \in Handlers, Reply(h), req[h].at = "handle",
           UNCHANGED <<limiterVars, schema, recorded, file, proc, faults, lost, outdated>>,
           tokens' \in [Names -> Token \cup {NoToken}], everRevoked' \subseteq 1..MaxSecrets,
           tokens'[Bootstrap] # NoToken, tokens'[Bootstrap].secret = tokens[Bootstrap].secret,
           SecretsUnique', RevokedNeverReturns'
    PROVE  CInv'
  <1>1. LInv' /\ clock' = clock
    BY TickKeeps DEF CInv, limiterVars
  <1>2. /\ req' \in [Handlers -> Request \cup {Free}]
        /\ \A i \in Handlers : req'[i] = Free \/ req'[i] = req[i]
    BY DEF CInv, TypeOK, Reply
  <1>3. tokens[Bootstrap] # NoToken
    BY RequestTyped
  <1>4. TypeOK'
    BY <1>1, <1>2 DEF CInv, TypeOK, LInv
  <1>5. Segments' /\ BootstrapFirst' /\ Prepared' /\ FileOpensTheDoor'
    BY <1>3 DEF CInv, Segments, BootstrapFirst, Prepared, FileOpensTheDoor
  <1>6. ReadInPast'
    <2>1. Free.at # "limit"
      BY DEF Free
    <2> QED  BY <1>1, <1>2, <2>1 DEF CInv, ReadInPast
  <1> QED  BY <1>1, <1>4, <1>5, <1>6 DEF CInv

\* A minted secret is nobody else's, and was never revoked.
LEMMA CreateTokenKeeps ==
    ASSUME CInv, NEW h \in Handlers, NEW n \in Names, NEW role \in TokenRoles,
           CreateToken(h, n, role)
    PROVE  CInv'
  <1> DEFINE row == [secret |-> Fresh, role |-> role, revoked |-> FALSE]
  <1>1. tokens[Bootstrap] # NoToken /\ tokens[n] = NoToken
    BY RequestTyped DEF CreateToken
  <1>2. Fresh \in 1..MaxSecrets /\ Fresh \notin Held
    BY <1>1, FreshExists DEF CInv
  <1>3. row \in Token /\ row.secret = Fresh
    BY <1>2 DEF Token
  <1>4. tokens' = [tokens EXCEPT ![n] = row]
    BY DEF CreateToken
  <1> HIDE DEF row
  <1>5. row # NoToken
    BY <1>3, NoneAssumption
  <1>6. /\ tokens' \in [Names -> Token \cup {NoToken}] /\ tokens'[n] = row
        /\ \A m \in Names : m # n => tokens'[m] = tokens[m]
    BY <1>3, <1>4 DEF CInv, TypeOK
  <1>7. /\ \A m \in Names : tokens[m] # NoToken => tokens[m].secret # Fresh
        /\ Fresh \notin everRevoked /\ everRevoked' = everRevoked
    BY <1>2 DEF Held, CreateToken
  <1>8. SecretsUnique'
    BY <1>1, <1>3, <1>6, <1>7 DEF CInv, SecretsUnique
  <1>9. RevokedNeverReturns'
    <2>1. ASSUME NEW k \in everRevoked', NEW m \in Matches(k)'
          PROVE  FALSE
      <3>1. k \in everRevoked /\ tokens'[m].secret = k /\ m \in Names /\ tokens'[m] # NoToken
            /\ ~tokens'[m].revoked
        BY <1>7, <2>1 DEF Matches
      <3>2. m # n
        BY <1>3, <1>6, <1>7, <3>1
      <3>3. m \in Matches(k)
        BY <1>6, <3>1, <3>2 DEF Matches
      <3> QED  BY <3>1, <3>3 DEF CInv, RevokedNeverReturns
    <2> QED  BY <2>1 DEF RevokedNeverReturns
  <1>10. /\ tokens'[Bootstrap] # NoToken /\ tokens'[Bootstrap].secret = tokens[Bootstrap].secret
    BY <1>1, <1>6, ControllerAssumption
  <1>11. everRevoked' \subseteq 1..MaxSecrets
    BY <1>7 DEF CInv, TypeOK
  <1> QED  BY <1>6, <1>8, <1>9, <1>10, <1>11, TokenStep DEF CreateToken

\* The revoked row stays, and no other holds its secret.
LEMMA RevokeTokenKeeps ==
    ASSUME CInv, NEW h \in Handlers, NEW n \in Names, RevokeToken(h, n)
    PROVE  CInv'
  <1> DEFINE row == [tokens[n] EXCEPT !.revoked = TRUE]
  <1>1. tokens[Bootstrap] # NoToken /\ tokens[n] # NoToken /\ tokens[n] \in Token
    BY RequestTyped DEF RevokeToken, CInv, TypeOK
  <1>2. row \in Token /\ row.secret = tokens[n].secret /\ row.revoked = TRUE
    BY <1>1 DEF Token
  <1>3. tokens' = [tokens EXCEPT ![n] = row] /\ everRevoked' = everRevoked \cup {tokens[n].secret}
    BY DEF RevokeToken, Revocation
  <1> HIDE DEF row
  <1>4. row # NoToken
    BY <1>2, NoneAssumption
  <1>5. /\ tokens' \in [Names -> Token \cup {NoToken}] /\ tokens'[n] = row
        /\ \A m \in Names : m # n => tokens'[m] = tokens[m]
    BY <1>2, <1>3 DEF CInv, TypeOK
  <1>6. \A m \in Names : /\ (tokens'[m] # NoToken) <=> (tokens[m] # NoToken)
                         /\ tokens[m] # NoToken => tokens'[m].secret = tokens[m].secret
    BY <1>1, <1>2, <1>4, <1>5
  <1>7. SecretsUnique'
    BY <1>1, <1>3, <1>6 DEF CInv, SecretsUnique
  <1>8. RevokedNeverReturns'
    <2>1. ASSUME NEW k \in everRevoked', NEW m \in Matches(k)'
          PROVE  FALSE
      <3>1. /\ tokens'[m].secret = k /\ m \in Names /\ tokens'[m] # NoToken
            /\ ~tokens'[m].revoked
        BY <2>1 DEF Matches
      <3>2. m # n
        BY <1>2, <1>5, <3>1
      <3>3. m \in Matches(k)
        BY <1>5, <3>1, <3>2 DEF Matches
      <3>4. k # tokens[n].secret
        BY <1>1, <1>6, <3>1, <3>2 DEF CInv, SecretsUnique
      <3> QED  BY <1>3, <3>3, <3>4 DEF CInv, RevokedNeverReturns
    <2> QED  BY <2>1 DEF RevokedNeverReturns
  <1>9. /\ tokens'[Bootstrap] # NoToken /\ tokens'[Bootstrap].secret = tokens[Bootstrap].secret
    BY <1>1, <1>6, ControllerAssumption
  <1>10. everRevoked' \subseteq 1..MaxSecrets
    BY <1>1, <1>3 DEF CInv, TypeOK, Token
  <1> QED  BY <1>5, <1>7, <1>8, <1>9, <1>10, TokenStep DEF RevokeToken

\* Time passes, or nothing happens.
LEMMA PassTimeKeeps ==
    ASSUME CInv, PassTime \/ UNCHANGED vars
    PROVE  CInv'
  <1> USE DEF database, controllerHistory
  <1>1. /\ Tick \/ UNCHANGED limiterVars
        /\ UNCHANGED <<database, file, proc, req, faults, controllerHistory>>
    BY DEF PassTime, vars
  <1>2. LInv' /\ clock \in Nat /\ clock' \in Nat /\ clock <= clock'
    BY <1>1, TickKeeps DEF CInv, LInv, LimiterTypeOK, Tick, limiterVars
  <1>3. TypeOK'
    BY <1>1, <1>2 DEF CInv, TypeOK, LInv
  <1>4. Segments' /\ BootstrapFirst' /\ Prepared' /\ SecretsUnique' /\ FileOpensTheDoor'
        /\ RevokedNeverReturns'
    BY <1>1 DEF CInv, Segments, BootstrapFirst, Prepared, SecretsUnique, FileOpensTheDoor,
       RevokedNeverReturns, Matches
  <1>5. ReadInPast'
    <2>1. ASSUME NEW h \in Handlers, req[h].at = "limit" PROVE req[h].now <= clock'
      <3>1. req[h] \in Request /\ req[h].now <= clock
        BY <2>1, RequestTyped DEF CInv, ReadInPast
      <3>2. req[h].now \in Nat
        BY <3>1 DEF Request
      <3> QED  BY <1>2, <3>1, <3>2
    <2> QED  BY <1>1, <2>1 DEF ReadInPast
  <1> QED  BY <1>2, <1>3, <1>4, <1>5 DEF CInv

-----------------------------------------------------------------------------
(* Theorems *)

\* Every step of the controller keeps the invariant.
LEMMA NextCInv == CInv /\ [Next]_vars => CInv'
  <1> SUFFICES ASSUME CInv, [Next]_vars PROVE CInv'
    OBVIOUS
  <1>1. ASSUME NEW p \in Processes, StartUp(p) PROVE CInv'
    BY <1>1, StartKeeps, MigrateKeeps, MigratedKeeps, HasTokenNameKeeps, StatFileKeeps,
       ReadFileKeeps, WriteFileKeeps, InsertBootstrapKeeps, ListenKeeps DEF StartUp
  <1>2. ASSUME NEW p \in Processes, Kill(p) PROVE CInv'
    BY <1>2, KillKeeps
  <1>3. ASSUME NEW h \in Handlers, NEW c \in Clients, NEW k \in Held, NEW op \in Ops,
               Arrive(h, c, k, op)
        PROVE  CInv'
    BY <1>3, ArriveKeeps
  <1>4. ASSUME NEW h \in Handlers, Limit(h) \/ Authenticate(h) \/ HandleOther(h) \/ Refused(h)
        PROVE  CInv'
    BY <1>4, LimitKeeps, AuthenticateKeeps, AnswerKeeps
  <1>5. ASSUME NEW h \in Handlers, NEW n \in Names, RevokeToken(h, n) PROVE CInv'
    BY <1>5, RevokeTokenKeeps
  <1>6. ASSUME NEW h \in Handlers, NEW n \in Names, NEW role \in TokenRoles,
               CreateToken(h, n, role)
        PROVE  CInv'
    BY <1>6, CreateTokenKeeps
  <1>7. CASE LoseFile \/ RestoreFile
    BY <1>7, FileKeeps
  <1>8. CASE PassTime \/ UNCHANGED vars
    BY <1>8, PassTimeKeeps
  <1> QED  BY <1>1, <1>2, <1>3, <1>4, <1>5, <1>6, <1>7, <1>8 DEF Next

\* CInv holds throughout: what start-up, migrations, kills, minting, revocation
\* and the limiter rely on of each other (cmd/controller, store, auth, api).
THEOREM ControllerInvariant == Spec => []CInv
  BY InitCInv, NextCInv, PTL DEF Spec

\* The database, the token file, the processes and the requests keep their types;
\* newSecret never runs out (Controller's TypeOK).
THEOREM ControllerTyped == Spec => []TypeOK
  <1>1. CInv => TypeOK
    BY DEF CInv
  <1> QED  BY <1>1, ControllerInvariant, PTL

\* However many processes start on one data directory, in whatever order they
\* run the scripts and wherever they are killed, the record agrees with the
\* schema and a controller serves on the complete one only (migrate).
THEOREM FullSchemaServed == Spec => []ServesFullSchema
  <1>1. CInv => ServesFullSchema
    BY DEF CInv, Segments, ServesFullSchema, Serving
  <1> QED  BY <1>1, ControllerInvariant, PTL

\* The bootstrap file holds the bootstrap token's secret, wherever first starts
\* are killed, unless two of them overlapped or the file was removed
\* (EnsureBootstrapToken).
THEOREM BootstrapFileIsRight == Spec => []FileOpensTheDoor
  <1>1. CInv => FileOpensTheDoor
    BY DEF CInv
  <1> QED  BY <1>1, ControllerInvariant, PTL

\* No sequence of minting, revocation, kills and restarts makes a revoked secret
\* valid again (RevokeToken, EnsureBootstrapToken, Authenticate).
THEOREM RevocationIsFinal == Spec => []RevokedNeverReturns
  <1>1. CInv => RevokedNeverReturns
    BY DEF CInv
  <1> QED  BY <1>1, ControllerInvariant, PTL

\* The limiter's bound holds for the requests that reach it, restarts included
\* (limiter.allow behind authn).
THEOREM AdmissionIsBounded == Spec => []AdmissionBounded
  <1>1. CInv => AdmissionBounded
    BY DEF CInv, LInv
  <1> QED  BY <1>1, ControllerInvariant, PTL
=============================================================================
