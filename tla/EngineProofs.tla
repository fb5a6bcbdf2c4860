---------------------------- MODULE EngineProofs ----------------------------
(***************************************************************************)
(* Proofs about Engine.  What a sequence of iptables commands does to the  *)
(* chains is computed by a recursive function; its facts are proved by     *)
(* induction over the natural numbers in the form of a set that contains 0 *)
(* and the successors of its members.                                      *)
(***************************************************************************)
EXTENDS Engine, FiniteSetTheorems, WellFoundedInduction, SequenceTheorems, TLAPS

-----------------------------------------------------------------------------
(* The invariants *)

Leads(s) == {s[i] : i \in DOMAIN s}
Agree(A) == \A x, y \in A : x = y

(* Where the DNAT rules of a mapping among some rules lead, and where the  *)
(* deleted ones on record led.                                             *)
DnatOf(rs, m) == {rs[i].to : i \in {j \in DOMAIN rs : rs[j].chain = "DNAT" /\ rs[j].id = m}}
Held(m) == DnatOf(lastDel, m)

(* Replaying the records of this or of an earlier transaction, onto the    *)
(* chains as they are or onto the snapshot, adds no second destination.    *)
RecordsAgree ==
    \A m \in Mappings :
        /\ Agree(Leads(chain["DNAT"][m]) \cup Held(m))
        /\ \A s \in snapshot : Agree(Leads(s.chain["DNAT"][m]) \cup Held(m))

(* A mapping whose turn is still to come has no records in this            *)
(* transaction and is as the snapshot has it, and one that will be added   *)
(* has no rule.                                                            *)
TurnToCome ==
    pc = "apply" =>
        \A m \in Mappings :
            /\ todo.fw[m] = "ADD" => chain["DNAT"][m] = <<>>
            /\ ~todo.base /\ todo.fw[m] # "KEEP" =>
                  /\ Held(m) = {}
                  /\ \A s \in snapshot : s.chain["DNAT"][m] = chain["DNAT"][m]

(* An interface that was up when the transaction began is up, and neither  *)
(* to be created nor noted as created.                                     *)
UpStaysUp ==
    pc # "idle" =>
        \A i \in Ifaces : before.ifc[i] = "up" =>
            ifc[i] = "up" /\ i \notin created /\ i \notin todo.tun

(* Without faults the rules of a mapping are the same in all three chains, *)
(* one or none.                                                            *)
Even(m) ==
    \/ \A c \in Chains : chain[c][m] = <<>>
    \/ \E x \in Addresses : \A c \in Chains : chain[c][m] = <<x>>
Exact(m) ==
    \A c \in Chains : chain[c][m] = IF m \in desired.want THEN <<desired.addr>> ELSE <<>>
Planned(m) ==
    CASE todo.fw[m] = "KEEP" -> Exact(m)
      [] todo.fw[m] = "ADD" -> m \in desired.want /\ \A c \in Chains : chain[c][m] = <<>>
      [] todo.fw[m] = "CHANGE" -> m \in desired.want
      [] todo.fw[m] = "DELETE" -> m \notin desired.want

(* As long as no command fails nothing is rolled back, and what is not on  *)
(* the plan is as desired.                                                 *)
OnPlan ==
    faults = 0 =>
        /\ pc \in {"idle", "apply"}
        /\ \A m \in Mappings : Even(m)
        /\ \A i \in Ifaces : ifc[i] # "bare"
        /\ todo.hap # "reload" /\ Systemctl => running = cfg
        /\ pc = "idle" => todo = NoPlan
        /\ pc = "apply" =>
              /\ result = "none"
              /\ todo.hap # "write" => cfg.routes = desired.routes
              /\ \A i \in Ifaces : i \notin todo.tun => ifc[i] = "up"
              /\ \A m \in Mappings : Planned(m)

(* While rollback knows everything this transaction did to the rules: the  *)
(* rules there are, less those on record as added, plus those on record as *)
(* deleted, are the rules of before, and so is the snapshot.               *)
Rule(c, m, a) == [chain |-> c, id |-> m, to |-> a]
Balanced ==
    \A c \in Chains, m \in Mappings, x \in Addresses :
        Count(chain[c][m], x) + Count(lastDel, Rule(c, m, x))
            = Count(before.chain[c][m], x) + Count(lastAdd, Rule(c, m, x))
Undoable ==
    exact =>
        /\ pc # "idle" /\ before.chain \in Tables
        /\ pc = "apply" => \A m \in Mappings : todo.fw[m] # "CHANGE"
        /\ pc = "apply" /\ todo.base => chain = before.chain
        /\ (pc = "apply" /\ ~todo.base) \/ pc \in {"undoHap", "undoFw"} =>
              Balanced /\ \A s \in snapshot : s.chain = before.chain

EInv ==
    /\ TypeOK
    /\ Undoable
    /\ RecordsAgree
    /\ TurnToCome
    /\ UpStaysUp
    /\ OnPlan
    /\ FaultFreeIsExact

-----------------------------------------------------------------------------
(* Induction *)

Less == {p \in Nat \X Nat : p[1] < p[2]}

(* Every set of natural numbers has a least member. *)
LEMMA LeastMember ==
    ASSUME NEW T, T \subseteq Nat, T # {}
    PROVE  \E x \in T : \A y \in T : x <= y
  <1>1. IsWellFoundedOn(Less, Nat)
    BY NatLessThanWellFounded DEF OpToRel, Less
  <1>2. PICK x \in T : \A y \in T : ~ (<<y, x>> \in Less)
    BY <1>1, WFMin
  <1>3. ASSUME NEW y \in T PROVE x <= y
    <2>1. x \in Nat /\ y \in Nat
      OBVIOUS
    <2>2. <<y, x>> \in Nat \X Nat /\ <<y, x>>[1] = y /\ <<y, x>>[2] = x
      BY <2>1
    <2>3. ~ (y < x)
      BY <2>2, <1>2 DEF Less
    <2> QED  BY <2>1, <2>3
  <1> QED  BY <1>3

(* A set with 0 and with the successors of its members has every number. *)
LEMMA Induction ==
    ASSUME NEW S, 0 \in S, \A n \in Nat : n \in S => n + 1 \in S
    PROVE  Nat \subseteq S
  <1> DEFINE T == {n \in Nat : n \notin S}
  <1> SUFFICES ASSUME T # {} PROVE FALSE
    OBVIOUS
  <1>1. PICK x \in T : \A y \in T : x <= y
    <2>1. T \subseteq Nat
      OBVIOUS
    <2> HIDE DEF T
    <2> QED  BY <2>1, LeastMember
  <1>2. x # 0 /\ x \in Nat
    OBVIOUS
  <1>3. x - 1 \in Nat /\ x - 1 \notin T
    BY <1>1, <1>2
  <1> QED  BY <1>3, <1>2

(* The same up to a bound. *)
LEMMA BoundedInduction ==
    ASSUME NEW S, NEW n \in Nat, 0 \in S, \A k \in 0..(n - 1) : k \in S => k + 1 \in S
    PROVE  0..n \subseteq S
  <1> DEFINE T == {k \in Nat : k <= n => k \in S}
  <1>1. 0 \in T
    OBVIOUS
  <1>2. \A k \in Nat : k \in T => k + 1 \in T
    <2> SUFFICES ASSUME NEW k \in Nat, k \in T, k + 1 <= n PROVE k + 1 \in S
      OBVIOUS
    <2>1. k \in S /\ k \in 0..(n - 1)
      OBVIOUS
    <2> QED  BY <2>1
  <1>3. Nat \subseteq T
    <2> HIDE DEF T
    <2> QED  BY <1>1, <1>2, Induction
  <1> QED  BY <1>3

-----------------------------------------------------------------------------
(* Sequences of commands *)

Unfolds(g, n, ch, cmds) ==
    g = [k \in 0..n |-> IF k = 0 THEN ch ELSE Do(g[k - 1], cmds[k])]

(* The recursive function that Run speaks of exists. *)
LEMMA RunExists ==
    ASSUME NEW ch, NEW cmds, NEW n \in Nat
    PROVE  \E g : Unfolds(g, n, ch, cmds)
  <1> DEFINE S == {k \in Nat : \E g : Unfolds(g, k, ch, cmds)}
  <1>1. 0 \in S
    <2>1. Unfolds([k \in 0..0 |-> ch], 0, ch, cmds)
      BY DEF Unfolds
    <2> QED  BY <2>1
  <1>2. ASSUME NEW k \in Nat, k \in S PROVE k + 1 \in S
    <2>1. PICK g : Unfolds(g, k, ch, cmds)
      BY <1>2
    <2> DEFINE h == [j \in 0..(k + 1) |-> IF j = k + 1 THEN Do(g[k], cmds[j]) ELSE g[j]]
    <2>2. ASSUME NEW j \in 0..(k + 1)
          PROVE  h[j] = IF j = 0 THEN ch ELSE Do(h[j - 1], cmds[j])
      <3>1. CASE j = k + 1
        BY <3>1
      <3>2. CASE j # k + 1
        <4>1. j \in 0..k /\ (j # 0 => j - 1 \in 0..k)
          BY <3>2
        <4>2. h[j] = g[j] /\ (j # 0 => h[j - 1] = g[j - 1])
          BY <4>1
        <4>3. g[j] = IF j = 0 THEN ch ELSE Do(g[j - 1], cmds[j])
          BY <2>1, <4>1 DEF Unfolds
        <4> QED  BY <4>2, <4>3
      <3> QED  BY <3>1, <3>2
    <2>3. Unfolds(h, k + 1, ch, cmds)
      <3> HIDE DEF h
      <3>1. h = [j \in 0..(k + 1) |-> h[j]]
        BY DEF h
      <3> QED  BY <3>1, <2>2 DEF Unfolds
    <2> QED  BY <2>3
  <1>3. Nat \subseteq S
    <2> HIDE DEF S
    <2> QED  BY <1>1, <1>2, Induction
  <1> QED  BY <1>3

(* Run, command by command. *)
LEMMA RunUnfolds ==
    ASSUME NEW ch, NEW cmds, Len(cmds) \in Nat
    PROVE  /\ Run(ch, cmds)[0] = ch
           /\ \A k \in 0..(Len(cmds) - 1) :
                 Run(ch, cmds)[k + 1] = Do(Run(ch, cmds)[k], cmds[k + 1])
  <1>1. Run(ch, cmds) = CHOOSE g : Unfolds(g, Len(cmds), ch, cmds)
    BY DEF Run, Unfolds
  <1>2. Unfolds(Run(ch, cmds), Len(cmds), ch, cmds)
    BY <1>1, RunExists
  <1> DEFINE g == Run(ch, cmds)
  <1> HIDE DEF g
  <1>3. g = [k \in 0..Len(cmds) |-> IF k = 0 THEN ch ELSE Do(g[k - 1], cmds[k])]
    BY <1>2 DEF Unfolds, g
  <1>4. g[0] = ch
    BY <1>3
  <1>5. ASSUME NEW k \in 0..(Len(cmds) - 1) PROVE g[k + 1] = Do(g[k], cmds[k + 1])
    <2>1. k + 1 \in 0..Len(cmds) /\ k + 1 # 0 /\ (k + 1) - 1 = k
      OBVIOUS
    <2> QED  BY <1>3, <2>1
  <1> QED  BY <1>4, <1>5 DEF g

(* RemoveFirst takes out one occurrence, if there is one. *)
LEMMA RemoveFirstPlace ==
    ASSUME NEW s \in Seq(Addresses), NEW x, \E i \in 1..Len(s) : s[i] = x
    PROVE  \E j \in 1..Len(s) :
              /\ s[j] = x
              /\ RemoveFirst(s, x) = SubSeq(s, 1, j - 1) \o SubSeq(s, j + 1, Len(s))
  <1> DEFINE I == {i \in 1..Len(s) : s[i] = x}
  <1>1. I # {} /\ I \subseteq Nat
    OBVIOUS
  <1>2. \E j \in I : \A i \in I : j <= i
    <2> HIDE DEF I
    <2> QED  BY <1>1, LeastMember
  <1>3. Min(I) \in I
    <2> HIDE DEF I
    <2> QED  BY <1>2 DEF Min
  <1>4. RemoveFirst(s, x) = RemoveAt(s, Min(I))
    BY <1>1 DEF RemoveFirst, SelectInSeq
  <1> QED  BY <1>3, <1>4 DEF RemoveAt

(* A sequence without the first x, place by place. *)
LEMMA RemoveFirstTaken ==
    ASSUME NEW s \in Seq(Addresses), NEW x, \E i \in 1..Len(s) : s[i] = x
    PROVE  \E j \in 1..Len(s) :
              /\ s[j] = x
              /\ RemoveFirst(s, x) \in Seq(Addresses)
              /\ Len(RemoveFirst(s, x)) = Len(s) - 1
              /\ \A i \in 1..(Len(s) - 1) : RemoveFirst(s, x)[i] = IF i < j THEN s[i] ELSE s[i + 1]
  <1>1. PICK j \in 1..Len(s) :
              /\ s[j] = x
              /\ RemoveFirst(s, x) = SubSeq(s, 1, j - 1) \o SubSeq(s, j + 1, Len(s))
    BY RemoveFirstPlace
  <1>2. Len(s) \in Nat /\ \A i \in 1..Len(s) : s[i] \in Addresses
    OBVIOUS
  <1> DEFINE a == SubSeq(s, 1, j - 1)
             b == SubSeq(s, j + 1, Len(s))
  <1>3. /\ a \in Seq(Addresses) /\ Len(a) = j - 1
        /\ \A i \in 1..(j - 1) : a[i] = s[i]
    <2>1. \A i \in 1..(j - 1) : s[i] \in Addresses
      BY <1>2
    <2> QED  BY <2>1, <1>2, SubSeqProperties
  <1>4. /\ b \in Seq(Addresses) /\ Len(b) = Len(s) - j
        /\ \A i \in 1..(Len(s) - j) : b[i] = s[j + i]
    <2>1. \A i \in (j + 1)..Len(s) : s[i] \in Addresses
      BY <1>2
    <2> QED  BY <2>1, <1>2, SubSeqProperties
  <1> HIDE DEF a, b
  <1>5. /\ a \o b \in Seq(Addresses) /\ Len(a \o b) = Len(a) + Len(b)
        /\ \A i \in 1..(Len(a) + Len(b)) : (a \o b)[i] = IF i <= Len(a) THEN a[i] ELSE b[i - Len(a)]
    BY <1>3, <1>4, ConcatProperties
  <1>6. Len(a) + Len(b) = Len(s) - 1
    BY <1>2, <1>3, <1>4
  <1>7. ASSUME NEW i \in 1..(Len(s) - 1) PROVE (a \o b)[i] = IF i < j THEN s[i] ELSE s[i + 1]
    <2>1. CASE i < j
      BY <2>1, <1>2, <1>3, <1>5, <1>6
    <2>2. CASE ~(i < j)
      <3>1. i - Len(a) \in 1..(Len(s) - j) /\ j + (i - Len(a)) = i + 1 /\ ~(i <= Len(a))
        BY <2>2, <1>2, <1>3
      <3> QED  BY <3>1, <2>2, <1>4, <1>5, <1>6
    <2> QED  BY <2>1, <2>2
  <1> QED  BY <1>1, <1>5, <1>6, <1>7 DEF a, b

(* So its type and what it leads to. *)
LEMMA RemoveFirstType ==
    ASSUME NEW s \in Seq(Addresses), NEW x
    PROVE  RemoveFirst(s, x) \in Seq(Addresses) /\ Leads(RemoveFirst(s, x)) \subseteq Leads(s)
  <1>1. CASE \E i \in 1..Len(s) : s[i] = x
    <2>1. PICK j \in 1..Len(s) :
              /\ RemoveFirst(s, x) \in Seq(Addresses)
              /\ Len(RemoveFirst(s, x)) = Len(s) - 1
              /\ \A i \in 1..(Len(s) - 1) : RemoveFirst(s, x)[i] = IF i < j THEN s[i] ELSE s[i + 1]
      BY <1>1, RemoveFirstTaken
    <2>2. ASSUME NEW i \in DOMAIN RemoveFirst(s, x)
          PROVE  RemoveFirst(s, x)[i] \in Leads(s)
      <3>1. i \in 1..(Len(s) - 1) /\ i \in 1..Len(s) /\ i + 1 \in 1..Len(s) /\ DOMAIN s = 1..Len(s)
        BY <2>1
      <3> QED  BY <2>1, <3>1 DEF Leads
    <2> QED  BY <2>1, <2>2 DEF Leads
  <1>2. CASE ~ \E i \in 1..Len(s) : s[i] = x
    BY <1>2 DEF RemoveFirst
  <1> QED  BY <1>1, <1>2

Cmds == [kind : {"A", "D"}, rule : Rules]
Touches(cmd, c, m) == cmd.rule.chain = c /\ cmd.rule.id = m
Edited(s, cmd) == IF cmd.kind = "A" THEN Append(s, cmd.rule.to) ELSE RemoveFirst(s, cmd.rule.to)

(* A command edits one sequence of one chain. *)
LEMMA DoEdits ==
    ASSUME NEW ch \in Tables, NEW cmd \in Cmds
    PROVE  /\ Do(ch, cmd) \in Tables
           /\ \A c \in Chains, m \in Mappings :
                 Do(ch, cmd)[c][m] = IF Touches(cmd, c, m) THEN Edited(ch[c][m], cmd) ELSE ch[c][m]
  <1> DEFINE c0 == cmd.rule.chain
             m0 == cmd.rule.id
             new == Edited(ch[c0][m0], cmd)
  <1>1. c0 \in Chains /\ m0 \in Mappings /\ cmd.rule.to \in Addresses
    BY DEF Cmds, Rules
  <1>2. ch[c0] \in [Mappings -> Seq(Addresses)] /\ ch[c0][m0] \in Seq(Addresses)
    BY <1>1 DEF Tables
  <1>3. new \in Seq(Addresses)
    BY <1>1, <1>2, RemoveFirstType, AppendProperties DEF Edited
  <1>4. Do(ch, cmd) = [ch EXCEPT ![c0] = [ch[c0] EXCEPT ![m0] = new]]
    BY <1>1, <1>2 DEF Do, Edited, Tables
  <1> HIDE DEF new
  <1>5. Do(ch, cmd) \in Tables
    BY <1>1, <1>2, <1>3, <1>4 DEF Tables
  <1>6. ASSUME NEW c \in Chains, NEW m \in Mappings
        PROVE  Do(ch, cmd)[c][m] = IF c0 = c /\ m0 = m THEN new ELSE ch[c][m]
    <2>1. CASE c = c0
      <3>1. Do(ch, cmd)[c] = [ch[c0] EXCEPT ![m0] = new]
        BY <1>1, <1>4, <2>1 DEF Tables
      <3> QED  BY <3>1, <1>2, <2>1
    <2>2. CASE c # c0
      BY <1>1, <1>4, <2>2 DEF Tables
    <2> QED  BY <2>1, <2>2
  <1> QED  BY <1>5, <1>6 DEF Touches, new

(* Where rules lead after a command. *)
LEMMA EditedLeads ==
    ASSUME NEW s \in Seq(Addresses), NEW cmd \in Cmds
    PROVE  /\ Edited(s, cmd) \in Seq(Addresses)
           /\ cmd.kind = "A" => Leads(Edited(s, cmd)) \subseteq Leads(s) \cup {cmd.rule.to}
           /\ cmd.kind = "D" => Leads(Edited(s, cmd)) \subseteq Leads(s)
  <1>1. cmd.rule.to \in Addresses /\ cmd.kind \in {"A", "D"}
    BY DEF Cmds, Rules
  <1>2. CASE cmd.kind = "A"
    <2>1. Edited(s, cmd) = Append(s, cmd.rule.to)
      BY <1>2 DEF Edited
    <2>2. /\ Append(s, cmd.rule.to) \in Seq(Addresses)
          /\ Len(Append(s, cmd.rule.to)) = Len(s) + 1
          /\ \A i \in 1..Len(s) : Append(s, cmd.rule.to)[i] = s[i]
          /\ Append(s, cmd.rule.to)[Len(s) + 1] = cmd.rule.to
      BY <1>1, AppendProperties
    <2>3. Len(s) \in Nat /\ DOMAIN s = 1..Len(s)
      OBVIOUS
    <2>4. DOMAIN Append(s, cmd.rule.to) = 1..(Len(s) + 1)
      BY <2>2
    <2>5. \A i \in 1..(Len(s) + 1) : i \in 1..Len(s) \/ i = Len(s) + 1
      BY <2>3
    <2> QED  BY <1>2, <2>1, <2>2, <2>3, <2>4, <2>5 DEF Leads
  <1>3. CASE cmd.kind = "D"
    BY <1>3, RemoveFirstType DEF Edited
  <1> QED  BY <1>1, <1>2, <1>3

(* The chains stay chains. *)
LEMMA RunTyped ==
    ASSUME NEW ch \in Tables, NEW cmds \in Seq(Cmds)
    PROVE  \A k \in 0..Len(cmds) : Run(ch, cmds)[k] \in Tables
  <1> DEFINE S == {k \in Nat : Run(ch, cmds)[k] \in Tables}
  <1>1. Len(cmds) \in Nat /\ 0 \in S
    BY RunUnfolds
  <1>2. ASSUME NEW k \in 0..(Len(cmds) - 1), k \in S PROVE k + 1 \in S
    <2>1. cmds[k + 1] \in Cmds
      BY <1>1
    <2> QED  BY <1>1, <1>2, <2>1, RunUnfolds, DoEdits
  <1>3. 0..Len(cmds) \subseteq S
    <2> HIDE DEF S
    <2> QED  BY <1>1, <1>2, BoundedInduction
  <1> QED  BY <1>3

(* A command that does not touch a sequence leaves it alone. *)
LEMMA RunStep ==
    ASSUME NEW ch \in Tables, NEW cmds \in Seq(Cmds), NEW k \in 0..(Len(cmds) - 1),
           NEW c \in Chains, NEW m \in Mappings
    PROVE  /\ Run(ch, cmds)[k][c][m] \in Seq(Addresses)
           /\ cmds[k + 1] \in Cmds
           /\ Run(ch, cmds)[k + 1][c][m] =
                 IF Touches(cmds[k + 1], c, m) THEN Edited(Run(ch, cmds)[k][c][m], cmds[k + 1])
                 ELSE Run(ch, cmds)[k][c][m]
  <1>1. Len(cmds) \in Nat /\ k \in 0..Len(cmds) /\ k + 1 \in 1..Len(cmds)
    OBVIOUS
  <1>2. Run(ch, cmds)[k] \in Tables /\ cmds[k + 1] \in Cmds
    BY <1>1, RunTyped
  <1>3. Run(ch, cmds)[k + 1] = Do(Run(ch, cmds)[k], cmds[k + 1])
    BY <1>1, RunUnfolds
  <1>4. Run(ch, cmds)[k][c][m] \in Seq(Addresses)
    BY <1>2 DEF Tables
  <1> QED  BY <1>2, <1>3, <1>4, DoEdits

(* Commands lead nowhere but where they say and where the rules led before. *)
LEMMA RunLeads ==
    ASSUME NEW ch \in Tables, NEW cmds \in Seq(Cmds), NEW c \in Chains, NEW m \in Mappings, NEW A,
           Leads(ch[c][m]) \subseteq A,
           \A k \in 1..Len(cmds) :
              cmds[k].kind = "A" /\ Touches(cmds[k], c, m) => cmds[k].rule.to \in A
    PROVE  \A k \in 0..Len(cmds) : Leads(Run(ch, cmds)[k][c][m]) \subseteq A
  <1> DEFINE S == {k \in Nat : Leads(Run(ch, cmds)[k][c][m]) \subseteq A}
  <1>1. Len(cmds) \in Nat /\ 0 \in S
    BY RunUnfolds
  <1>2. ASSUME NEW k \in 0..(Len(cmds) - 1), k \in S PROVE k + 1 \in S
    <2>1. k + 1 \in 1..Len(cmds) /\ k + 1 \in Nat
      BY <1>1
    <2>2. cmds[k + 1] \in Cmds /\ cmds[k + 1].kind \in {"A", "D"}
      BY RunStep DEF Cmds
    <2> DEFINE s == Run(ch, cmds)[k][c][m]
               t == Run(ch, cmds)[k + 1][c][m]
    <2>3. s \in Seq(Addresses) /\ Leads(s) \subseteq A
      BY <1>2, RunStep
    <2>4. t = IF Touches(cmds[k + 1], c, m) THEN Edited(s, cmds[k + 1]) ELSE s
      BY RunStep
    <2> HIDE DEF s, t
    <2>5. Leads(t) \subseteq A
      <3>1. CASE ~Touches(cmds[k + 1], c, m)
        BY <3>1, <2>3, <2>4
      <3>2. CASE Touches(cmds[k + 1], c, m) /\ cmds[k + 1].kind = "A"
        <4>1. cmds[k + 1].rule.to \in A
          BY <3>2, <2>1
        <4>2. Leads(t) \subseteq Leads(s) \cup {cmds[k + 1].rule.to}
          BY <3>2, <2>2, <2>3, <2>4, EditedLeads
        <4> QED  BY <4>1, <4>2, <2>3
      <3>3. CASE Touches(cmds[k + 1], c, m) /\ cmds[k + 1].kind = "D"
        BY <3>3, <2>2, <2>3, <2>4, EditedLeads
      <3> QED  BY <3>1, <3>2, <3>3, <2>2
    <2> QED  BY <2>1, <2>5 DEF t
  <1>3. 0..Len(cmds) \subseteq S
    <2> HIDE DEF S
    <2> QED  BY <1>1, <1>2, BoundedInduction
  <1> QED  BY <1>3

(* A sequence of equal addresses of which the commands lo + 1, ..., lo + n *)
(* remove one each, and to which command ad adds one: what is left of it   *)
(* after k commands.                                                       *)
Left(k, lo, n) == IF k <= lo THEN n ELSE IF k <= lo + n THEN n - (k - lo) ELSE 0
Swept(s, k, lo, n, ad, x, a) ==
    IF k < ad THEN Len(s) = Left(k, lo, n) /\ \A i \in 1..Len(s) : s[i] = x ELSE s = <<a>>

(* Commands that sweep the rules of a mapping out of a chain, one by one.  *)
LEMMA Sweep ==
    ASSUME NEW ch \in Tables, NEW cmds \in Seq(Cmds), NEW c \in Chains, NEW m \in Mappings,
           NEW x, NEW a \in Addresses, NEW lo \in Nat, NEW n \in Nat, NEW ad \in Nat,
           n = Len(ch[c][m]), lo + n < ad,
           \A i \in 1..n : ch[c][m][i] = x,
           \A k \in 1..Len(cmds) :
              /\ Touches(cmds[k], c, m) => (lo < k /\ k <= lo + n) \/ k = ad
              /\ lo < k /\ k <= lo + n => Touches(cmds[k], c, m) /\ cmds[k].kind = "D" /\ cmds[k].rule.to = x
              /\ k = ad => Touches(cmds[k], c, m) /\ cmds[k].kind = "A" /\ cmds[k].rule.to = a
    PROVE  \A k \in 0..Len(cmds) : Swept(Run(ch, cmds)[k][c][m], k, lo, n, ad, x, a)
  <1> DEFINE S == {k \in Nat : Swept(Run(ch, cmds)[k][c][m], k, lo, n, ad, x, a)}
  <1>1. Len(cmds) \in Nat /\ 0 \in S
    BY RunUnfolds DEF Swept, Left
  <1>2. ASSUME NEW k \in 0..(Len(cmds) - 1), k \in S PROVE k + 1 \in S
    <2>1. k + 1 \in 1..Len(cmds) /\ k + 1 \in Nat /\ k \in Nat
      BY <1>1
    <2> DEFINE s == Run(ch, cmds)[k][c][m]
               t == Run(ch, cmds)[k + 1][c][m]
    <2>2. s \in Seq(Addresses) /\ Swept(s, k, lo, n, ad, x, a)
      BY <1>2, RunStep
    <2>3. t = IF Touches(cmds[k + 1], c, m) THEN Edited(s, cmds[k + 1]) ELSE s
      BY RunStep
    <2> HIDE DEF s, t
    <2>4. Swept(t, k + 1, lo, n, ad, x, a)
      <3>1. CASE lo < k + 1 /\ k + 1 <= lo + n
        <4>1. t = RemoveFirst(s, x)
          BY <3>1, <2>1, <2>3 DEF Edited
        <4>2. k < ad /\ k + 1 < ad /\ Left(k, lo, n) >= 1 /\ Left(k + 1, lo, n) = Left(k, lo, n) - 1
          BY <3>1, <2>1 DEF Left
        <4>3. Len(s) = Left(k, lo, n) /\ Len(s) \in Nat /\ \A i \in 1..Len(s) : s[i] = x
          BY <2>2, <4>2 DEF Swept
        <4>4. \E i \in 1..Len(s) : s[i] = x
          BY <4>2, <4>3
        <4>5. /\ Len(t) = Len(s) - 1
              /\ \A i \in 1..(Len(s) - 1) : t[i] = s[i] \/ t[i] = s[i + 1]
          BY <2>2, <4>1, <4>4, RemoveFirstTaken
        <4> QED  BY <4>2, <4>3, <4>5 DEF Swept
      <3>2. CASE k + 1 = ad
        <4>1. t = Append(s, a)
          BY <3>2, <2>1, <2>3 DEF Edited
        <4>2. k < ad /\ Left(k, lo, n) = 0
          <5>1. k < ad /\ k >= lo + n
            BY <3>2, <2>1
          <5>2. k <= lo => n = 0
            BY <5>1, <2>1
          <5>3. k <= lo + n => n - (k - lo) = 0
            BY <5>1, <2>1
          <5> QED  BY <5>1, <5>2, <5>3 DEF Left
        <4>3. s = <<>>
          BY <2>2, <4>2 DEF Swept
        <4>4. t = <<a>> /\ ~(k + 1 < ad)
          BY <3>2, <4>1, <4>3, <2>1
        <4> QED  BY <4>4 DEF Swept
      <3>3. CASE k + 1 # ad /\ ~(lo < k + 1 /\ k + 1 <= lo + n)
        <4>1. t = s
          BY <3>3, <2>1, <2>3
        <4>2. (k < ad <=> k + 1 < ad) /\ (k < ad => Left(k + 1, lo, n) = Left(k, lo, n))
          BY <3>3, <2>1 DEF Left
        <4> QED  BY <4>1, <4>2, <2>2 DEF Swept
      <3> QED  BY <3>1, <3>2, <3>3
    <2> QED  BY <2>1, <2>4 DEF t
  <1>3. 0..Len(cmds) \subseteq S
    <2> HIDE DEF S
    <2> QED  BY <1>1, <1>2, BoundedInduction
  <1> QED  BY <1>3

(* Commands and the rules they name. *)
LEMMA CommandsOf ==
    ASSUME NEW kind \in {"A", "D"}, NEW rs \in Seq(Rules)
    PROVE  /\ Commands(kind, rs) \in Seq(Cmds) /\ Len(Commands(kind, rs)) = Len(rs)
           /\ \A k \in 1..Len(rs) : Commands(kind, rs)[k] = [kind |-> kind, rule |-> rs[k]]
  <1>1. DOMAIN rs = 1..Len(rs) /\ Len(rs) \in Nat /\ \A k \in 1..Len(rs) : rs[k] \in Rules
    OBVIOUS
  <1>2. Commands(kind, rs) = [k \in 1..Len(rs) |-> [kind |-> kind, rule |-> rs[k]]]
    BY <1>1 DEF Commands
  <1>3. \A k \in 1..Len(rs) : [kind |-> kind, rule |-> rs[k]] \in Cmds
    BY <1>1 DEF Cmds
  <1> QED  BY <1>1, <1>2, <1>3

(* deleteByCommentCopy reads a chain rule by rule. *)
LEMMA RulesInChain ==
    ASSUME NEW ch \in Tables, NEW c \in Chains, NEW m \in Mappings
    PROVE  /\ ch[c][m] \in Seq(Addresses)
           /\ RulesIn(ch, c, m) \in Seq(Rules) /\ Len(RulesIn(ch, c, m)) = Len(ch[c][m])
           /\ \A i \in 1..Len(ch[c][m]) :
                 RulesIn(ch, c, m)[i] = [chain |-> c, id |-> m, to |-> ch[c][m][i]]
  <1>1. ch[c][m] \in Seq(Addresses)
    BY DEF Tables
  <1> DEFINE s == ch[c][m]
  <1> HIDE DEF s
  <1>2. DOMAIN s = 1..Len(s) /\ Len(s) \in Nat /\ \A i \in 1..Len(s) : s[i] \in Addresses
    BY <1>1 DEF s
  <1>3. RulesIn(ch, c, m) = [i \in 1..Len(s) |-> [chain |-> c, id |-> m, to |-> s[i]]]
    BY <1>2 DEF RulesIn, s
  <1>4. \A i \in 1..Len(s) : [chain |-> c, id |-> m, to |-> s[i]] \in Rules
    BY <1>2 DEF Rules
  <1> QED  BY <1>1, <1>2, <1>3, <1>4 DEF s

(* addMappingRules adds a rule to each chain. *)
LEMMA RulesForMapping ==
    ASSUME NEW m \in Mappings, NEW a \in Addresses
    PROVE  RulesFor(m, a) \in Seq(Rules) /\ Len(RulesFor(m, a)) = 3
  BY DEF RulesFor, Rules, Chains

(* The rules of a mapping stand chain by chain. *)
LEMMA RulesOfPlaces ==
    ASSUME NEW ch \in Tables, NEW m \in Mappings
    PROVE  LET d == ch["DNAT"][m]
               f == ch["FORWARD"][m]
               s == ch["SNAT"][m]
           IN  /\ d \in Seq(Addresses) /\ f \in Seq(Addresses) /\ s \in Seq(Addresses)
               /\ RulesOf(ch, m) \in Seq(Rules)
               /\ Len(RulesOf(ch, m)) = Len(d) + Len(f) + Len(s)
               /\ \A k \in 1..(Len(d) + Len(f) + Len(s)) :
                     RulesOf(ch, m)[k] =
                        IF k <= Len(d) THEN Rule("DNAT", m, d[k])
                        ELSE IF k <= Len(d) + Len(f) THEN Rule("FORWARD", m, f[k - Len(d)])
                        ELSE Rule("SNAT", m, s[k - (Len(d) + Len(f))])
  <1> DEFINE d == ch["DNAT"][m]
             f == ch["FORWARD"][m]
             s == ch["SNAT"][m]
             rd == RulesIn(ch, "DNAT", m)
             rf == RulesIn(ch, "FORWARD", m)
             rs == RulesIn(ch, "SNAT", m)
  <1>1. /\ d \in Seq(Addresses) /\ rd \in Seq(Rules) /\ Len(rd) = Len(d)
        /\ \A i \in 1..Len(d) : rd[i] = Rule("DNAT", m, d[i])
    BY RulesInChain DEF Chains, Rule
  <1>2. /\ f \in Seq(Addresses) /\ rf \in Seq(Rules) /\ Len(rf) = Len(f)
        /\ \A i \in 1..Len(f) : rf[i] = Rule("FORWARD", m, f[i])
    BY RulesInChain DEF Chains, Rule
  <1>3. /\ s \in Seq(Addresses) /\ rs \in Seq(Rules) /\ Len(rs) = Len(s)
        /\ \A i \in 1..Len(s) : rs[i] = Rule("SNAT", m, s[i])
    BY RulesInChain DEF Chains, Rule
  <1>4. RulesOf(ch, m) = (rd \o rf) \o rs
    BY DEF RulesOf
  <1> HIDE DEF d, f, s, rd, rf, rs
  <1>5. Len(d) \in Nat /\ Len(f) \in Nat /\ Len(s) \in Nat
    BY <1>1, <1>2, <1>3
  <1>6. /\ rd \o rf \in Seq(Rules) /\ Len(rd \o rf) = Len(d) + Len(f)
        /\ \A k \in 1..(Len(d) + Len(f)) :
              (rd \o rf)[k] = IF k <= Len(d) THEN rd[k] ELSE rf[k - Len(d)]
    <2>1. rd \in Seq(Rules) /\ rf \in Seq(Rules) /\ Len(rd) = Len(d) /\ Len(rf) = Len(f)
      BY <1>1, <1>2
    <2>2. /\ rd \o rf \in Seq(Rules) /\ Len(rd \o rf) = Len(rd) + Len(rf)
          /\ \A k \in 1..(Len(rd) + Len(rf)) :
                (rd \o rf)[k] = IF k <= Len(rd) THEN rd[k] ELSE rf[k - Len(rd)]
      BY <2>1, ConcatProperties
    <2> QED  BY <2>1, <2>2
  <1> DEFINE r2 == rd \o rf
  <1>7. /\ r2 \o rs \in Seq(Rules) /\ Len(r2 \o rs) = Len(r2) + Len(rs)
        /\ \A k \in 1..(Len(r2) + Len(rs)) :
              (r2 \o rs)[k] = IF k <= Len(r2) THEN r2[k] ELSE rs[k - Len(r2)]
    <2> HIDE DEF r2
    <2>1. r2 \in Seq(Rules)
      BY <1>6 DEF r2
    <2> QED  BY <2>1, <1>3, ConcatProperties
  <1>8. ASSUME NEW k \in 1..(Len(d) + Len(f) + Len(s))
        PROVE  (r2 \o rs)[k] =
                  IF k <= Len(d) THEN Rule("DNAT", m, d[k])
                  ELSE IF k <= Len(d) + Len(f) THEN Rule("FORWARD", m, f[k - Len(d)])
                  ELSE Rule("SNAT", m, s[k - (Len(d) + Len(f))])
    <2>1. (r2 \o rs)[k] = IF k <= Len(d) + Len(f) THEN r2[k] ELSE rs[k - (Len(d) + Len(f))]
      BY <1>3, <1>5, <1>6, <1>7
    <2>2. CASE k <= Len(d)
      <3>1. k \in 1..Len(d) /\ k \in 1..(Len(d) + Len(f))
        BY <2>2, <1>5
      <3>2. r2[k] = rd[k] /\ k <= Len(d) + Len(f)
        BY <3>1, <2>2, <1>6
      <3> QED  BY <3>1, <3>2, <2>1, <2>2, <1>1
    <2>3. CASE ~(k <= Len(d)) /\ k <= Len(d) + Len(f)
      <3>1. k - Len(d) \in 1..Len(f) /\ k \in 1..(Len(d) + Len(f))
        BY <2>3, <1>5
      <3>2. r2[k] = rf[k - Len(d)]
        BY <3>1, <2>3, <1>6
      <3> QED  BY <3>1, <3>2, <2>1, <2>3, <1>2
    <2>4. CASE ~(k <= Len(d)) /\ ~(k <= Len(d) + Len(f))
      <3>1. k - (Len(d) + Len(f)) \in 1..Len(s)
        BY <2>4, <1>5
      <3> QED  BY <3>1, <2>1, <2>4, <1>3
    <2> QED  BY <2>2, <2>3, <2>4
  <1>9. Len(r2 \o rs) = Len(d) + Len(f) + Len(s)
    BY <1>3, <1>5, <1>6, <1>7
  <1> HIDE DEF r2
  <1>10. RulesOf(ch, m) = r2 \o rs
    BY <1>4 DEF r2
  <1> QED  BY <1>1, <1>2, <1>3, <1>7, <1>8, <1>9, <1>10 DEF d, f, s

(* The commands of an action: deletions, then additions. *)
LEMMA ActionCmdsPlaces ==
    ASSUME chain \in Tables, desired \in Desired, NEW m \in Mappings, NEW kind
    PROVE  /\ Deleted(kind, m) \in Seq(Rules) /\ Added(kind, m) \in Seq(Rules)
           /\ ActionCmds(kind, m) \in Seq(Cmds)
           /\ Len(ActionCmds(kind, m)) = Len(Deleted(kind, m)) + Len(Added(kind, m))
           /\ \A k \in 1..(Len(Deleted(kind, m)) + Len(Added(kind, m))) :
                 ActionCmds(kind, m)[k] =
                    IF k <= Len(Deleted(kind, m)) THEN [kind |-> "D", rule |-> Deleted(kind, m)[k]]
                    ELSE [kind |-> "A", rule |-> Added(kind, m)[k - Len(Deleted(kind, m))]]
  <1> DEFINE del == Deleted(kind, m)
             add == Added(kind, m)
             cd == Commands("D", del)
             ca == Commands("A", add)
  <1>1. del \in Seq(Rules)
    <2>1. RulesOf(chain, m) \in Seq(Rules)
      BY RulesOfPlaces
    <2>2. <<>> \in Seq(Rules)
      OBVIOUS
    <2> QED  BY <2>1, <2>2 DEF Deleted
  <1>2. add \in Seq(Rules)
    <2>1. desired.addr \in Addresses
      BY DEF Desired
    <2>2. RulesFor(m, desired.addr) \in Seq(Rules)
      BY <2>1, RulesForMapping
    <2>3. <<>> \in Seq(Rules)
      OBVIOUS
    <2> QED  BY <2>2, <2>3 DEF Added
  <1>3. ActionCmds(kind, m) = cd \o ca
    BY DEF ActionCmds
  <1> HIDE DEF del, add
  <1>4. /\ cd \in Seq(Cmds) /\ Len(cd) = Len(del)
        /\ \A k \in 1..Len(del) : cd[k] = [kind |-> "D", rule |-> del[k]]
    BY <1>1, CommandsOf
  <1>5. /\ ca \in Seq(Cmds) /\ Len(ca) = Len(add)
        /\ \A k \in 1..Len(add) : ca[k] = [kind |-> "A", rule |-> add[k]]
    BY <1>2, CommandsOf
  <1> HIDE DEF cd, ca
  <1>6. Len(del) \in Nat /\ Len(add) \in Nat
    BY <1>1, <1>2
  <1>7. /\ cd \o ca \in Seq(Cmds) /\ Len(cd \o ca) = Len(del) + Len(add)
        /\ \A k \in 1..(Len(del) + Len(add)) :
              (cd \o ca)[k] = IF k <= Len(del) THEN cd[k] ELSE ca[k - Len(del)]
    BY <1>4, <1>5, ConcatProperties
  <1>8. ASSUME NEW k \in 1..(Len(del) + Len(add))
        PROVE  (cd \o ca)[k] = IF k <= Len(del) THEN [kind |-> "D", rule |-> del[k]]
                               ELSE [kind |-> "A", rule |-> add[k - Len(del)]]
    <2>1. CASE k <= Len(del)
      <3>1. k \in 1..Len(del)
        BY <2>1, <1>6
      <3> QED  BY <3>1, <2>1, <1>4, <1>7
    <2>2. CASE ~(k <= Len(del))
      <3>1. k - Len(del) \in 1..Len(add)
        BY <2>2, <1>6
      <3> QED  BY <3>1, <2>2, <1>5, <1>7
    <2> QED  BY <2>1, <2>2
  <1> QED  BY <1>1, <1>2, <1>3, <1>7, <1>8 DEF del, add

Place(c) == IF c = "DNAT" THEN 1 ELSE IF c = "FORWARD" THEN 2 ELSE 3

(* The commands lo + 1, lo + 2, ... of an action delete the rules that the *)
(* mapping has in the chain, and command ad adds one, if any does.         *)
Interleaved(kind, m, c, lo, ad) ==
    LET n == Len(chain[c][m])
        cmds == ActionCmds(kind, m)
    IN  /\ n \in Nat /\ lo + n < ad /\ lo + n <= Len(cmds)
        /\ kind = "DELETE" => Len(cmds) < ad
        /\ kind # "DELETE" => ad <= Len(cmds)
        /\ \A k \in 1..Len(cmds) :
              /\ Touches(cmds[k], c, m) => (lo < k /\ k <= lo + n) \/ k = ad
              /\ lo < k /\ k <= lo + n =>
                    /\ Touches(cmds[k], c, m) /\ cmds[k].kind = "D"
                    /\ cmds[k].rule.to = chain[c][m][k - lo]
              /\ k = ad =>
                    /\ Touches(cmds[k], c, m) /\ cmds[k].kind = "A"
                    /\ cmds[k].rule.to = desired.addr

(* Every action is of this form. *)
LEMMA ActionTouches ==
    ASSUME chain \in Tables, desired \in Desired, NEW m \in Mappings, NEW c \in Chains, NEW kind,
           kind = "ADD" => chain[c][m] = <<>>
    PROVE  \E lo, ad \in Nat : Interleaved(kind, m, c, lo, ad)
  <1> DEFINE cmds == ActionCmds(kind, m)
             del == Deleted(kind, m)
             add == Added(kind, m)
             n == Len(chain[c][m])
             t == chain[c][m]
  <1>1. /\ del \in Seq(Rules) /\ add \in Seq(Rules) /\ Len(cmds) = Len(del) + Len(add)
        /\ \A k \in 1..(Len(del) + Len(add)) :
              cmds[k] = IF k <= Len(del) THEN [kind |-> "D", rule |-> del[k]]
                        ELSE [kind |-> "A", rule |-> add[k - Len(del)]]
    BY ActionCmdsPlaces
  <1>2. t \in Seq(Addresses) /\ n \in Nat
    BY RulesInChain
  <1>3. Len(del) \in Nat /\ Len(add) \in Nat
    BY <1>1
  <1>4. c \in {"DNAT", "FORWARD", "SNAT"} /\ Place(c) \in 1..3
    BY DEF Chains, Place
  <1>5. IF kind = "DELETE" THEN Len(add) = 0
        ELSE /\ Len(add) = 3
             /\ \A j \in 1..3 : add[j].id = m /\ add[j].to = desired.addr
                                /\ (add[j].chain = c <=> j = Place(c))
    <2>1. CASE kind = "DELETE"
      BY <2>1 DEF Added
    <2>2. CASE kind # "DELETE"
      <3>1. add = <<[chain |-> "DNAT", id |-> m, to |-> desired.addr],
                    [chain |-> "FORWARD", id |-> m, to |-> desired.addr],
                    [chain |-> "SNAT", id |-> m, to |-> desired.addr]>>
        BY <2>2 DEF Added, RulesFor
      <3> HIDE DEF add
      <3>2. Len(add) = 3
        BY <3>1
      <3>3. /\ add[1].id = m /\ add[1].to = desired.addr /\ add[1].chain = "DNAT"
            /\ add[2].id = m /\ add[2].to = desired.addr /\ add[2].chain = "FORWARD"
            /\ add[3].id = m /\ add[3].to = desired.addr /\ add[3].chain = "SNAT"
        BY <3>1
      <3>4. \A j \in 1..3 : j = 1 \/ j = 2 \/ j = 3
        OBVIOUS
      <3> QED  BY <2>2, <3>2, <3>3, <3>4, <1>4 DEF Place
    <2> QED  BY <2>1, <2>2
  <1>6. \E lo \in Nat :
           /\ lo + n <= Len(del)
           /\ \A k \in 1..Len(del) :
                 /\ del[k].id = m
                 /\ del[k].chain = c => lo < k /\ k <= lo + n
                 /\ lo < k /\ k <= lo + n => del[k].chain = c /\ del[k].to = t[k - lo]
    <2>1. CASE kind = "ADD"
      <3>1. del = <<>> /\ n = 0
        BY <2>1 DEF Deleted
      <3>2. Len(del) = 0
        BY <3>1
      <3> QED  BY <3>1, <3>2
    <2>2. CASE kind # "ADD"
      <3> DEFINE d == chain["DNAT"][m]
                 f == chain["FORWARD"][m]
                 s == chain["SNAT"][m]
      <3>1. del = RulesOf(chain, m)
        BY <2>2 DEF Deleted
      <3>2. /\ Len(d) \in Nat /\ Len(f) \in Nat /\ Len(s) \in Nat
            /\ Len(del) = Len(d) + Len(f) + Len(s)
        <4>1. d \in Seq(Addresses) /\ f \in Seq(Addresses) /\ s \in Seq(Addresses)
          BY RulesOfPlaces
        <4>2. Len(RulesOf(chain, m)) = Len(d) + Len(f) + Len(s)
          BY RulesOfPlaces
        <4> HIDE DEF d, f, s, del
        <4> QED  BY <4>1, <4>2, <3>1
      <3>3. \A k \in 1..Len(del) :
               del[k] = IF k <= Len(d) THEN Rule("DNAT", m, d[k])
                        ELSE IF k <= Len(d) + Len(f) THEN Rule("FORWARD", m, f[k - Len(d)])
                        ELSE Rule("SNAT", m, s[k - (Len(d) + Len(f))])
        BY <3>1, <3>2, RulesOfPlaces
      <3>4. CASE c = "DNAT"
        <4>1. t = d /\ n = Len(d)
          BY <3>4
        <4> HIDE DEF d, f, s, del, t, n
        <4>2. 0 \in Nat /\ 0 + n <= Len(del)
          BY <3>2, <4>1
        <4>3. ASSUME NEW k \in 1..Len(del)
              PROVE  /\ del[k].id = m
                     /\ del[k].chain = c => 0 < k /\ k <= 0 + n
                     /\ 0 < k /\ k <= 0 + n => del[k].chain = c /\ del[k].to = t[k - 0]
          BY <3>2, <3>3, <3>4, <4>1 DEF Rule
        <4> QED  BY <4>2, <4>3
      <3>5. CASE c = "FORWARD"
        <4>1. t = f /\ n = Len(f)
          BY <3>5
        <4> HIDE DEF d, f, s, del, t, n
        <4> DEFINE lo == Len(d)
        <4>2. lo \in Nat /\ lo + n <= Len(del)
          BY <3>2, <4>1
        <4>3. ASSUME NEW k \in 1..Len(del)
              PROVE  /\ del[k].id = m
                     /\ del[k].chain = c => lo < k /\ k <= lo + n
                     /\ lo < k /\ k <= lo + n => del[k].chain = c /\ del[k].to = t[k - lo]
          BY <3>2, <3>3, <3>5, <4>1 DEF Rule
        <4> QED  BY <4>2, <4>3
      <3>6. CASE c = "SNAT"
        <4>1. t = s /\ n = Len(s)
          BY <3>6
        <4> HIDE DEF d, f, s, del, t, n
        <4> DEFINE lo == Len(d) + Len(f)
        <4>2. lo \in Nat /\ lo + n <= Len(del)
          BY <3>2, <4>1
        <4>3. ASSUME NEW k \in 1..Len(del)
              PROVE  /\ del[k].id = m
                     /\ del[k].chain = c => lo < k /\ k <= lo + n
                     /\ lo < k /\ k <= lo + n => del[k].chain = c /\ del[k].to = t[k - lo]
          BY <3>2, <3>3, <3>6, <4>1 DEF Rule
        <4> HIDE DEF lo
        <4> QED  BY <4>2, <4>3
      <3> QED  BY <1>4, <3>4, <3>5, <3>6
    <2> QED  BY <2>1, <2>2
  <1>7. PICK lo \in Nat :
           /\ lo + n <= Len(del)
           /\ \A k \in 1..Len(del) :
                 /\ del[k].id = m
                 /\ del[k].chain = c => lo < k /\ k <= lo + n
                 /\ lo < k /\ k <= lo + n => del[k].chain = c /\ del[k].to = t[k - lo]
    BY <1>6
  <1> DEFINE ad == Len(del) + Place(c)
  <1>8. ad \in Nat /\ lo + n < ad /\ lo + n <= Len(cmds)
    BY <1>1, <1>2, <1>3, <1>4, <1>7
  <1>9. (kind = "DELETE" => Len(cmds) < ad) /\ (kind # "DELETE" => ad <= Len(cmds))
    BY <1>1, <1>3, <1>4, <1>5
  <1> HIDE DEF cmds, del, add, n, t
  <1>10. ASSUME NEW k \in 1..Len(cmds)
         PROVE  /\ Touches(cmds[k], c, m) => (lo < k /\ k <= lo + n) \/ k = ad
                /\ lo < k /\ k <= lo + n =>
                      /\ Touches(cmds[k], c, m) /\ cmds[k].kind = "D"
                      /\ cmds[k].rule.to = t[k - lo]
                /\ k = ad =>
                      /\ Touches(cmds[k], c, m) /\ cmds[k].kind = "A"
                      /\ cmds[k].rule.to = desired.addr
    <2>1. CASE k <= Len(del)
      <3>1. k \in 1..Len(del) /\ k # ad
        BY <2>1, <1>3, <1>4
      <3>2. cmds[k] = [kind |-> "D", rule |-> del[k]]
        BY <2>1, <1>1
      <3>3. cmds[k].kind = "D" /\ cmds[k].rule = del[k]
        BY <3>2
      <3> QED  BY <3>1, <3>3, <1>7 DEF Touches
    <2>2. CASE ~(k <= Len(del))
      <3>1. k - Len(del) \in 1..Len(add) /\ ~(k <= lo + n)
        BY <2>2, <1>1, <1>2, <1>3, <1>7
      <3>2. cmds[k] = [kind |-> "A", rule |-> add[k - Len(del)]]
        BY <2>2, <1>1
      <3>3. cmds[k].kind = "A" /\ cmds[k].rule = add[k - Len(del)]
        BY <3>2
      <3>4. kind # "DELETE" /\ k - Len(del) \in 1..3
        <4>1. Len(add) # 0
          BY <3>1, <1>3
        <4>2. kind # "DELETE" /\ Len(add) = 3
          BY <4>1, <1>5
        <4> QED  BY <4>2, <3>1
      <3>5. k - Len(del) = Place(c) <=> k = ad
        BY <1>3, <1>4
      <3> QED  BY <3>1, <3>3, <3>4, <3>5, <1>5 DEF Touches
    <2> QED  BY <2>1, <2>2
  <1>11. Interleaved(kind, m, c, lo, ad)
    BY <1>2, <1>8, <1>9, <1>10 DEF Interleaved, cmds, n, t
  <1> QED  BY <1>8, <1>11

(* Commands that do not touch a sequence leave it as it was. *)
LEMMA RunUntouched ==
    ASSUME NEW ch \in Tables, NEW cmds \in Seq(Cmds), NEW c \in Chains, NEW m \in Mappings,
           \A k \in 1..Len(cmds) : ~Touches(cmds[k], c, m)
    PROVE  \A k \in 0..Len(cmds) : Run(ch, cmds)[k][c][m] = ch[c][m]
  <1> DEFINE S == {k \in Nat : Run(ch, cmds)[k][c][m] = ch[c][m]}
  <1>1. Len(cmds) \in Nat /\ 0 \in S
    BY RunUnfolds
  <1>2. ASSUME NEW k \in 0..(Len(cmds) - 1), k \in S PROVE k + 1 \in S
    <2>1. k + 1 \in 1..Len(cmds) /\ k + 1 \in Nat
      BY <1>1
    <2> QED  BY <1>2, <2>1, RunStep
  <1>3. 0..Len(cmds) \subseteq S
    <2> HIDE DEF S
    <2> QED  BY <1>1, <1>2, BoundedInduction
  <1> QED  BY <1>3

(* The commands of an action are about its mapping. *)
LEMMA ActionIsAbout ==
    ASSUME chain \in Tables, desired \in Desired, NEW m \in Mappings, NEW kind
    PROVE  /\ \A k \in 1..Len(Deleted(kind, m)) : Deleted(kind, m)[k].id = m
           /\ \A k \in 1..Len(Added(kind, m)) : Added(kind, m)[k].id = m
           /\ \A k \in 1..Len(ActionCmds(kind, m)) : ActionCmds(kind, m)[k].rule.id = m
  <1> DEFINE cmds == ActionCmds(kind, m)
             del == Deleted(kind, m)
             add == Added(kind, m)
  <1>1. /\ del \in Seq(Rules) /\ add \in Seq(Rules) /\ Len(cmds) = Len(del) + Len(add)
        /\ \A k \in 1..(Len(del) + Len(add)) :
              cmds[k] = IF k <= Len(del) THEN [kind |-> "D", rule |-> del[k]]
                        ELSE [kind |-> "A", rule |-> add[k - Len(del)]]
    BY ActionCmdsPlaces
  <1>2. Len(del) \in Nat /\ Len(add) \in Nat
    BY <1>1
  <1>3. ASSUME NEW k \in 1..Len(del) PROVE del[k].id = m
    <2>1. CASE kind = "ADD"
      <3>1. Len(del) = 0
        BY <2>1 DEF Deleted
      <3> HIDE DEF del
      <3> QED  BY <3>1
    <2>2. CASE kind # "ADD"
      <3> DEFINE d == chain["DNAT"][m]
                 f == chain["FORWARD"][m]
                 s == chain["SNAT"][m]
      <3>1. del = RulesOf(chain, m)
        BY <2>2 DEF Deleted
      <3>2. Len(del) = Len(d) + Len(f) + Len(s)
        BY <3>1, RulesOfPlaces
      <3>3. del[k] = IF k <= Len(d) THEN Rule("DNAT", m, d[k])
                     ELSE IF k <= Len(d) + Len(f) THEN Rule("FORWARD", m, f[k - Len(d)])
                     ELSE Rule("SNAT", m, s[k - (Len(d) + Len(f))])
        BY <3>1, <3>2, RulesOfPlaces
      <3> HIDE DEF del, d, f, s
      <3> QED  BY <3>3 DEF Rule
    <2> QED  BY <2>1, <2>2
  <1>4. ASSUME NEW k \in 1..Len(add) PROVE add[k].id = m
    <2>1. CASE kind = "DELETE"
      <3>1. Len(add) = 0
        BY <2>1 DEF Added
      <3> HIDE DEF add
      <3> QED  BY <3>1
    <2>2. CASE kind # "DELETE"
      <3>1. add = <<[chain |-> "DNAT", id |-> m, to |-> desired.addr],
                    [chain |-> "FORWARD", id |-> m, to |-> desired.addr],
                    [chain |-> "SNAT", id |-> m, to |-> desired.addr]>>
        BY <2>2 DEF Added, RulesFor
      <3> HIDE DEF add
      <3>2. add[1].id = m /\ add[2].id = m /\ add[3].id = m /\ k \in 1..3
        BY <3>1
      <3>3. k = 1 \/ k = 2 \/ k = 3
        BY <3>2
      <3> QED  BY <3>2, <3>3
    <2> QED  BY <2>1, <2>2
  <1> HIDE DEF cmds, del, add
  <1>5. ASSUME NEW k \in 1..Len(cmds) PROVE cmds[k].rule.id = m
    <2>1. CASE k <= Len(del)
      <3>1. k \in 1..Len(del) /\ cmds[k] = [kind |-> "D", rule |-> del[k]]
        BY <2>1, <1>1, <1>2
      <3> QED  BY <3>1, <1>3
    <2>2. CASE ~(k <= Len(del))
      <3>1. k - Len(del) \in 1..Len(add) /\ cmds[k] = [kind |-> "A", rule |-> add[k - Len(del)]]
        BY <2>2, <1>1, <1>2
      <3> QED  BY <3>1, <1>4
    <2> QED  BY <2>1, <2>2
  <1> QED  BY <1>3, <1>4, <1>5 DEF cmds, del, add

(* An action leaves the other mappings alone, ... *)
LEMMA ActionLeavesOthers ==
    ASSUME chain \in Tables, desired \in Desired, NEW m \in Mappings, NEW kind,
           NEW c \in Chains, NEW o \in Mappings, o # m
    PROVE  \A k \in 0..Len(ActionCmds(kind, m)) :
              Run(chain, ActionCmds(kind, m))[k][c][o] = chain[c][o]
  <1>1. ActionCmds(kind, m) \in Seq(Cmds)
    BY ActionCmdsPlaces
  <1>2. \A k \in 1..Len(ActionCmds(kind, m)) : ~Touches(ActionCmds(kind, m)[k], c, o)
    BY ActionIsAbout DEF Touches
  <1> QED  BY <1>1, <1>2, RunUntouched

(* ... deletes what there is, and adds once, after the last deletion.      *)
LEMMA ActionReplaces ==
    ASSUME chain \in Tables, desired \in Desired, NEW m \in Mappings, NEW c \in Chains, NEW kind,
           Agree(Leads(chain[c][m])),
           kind = "ADD" => chain[c][m] = <<>>
    PROVE  LET cmds == ActionCmds(kind, m) IN
           /\ \A k \in 0..Len(cmds) :
                 LET s == Run(chain, cmds)[k][c][m] IN
                 \/ Leads(s) \subseteq Leads(chain[c][m])
                 \/ kind # "DELETE" /\ s = <<desired.addr>>
           /\ RunAll(chain, cmds)[c][m] = IF kind = "DELETE" THEN <<>> ELSE <<desired.addr>>
  <1> DEFINE cmds == ActionCmds(kind, m)
             t == chain[c][m]
             n == Len(t)
             x == t[1]
             a == desired.addr
  <1>1. t \in Seq(Addresses) /\ a \in Addresses /\ cmds \in Seq(Cmds)
    BY RulesInChain, ActionCmdsPlaces DEF Desired
  <1>2. n \in Nat /\ DOMAIN t = 1..n /\ Len(cmds) \in Nat
    BY <1>1
  <1>3. ASSUME NEW i \in 1..n PROVE t[i] = x
    <2>1. 1 \in DOMAIN t /\ i \in DOMAIN t
      BY <1>2
    <2>2. t[i] \in Leads(t) /\ t[1] \in Leads(t)
      BY <2>1 DEF Leads
    <2> QED  BY <2>2 DEF Agree
  <1>4. PICK lo, ad \in Nat : Interleaved(kind, m, c, lo, ad)
    BY ActionTouches
  <1>5. /\ lo + n < ad /\ lo + n <= Len(cmds)
        /\ kind = "DELETE" => Len(cmds) < ad
        /\ kind # "DELETE" => ad <= Len(cmds)
    BY <1>4 DEF Interleaved
  <1>6. \A k \in 1..Len(cmds) :
           /\ Touches(cmds[k], c, m) => (lo < k /\ k <= lo + n) \/ k = ad
           /\ lo < k /\ k <= lo + n => Touches(cmds[k], c, m) /\ cmds[k].kind = "D" /\ cmds[k].rule.to = x
           /\ k = ad => Touches(cmds[k], c, m) /\ cmds[k].kind = "A" /\ cmds[k].rule.to = a
    <2>1. \A k \in 1..Len(cmds) : lo < k /\ k <= lo + n => t[k - lo] = x
      BY <1>2, <1>3
    <2> QED  BY <2>1, <1>4 DEF Interleaved
  <1> HIDE DEF cmds, t, n, x, a
  <1>7. \A k \in 0..Len(cmds) : Swept(Run(chain, cmds)[k][c][m], k, lo, n, ad, x, a)
    <2>1. n = Len(chain[c][m]) /\ \A i \in 1..n : chain[c][m][i] = x
      BY <1>3 DEF t, n
    <2> QED  BY <2>1, <1>1, <1>2, <1>5, <1>6, Sweep
  <1>8. ASSUME NEW k \in 0..Len(cmds)
        PROVE  \/ Leads(Run(chain, cmds)[k][c][m]) \subseteq Leads(t)
               \/ kind # "DELETE" /\ Run(chain, cmds)[k][c][m] = <<a>>
    <2> DEFINE s == Run(chain, cmds)[k][c][m]
    <2>1. s \in Seq(Addresses) /\ Swept(s, k, lo, n, ad, x, a)
      BY <1>1, <1>7, RunTyped DEF Tables
    <2> HIDE DEF s
    <2>2. CASE k < ad
      <3>1. Len(s) = Left(k, lo, n) /\ DOMAIN s = 1..Len(s) /\ \A i \in 1..Len(s) : s[i] = x
        BY <2>1, <2>2 DEF Swept
      <3>2. Left(k, lo, n) > 0 => n > 0
        BY <1>2, <1>5 DEF Left
      <3>3. ASSUME NEW i \in 1..Len(s) PROVE s[i] \in Leads(t)
        <4>1. n > 0
          BY <3>1, <3>2
        <4>2. 1 \in DOMAIN t
          BY <4>1, <1>2
        <4> QED  BY <4>2, <3>1 DEF Leads, x
      <3> QED  BY <3>1, <3>3 DEF Leads, s
    <2>3. CASE ~(k < ad)
      BY <2>1, <2>3, <1>5 DEF Swept, s
    <2> QED  BY <2>2, <2>3
  <1>9. RunAll(chain, cmds)[c][m] = IF kind = "DELETE" THEN <<>> ELSE <<a>>
    <2> DEFINE s == Run(chain, cmds)[Len(cmds)][c][m]
    <2>1. Len(cmds) \in 0..Len(cmds)
      BY <1>2
    <2>2. s \in Seq(Addresses) /\ Swept(s, Len(cmds), lo, n, ad, x, a)
      BY <2>1, <1>1, <1>7, RunTyped DEF Tables
    <2>3. RunAll(chain, cmds)[c][m] = s
      BY DEF RunAll
    <2> HIDE DEF s
    <2>4. CASE kind = "DELETE"
      <3>1. Len(s) = Left(Len(cmds), lo, n)
        BY <2>2, <2>4, <1>5 DEF Swept
      <3>2. Left(Len(cmds), lo, n) = 0
        BY <1>2, <1>5 DEF Left
      <3>3. s = <<>>
        BY <3>1, <3>2, <2>2
      <3> QED  BY <3>3, <2>3, <2>4
    <2>5. CASE kind # "DELETE"
      BY <2>2, <2>3, <2>5, <1>2, <1>5 DEF Swept
    <2> QED  BY <2>4, <2>5
  <1> QED  BY <1>8, <1>9 DEF cmds, t, a

(* Rollback's commands add only rules that are on record as deleted. *)
LEMMA UndoCmdsPlaces ==
    ASSUME lastAdd \in Seq(Rules), lastDel \in Seq(Rules)
    PROVE  /\ UndoCmds \in Seq(Cmds)
           /\ \A k \in 1..Len(UndoCmds) :
                 UndoCmds[k].kind = "A" => \E j \in 1..Len(lastDel) : UndoCmds[k].rule = lastDel[j]
  <1> DEFINE rev == Reverse(lastAdd)
             cd == Commands("D", rev)
             ca == Commands("A", lastDel)
  <1>1. rev \in Seq(Rules)
    BY DEF Reverse
  <1>2. UndoCmds = cd \o ca
    BY DEF UndoCmds
  <1> HIDE DEF rev
  <1>3. /\ cd \in Seq(Cmds) /\ Len(cd) = Len(rev)
        /\ \A k \in 1..Len(rev) : cd[k] = [kind |-> "D", rule |-> rev[k]]
    BY <1>1, CommandsOf
  <1>4. /\ ca \in Seq(Cmds) /\ Len(ca) = Len(lastDel)
        /\ \A k \in 1..Len(lastDel) : ca[k] = [kind |-> "A", rule |-> lastDel[k]]
    BY CommandsOf
  <1> HIDE DEF cd, ca
  <1>5. Len(rev) \in Nat /\ Len(lastDel) \in Nat
    BY <1>1
  <1>6. /\ cd \o ca \in Seq(Cmds) /\ Len(cd \o ca) = Len(cd) + Len(ca)
        /\ \A k \in 1..(Len(cd) + Len(ca)) :
              (cd \o ca)[k] = IF k <= Len(cd) THEN cd[k] ELSE ca[k - Len(cd)]
    <2>1. cd \in Seq(Cmds) /\ ca \in Seq(Cmds)
      BY <1>3, <1>4
    <2> QED  BY <2>1, ConcatProperties
  <1>7. Len(cd) = Len(rev) /\ Len(ca) = Len(lastDel) /\ Len(cd \o ca) = Len(rev) + Len(lastDel)
    BY <1>3, <1>4, <1>6
  <1>8. ASSUME NEW k \in 1..Len(cd \o ca), (cd \o ca)[k].kind = "A"
        PROVE  \E j \in 1..Len(lastDel) : (cd \o ca)[k].rule = lastDel[j]
    <2>1. k \in 1..(Len(cd) + Len(ca))
      BY <1>6
    <2>2. (cd \o ca)[k] = IF k <= Len(cd) THEN cd[k] ELSE ca[k - Len(cd)]
      BY <1>6, <2>1
    <2>3. CASE k <= Len(cd)
      <3>1. k \in 1..Len(rev)
        BY <2>3, <1>5, <1>7
      <3>2. cd[k].kind = "D"
        <4>1. cd[k] = [kind |-> "D", rule |-> rev[k]]
          BY <3>1, <1>3
        <4> QED  BY <4>1
      <3> QED  BY <2>2, <2>3, <3>2, <1>8
    <2>4. CASE ~(k <= Len(cd))
      <3>1. k - Len(cd) \in 1..Len(lastDel)
        BY <2>1, <2>4, <1>5, <1>7
      <3>2. ca[k - Len(cd)].rule = lastDel[k - Len(cd)]
        <4>1. ca[k - Len(cd)] = [kind |-> "A", rule |-> lastDel[k - Len(cd)]]
          BY <3>1, <1>4
        <4> QED  BY <4>1
      <3> QED  BY <2>2, <2>4, <3>1, <3>2
    <2> QED  BY <2>3, <2>4
  <1> QED  BY <1>2, <1>6, <1>8

(* Rollback adds no destination that is not on record as deleted. *)
LEMMA UndoLeads ==
    ASSUME chain \in Tables, lastAdd \in Seq(Rules), lastDel \in Seq(Rules), NEW m \in Mappings
    PROVE  \A k \in 0..Len(UndoCmds) :
              Leads(Run(chain, UndoCmds)[k]["DNAT"][m]) \subseteq Leads(chain["DNAT"][m]) \cup Held(m)
  <1> DEFINE A == Leads(chain["DNAT"][m]) \cup Held(m)
  <1>1. UndoCmds \in Seq(Cmds) /\ "DNAT" \in Chains
    BY UndoCmdsPlaces DEF Chains
  <1>2. ASSUME NEW k \in 1..Len(UndoCmds), UndoCmds[k].kind = "A", Touches(UndoCmds[k], "DNAT", m)
        PROVE  UndoCmds[k].rule.to \in A
    <2>1. PICK j \in 1..Len(lastDel) : UndoCmds[k].rule = lastDel[j]
      BY <1>2, UndoCmdsPlaces
    <2>2. j \in DOMAIN lastDel
      BY <2>1
    <2> QED  BY <1>2, <2>1, <2>2 DEF Touches, Held, DnatOf
  <1>3. Leads(chain["DNAT"][m]) \subseteq A
    OBVIOUS
  <1> HIDE DEF A
  <1>4. \A k \in 0..Len(UndoCmds) : Leads(Run(chain, UndoCmds)[k]["DNAT"][m]) \subseteq A
    BY <1>1, <1>2, <1>3, RunLeads
  <1> QED  BY <1>4 DEF A

-----------------------------------------------------------------------------
(* Type correctness *)

Plans == [tun : SUBSET Ifaces, hap : {"write", "reload", "done"}, base : BOOLEAN,
          fw : [Mappings -> Kinds]]

(* What is discovered is compared, and the result is a plan. *)
LEMMA PlansTyped == NoPlan \in Plans /\ \A d, ch, c, i : Diff(d, ch, c, i) \in Plans
  <1>1. NoPlan \in Plans
    BY DEF NoPlan, Plans, Kinds
  <1>2. ASSUME NEW d, NEW ch, NEW c, NEW i PROVE Diff(d, ch, c, i) \in Plans
    <2> DEFINE fw == [m \in Mappings |-> FirewallKind(d, ch, m)]
               base == \E m \in Mappings : fw[m] # "KEEP"
               hap == IF c.routes # d.routes THEN "write" ELSE "done"
               tun == {n \in Ifaces : i[n] = "absent"}
    <2>1. fw \in [Mappings -> Kinds]
      BY DEF FirewallKind, Kinds
    <2>2. base \in BOOLEAN /\ hap \in {"write", "reload", "done"} /\ tun \in SUBSET Ifaces
      OBVIOUS
    <2>3. Diff(d, ch, c, i) = [tun |-> tun, hap |-> hap, base |-> base, fw |-> fw]
      BY DEF Diff
    <2> HIDE DEF fw, base, hap, tun
    <2> QED  BY <2>1, <2>2, <2>3 DEF Plans
  <1> QED  BY <1>1, <1>2

(* What Render writes is a managed section for the routes it was given. *)
LEMMA ConfigsTyped ==
    /\ EmptyConfig \in Configs
    /\ desired \in Desired => Rendered(desired) \in Configs /\ Rendered(desired).routes = desired.routes
  <1>1. EmptyConfig \in Configs
    BY DEF Configs
  <1>2. ASSUME desired \in Desired
        PROVE  Rendered(desired) \in Configs /\ Rendered(desired).routes = desired.routes
    <2>1. desired.routes \in 0..NumRouteSets /\ desired.addr \in Addresses
      BY <1>2 DEF Desired
    <2>2. CASE desired.routes = 0
      BY <2>2, <1>1 DEF Rendered, EmptyConfig
    <2>3. CASE desired.routes # 0
      <3>1. desired.routes \in 1..NumRouteSets
        BY <2>1, <2>3, EngineConstants
      <3> QED  BY <3>1, <2>1, <2>3 DEF Rendered, Configs
    <2> QED  BY <2>2, <2>3
  <1> QED  BY <1>1, <1>2

(* A host that has just booted has its chains. *)
LEMMA TablesTyped == NoRules \in Tables
  BY DEF NoRules, Tables

(* The chains after commands of an action or of rollback. *)
LEMMA ChainsTyped ==
    ASSUME TypeOK
    PROVE  /\ \A kind : \A m \in Mappings : \A k \in 0..Len(ActionCmds(kind, m)) :
                 Run(chain, ActionCmds(kind, m))[k] \in Tables
           /\ \A kind : \A m \in Mappings :
                 /\ Len(ActionCmds(kind, m)) \in Nat
                 /\ RunAll(chain, ActionCmds(kind, m)) \in Tables
           /\ \A k \in 0..Len(UndoCmds) : Run(chain, UndoCmds)[k] \in Tables
           /\ Len(UndoCmds) \in Nat /\ RunAll(chain, UndoCmds) \in Tables
  <1>1. chain \in Tables /\ desired \in Desired /\ lastAdd \in Seq(Rules) /\ lastDel \in Seq(Rules)
    BY DEF TypeOK
  <1>2. ASSUME NEW m \in Mappings, NEW kind
        PROVE  /\ \A k \in 0..Len(ActionCmds(kind, m)) : Run(chain, ActionCmds(kind, m))[k] \in Tables
               /\ Len(ActionCmds(kind, m)) \in Nat
               /\ RunAll(chain, ActionCmds(kind, m)) \in Tables
    <2>1. ActionCmds(kind, m) \in Seq(Cmds)
      BY <1>1, ActionCmdsPlaces
    <2>2. Len(ActionCmds(kind, m)) \in Nat
      BY <2>1
    <2>3. Len(ActionCmds(kind, m)) \in 0..Len(ActionCmds(kind, m))
      BY <2>2
    <2> QED  BY <1>1, <2>1, <2>2, <2>3, RunTyped DEF RunAll
  <1>3. UndoCmds \in Seq(Cmds)
    BY <1>1, UndoCmdsPlaces
  <1>4. Len(UndoCmds) \in Nat /\ Len(UndoCmds) \in 0..Len(UndoCmds)
    BY <1>3
  <1>5. /\ \A k \in 0..Len(UndoCmds) : Run(chain, UndoCmds)[k] \in Tables
        /\ RunAll(chain, UndoCmds) \in Tables
    BY <1>1, <1>3, <1>4, RunTyped DEF RunAll
  <1> QED  BY <1>2, <1>4, <1>5

(* The first state is typed. *)
LEMMA InitTyped == Init => TypeOK
  <1> SUFFICES ASSUME Init PROVE TypeOK
    OBVIOUS
  <1>1. (CHOOSE x \in Addresses : TRUE) \in Addresses
    BY EngineConstants
  <1>2. desired \in Desired
    BY <1>1, EngineConstants DEF Init, Desired
  <1>3. chain \in Tables /\ cfg \in Configs /\ running \in Configs /\ todo \in Plans
    BY TablesTyped, ConfigsTyped, PlansTyped DEF Init
  <1>4. lastAdd \in Seq(Rules) /\ lastDel \in Seq(Rules)
    BY DEF Init
  <1>5. changes \in 0..MaxChanges /\ faults \in 0..MaxFaults
    BY EngineConstants DEF Init
  <1>6. /\ hooked \in SUBSET Chains /\ ifc \in [Ifaces -> {"absent", "bare", "up"}]
        /\ snapshot = {} /\ lastBackup = {} /\ created = {}
        /\ pc = "idle" /\ cause = "none" /\ rbErr = FALSE /\ exact = FALSE /\ result = "none"
    BY DEF Init
  <1> QED  BY <1>2, <1>3, <1>4, <1>5, <1>6 DEF TypeOK, Plans

(* Faults are counted within their bound. *)
LEMMA FaultsTyped ==
    ASSUME TypeOK, NEW n \in Nat, Faults(n)
    PROVE  faults' \in 0..MaxFaults
  <1>1. faults \in 0..MaxFaults
    BY DEF TypeOK
  <1>2. faults + n <= MaxFaults /\ faults' = faults + n
    BY DEF Faults
  <1> QED  BY <1>1, <1>2, EngineConstants

(* The snapshot is of the chains as they are. *)
LEMMA SnapshotTyped ==
    ASSUME TypeOK
    PROVE  {[chain |-> chain, hooked |-> hooked]} \subseteq [chain : Tables, hooked : SUBSET Chains]
  <1>1. chain \in Tables /\ hooked \in SUBSET Chains
    BY DEF TypeOK
  <1> QED  BY <1>1

(* A transaction that fails goes on to its rollback. *)
LEMMA FailTyped ==
    ASSUME TypeOK, NEW why \in {"apply", "verify"}, Fail(why)
    PROVE  /\ pc' = "undoHap" /\ cause' \in {"none", "apply", "verify"} /\ rbErr' \in BOOLEAN
           /\ todo' \in Plans /\ desired' \in Desired /\ changes' \in 0..MaxChanges
           /\ result' \in {"none", "no changes", "applied", "rolled back", "failed"}
  BY PlansTyped DEF TypeOK, Fail

(* A process that is killed forgets what it remembered. *)
LEMMA ForgetTyped ==
    ASSUME TypeOK, ForgetProcess
    PROVE  /\ desired' \in Desired /\ changes' \in 0..MaxChanges
           /\ snapshot' = {} /\ lastAdd' \in Seq(Rules) /\ lastDel' \in Seq(Rules)
           /\ lastBackup' = {} /\ created' = {}
           /\ pc' = "idle" /\ todo' \in Plans /\ cause' = "none" /\ rbErr' = FALSE
           /\ result' = "none" /\ exact' = FALSE
  <1>1. lastAdd' = <<>> /\ lastDel' = <<>>
    BY DEF ForgetProcess
  <1>2. lastAdd' \in Seq(Rules) /\ lastDel' \in Seq(Rules)
    BY <1>1
  <1> QED  BY <1>2, PlansTyped DEF TypeOK, ForgetProcess

(* Every step keeps the types. *)
LEMMA NextTyped == TypeOK /\ [Next]_vars => TypeOK'
  <1> SUFFICES ASSUME TypeOK, [Next]_vars PROVE TypeOK'
    OBVIOUS
  <1> USE DEF Plans
  <1>1. CASE ChangeDesired
    <2>1. desired' \in Desired /\ changes' \in 0..MaxChanges
      <3>1. changes \in 0..MaxChanges
        BY DEF TypeOK
      <3>2. desired' \in Desired /\ changes < MaxChanges /\ changes' = changes + 1
        BY <1>1 DEF ChangeDesired
      <3> QED  BY <3>1, <3>2, EngineConstants
    <2> QED  BY <1>1, <2>1 DEF ChangeDesired, TypeOK, hostVars, memVars
  <1>2. CASE Begin
    <2> DEFINE p == Diff(desired, chain, cfg, ifc)
    <2>1. p \in Plans
      BY PlansTyped
    <2> HIDE DEF p
    <2>2. CASE p = NoPlan
      <3>1. result' = "no changes" /\ UNCHANGED <<created, pc, todo, exact>>
        BY <1>2, <2>2 DEF Begin, p
      <3> QED  BY <1>2, <3>1 DEF Begin, TypeOK, hostVars
    <2>3. CASE p # NoPlan
      <3>1. /\ result' = "none" /\ created' = {} /\ pc' = "apply" /\ todo' = p
            /\ exact' = (p.base /\ \A m \in Mappings : p.fw[m] # "CHANGE")
        BY <1>2, <2>3 DEF Begin, p
      <3>2. exact' \in BOOLEAN
        BY <3>1, <2>1
      <3> QED  BY <1>2, <2>1, <3>1, <3>2 DEF Begin, TypeOK, hostVars
    <2> QED  BY <2>2, <2>3
  <1>3. CASE ApplyTunnel
    <2>1. PICK i \in todo.tun :
             /\ ifc' = [ifc EXCEPT ![i] = "up"]
             /\ created' = created \cup {i}
             /\ todo' = [todo EXCEPT !.tun = @ \ {i}]
      BY <1>3 DEF ApplyTunnel
    <2>2. i \in Ifaces /\ todo \in Plans
      BY DEF TypeOK
    <2>3. /\ ifc' \in [Ifaces -> {"absent", "bare", "up"}] /\ created' \in SUBSET Ifaces
          /\ todo' \in Plans
      BY <2>1, <2>2 DEF TypeOK
    <2> QED  BY <1>3, <2>3 DEF ApplyTunnel, Continue, TypeOK
  <1>4. CASE WriteHaproxy
    <2>1. cfg' \in Configs /\ lastBackup' \in SUBSET Configs /\ todo' \in Plans
      BY <1>4, ConfigsTyped DEF WriteHaproxy, TypeOK
    <2> QED  BY <1>4, <2>1 DEF WriteHaproxy, Continue, TypeOK
  <1>5. CASE ReloadHaproxy
    <2>1. running' \in Configs /\ todo' \in Plans
      BY <1>5 DEF ReloadHaproxy, TypeOK
    <2> QED  BY <1>5, <2>1 DEF ReloadHaproxy, Continue, TypeOK, memVars
  <1>6. CASE PrepareFirewall
    <2>1. todo' \in Plans
      BY <1>6 DEF PrepareFirewall, TypeOK
    <2>2. snapshot' \in SUBSET [chain : Tables, hooked : SUBSET Chains]
      BY <1>6, SnapshotTyped DEF PrepareFirewall
    <2>3. lastAdd' \in Seq(Rules) /\ lastDel' \in Seq(Rules) /\ hooked' \in SUBSET Chains
      <3>1. lastAdd' = <<>> /\ lastDel' = <<>> /\ hooked' = Chains
        BY <1>6 DEF PrepareFirewall
      <3> QED  BY <3>1
    <2> QED  BY <1>6, <2>1, <2>2, <2>3 DEF PrepareFirewall, Continue, TypeOK
  <1>7. CASE ApplyRule
    <2>1. PICK m \in Mappings :
             /\ chain' = RunAll(chain, ActionCmds(todo.fw[m], m))
             /\ lastAdd' = lastAdd \o Added(todo.fw[m], m)
             /\ lastDel' = IF todo.fw[m] = "DELETE" THEN lastDel \o Deleted(todo.fw[m], m) ELSE lastDel
             /\ todo' = [todo EXCEPT !.fw[m] = "KEEP"]
      BY <1>7 DEF ApplyRule
    <2>2. chain' \in Tables
      BY <2>1, ChainsTyped
    <2>3. lastAdd' \in Seq(Rules) /\ lastDel' \in Seq(Rules)
      <3>1. chain \in Tables /\ desired \in Desired /\ lastAdd \in Seq(Rules) /\ lastDel \in Seq(Rules)
        BY DEF TypeOK
      <3>2. Added(todo.fw[m], m) \in Seq(Rules) /\ Deleted(todo.fw[m], m) \in Seq(Rules)
        BY <3>1, ActionCmdsPlaces
      <3>3. lastAdd \o Added(todo.fw[m], m) \in Seq(Rules) /\ lastDel \o Deleted(todo.fw[m], m) \in Seq(Rules)
        BY <3>1, <3>2, ConcatProperties
      <3> QED  BY <2>1, <3>1, <3>3
    <2>4. todo' \in Plans
      <3>1. todo \in Plans
        BY DEF TypeOK
      <3> QED  BY <2>1, <3>1 DEF Kinds
    <2> QED  BY <1>7, <2>2, <2>3, <2>4 DEF ApplyRule, Continue, TypeOK
  <1>8. CASE Verify
    BY <1>8 DEF Verify, TypeOK, hostVars, memVars
  <1>9. CASE VerifyFails
    <2>1. faults' \in 0..MaxFaults
      BY <1>9, FaultsTyped DEF VerifyFails, TypeOK
    <2> QED  BY <1>9, <2>1, FailTyped DEF VerifyFails, TypeOK, hostVars, memVars
  <1>10. CASE UndoHaproxy
    <2>1. cfg' \in Configs
      BY <1>10 DEF UndoHaproxy, TypeOK
    <2>2. running' \in Configs
      BY <1>10, <2>1 DEF UndoHaproxy, TypeOK
    <2> QED  BY <1>10, <2>1, <2>2 DEF UndoHaproxy, TypeOK, memVars
  <1>11. CASE UndoFirewall
    <2>1. chain' \in Tables /\ lastAdd' = <<>> /\ lastDel' = <<>>
      BY <1>11, ChainsTyped DEF UndoFirewall
    <2>2. lastAdd' \in Seq(Rules) /\ lastDel' \in Seq(Rules)
      BY <2>1
    <2> QED  BY <1>11, <2>1, <2>2 DEF UndoFirewall, TypeOK
  <1>12. CASE RestoreSnapshot
    <2>1. PICK k \in 1..Len(UndoCmds), n \in {0, 1} :
             \/ /\ Faults(n)
                /\ \E s \in snapshot : chain' = s.chain /\ hooked' = s.hooked
                /\ UNCHANGED rbErr
             \/ /\ Faults(n + 1)
                /\ chain' = Run(chain, UndoCmds)[k - 1]
                /\ rbErr' = TRUE
                /\ UNCHANGED hooked
      BY <1>12 DEF RestoreSnapshot
    <2>2. k - 1 \in 0..Len(UndoCmds) /\ n \in Nat /\ n + 1 \in Nat
      BY ChainsTyped
    <2>3. faults' \in 0..MaxFaults
      BY <2>1, <2>2, FaultsTyped
    <2>4. chain' \in Tables /\ hooked' \in SUBSET Chains /\ rbErr' \in BOOLEAN
      BY <2>1, <2>2, ChainsTyped DEF TypeOK
    <2> QED  BY <1>12, <2>3, <2>4 DEF RestoreSnapshot, TypeOK, memVars
  <1>13. CASE UndoTunnels
    <2>1. faults' \in 0..MaxFaults /\ rbErr' \in BOOLEAN /\ ifc' \in [Ifaces -> {"absent", "bare", "up"}]
      BY <1>13, FaultsTyped DEF UndoTunnels, TypeOK
    <2> QED  BY <1>13, <2>1 DEF UndoTunnels, TypeOK, memVars
  <1>14. CASE ApplyTunnelFails
    <2>1. /\ ifc' \in [Ifaces -> {"absent", "bare", "up"}] /\ created' \in SUBSET Ifaces
          /\ faults' \in 0..MaxFaults
      BY <1>14, FaultsTyped DEF ApplyTunnelFails, TypeOK
    <2> QED  BY <1>14, <2>1, FailTyped DEF ApplyTunnelFails, TypeOK
  <1>15. CASE WriteHaproxyFails
    <2>1. lastBackup' \in SUBSET Configs /\ faults' \in 0..MaxFaults
      BY <1>15, FaultsTyped DEF WriteHaproxyFails, TypeOK
    <2> QED  BY <1>15, <2>1, FailTyped DEF WriteHaproxyFails, TypeOK, hostVars
  <1>16. CASE ReloadHaproxyFails
    <2>1. cfg' \in Configs /\ faults' \in 0..MaxFaults
      BY <1>16, FaultsTyped DEF ReloadHaproxyFails, TypeOK
    <2>2. running' \in Configs
      BY <1>16, <2>1 DEF ReloadHaproxyFails, TypeOK
    <2> QED  BY <1>16, <2>1, <2>2, FailTyped DEF ReloadHaproxyFails, TypeOK, memVars
  <1>17. CASE PrepareFirewallFails
    <2>1. /\ snapshot' \in SUBSET [chain : Tables, hooked : SUBSET Chains] /\ hooked' \in SUBSET Chains
          /\ faults' \in 0..MaxFaults
      <3>1. \/ snapshot' = snapshot /\ hooked' = hooked
            \/ snapshot' = {[chain |-> chain, hooked |-> hooked]} /\ hooked' \in SUBSET Chains
        BY <1>17 DEF PrepareFirewallFails
      <3>2. /\ snapshot \in SUBSET [chain : Tables, hooked : SUBSET Chains]
            /\ hooked \in SUBSET Chains
        BY DEF TypeOK
      <3>3. faults' \in 0..MaxFaults
        BY <1>17, FaultsTyped DEF PrepareFirewallFails
      <3> HIDE DEF Plans
      <3> QED  BY <3>1, <3>2, <3>3, SnapshotTyped
    <2> QED  BY <1>17, <2>1, FailTyped DEF PrepareFirewallFails, TypeOK
  <1>18. CASE ApplyRuleFails
    <2>1. PICK m \in Mappings : \E k \in 0..(Len(ActionCmds(todo.fw[m], m)) - 1) :
             chain' = Run(chain, ActionCmds(todo.fw[m], m))[k]
      BY <1>18 DEF ApplyRuleFails
    <2>2. chain' \in Tables /\ faults' \in 0..MaxFaults
      BY <1>18, <2>1, FaultsTyped, ChainsTyped DEF ApplyRuleFails
    <2> QED  BY <1>18, <2>2, FailTyped DEF ApplyRuleFails, TypeOK, memVars
  <1>19. CASE UndoHaproxyFails
    <2>1. cfg' \in Configs /\ faults' \in 0..MaxFaults
      BY <1>19, FaultsTyped DEF UndoHaproxyFails, TypeOK
    <2> QED  BY <1>19, <2>1 DEF UndoHaproxyFails, TypeOK, memVars
  <1>20. CASE Crash
    <2>1. chain' \in Tables
      <3>1. CASE chain' = chain
        BY <3>1 DEF TypeOK
      <3>2. ASSUME NEW m \in Mappings, NEW k \in 1..Len(ActionCmds(todo.fw[m], m)),
                   chain' = Run(chain, ActionCmds(todo.fw[m], m))[k]
            PROVE  chain' \in Tables
        BY <3>2, ChainsTyped
      <3>3. ASSUME NEW k \in 1..Len(UndoCmds), chain' = Run(chain, UndoCmds)[k - 1]
            PROVE  chain' \in Tables
        <4>1. k - 1 \in 0..Len(UndoCmds)
          BY ChainsTyped
        <4> QED  BY <3>3, <4>1, ChainsTyped
      <3> QED  BY <1>20, <3>1, <3>2, <3>3 DEF Crash
    <2>2. ifc' \in [Ifaces -> {"absent", "bare", "up"}]
      BY <1>20 DEF Crash, TypeOK
    <2>3. faults' \in 0..MaxFaults
      BY <1>20, FaultsTyped DEF Crash
    <2> QED  BY <1>20, <2>1, <2>2, <2>3, ForgetTyped DEF Crash, TypeOK
  <1>21. CASE Reboot
    <2>1. faults' \in 0..MaxFaults /\ chain' \in Tables
      BY <1>21, FaultsTyped, TablesTyped DEF Reboot
    <2> QED  BY <1>21, <2>1, ForgetTyped DEF Reboot, TypeOK
  <1>22. CASE WatcherReload
    BY <1>22 DEF WatcherReload, TypeOK, memVars, txVars
  <1>24. CASE WatcherRestores
    <2>1. faults' \in 0..MaxFaults
      BY <1>24, FaultsTyped DEF WatcherRestores
    <2>2. cfg' \in Configs /\ running' \in Configs
      <3> HIDE DEF Configs
      <3> QED  BY <1>24 DEF WatcherRestores, TypeOK
    <2>3. UNCHANGED <<desired, chain, hooked, ifc, memVars, txVars, changes>>
      BY <1>24 DEF WatcherRestores
    <2> QED  BY <2>1, <2>2, <2>3 DEF TypeOK, memVars, txVars
  <1>23. CASE UNCHANGED vars
    BY <1>23 DEF TypeOK, vars, hostVars, memVars, txVars
  <1> QED  BY <1>1, <1>2, <1>3, <1>4, <1>5, <1>6, <1>7, <1>8, <1>9, <1>10, <1>11, <1>12, <1>13, <1>14,
              <1>15, <1>16, <1>17, <1>18, <1>19, <1>20, <1>21, <1>22, <1>23, <1>24
           DEF Next, Progress, CommandFails

(* The chains, files, interfaces, records and plans keep their types, for  *)
(* any mappings, addresses and interfaces, whatever fails and whatever the *)
(* records replayed (engine.go, iptables.go, manager.go, wg.go).           *)
THEOREM EngineTyped == Spec => []TypeOK
  BY InitTyped, NextTyped, PTL DEF Spec

-----------------------------------------------------------------------------
(* Interfaces *)

(* Only tunnels whose interface was missing are on the plan, so only those *)
(* are created and, by rollback, deleted.                                  *)
LEMMA UpStaysUpStep == TypeOK /\ UpStaysUp /\ [Next]_vars => UpStaysUp'
  <1> SUFFICES ASSUME TypeOK, UpStaysUp, [Next]_vars PROVE UpStaysUp'
    OBVIOUS
  <1>1. ifc \in [Ifaces -> {"absent", "bare", "up"}]
    BY DEF TypeOK
  <1>2. CASE Begin
    <2> DEFINE p == Diff(desired, chain, cfg, ifc)
    <2>1. CASE p = NoPlan
      BY <1>2, <2>1 DEF Begin, UpStaysUp
    <2>2. CASE p # NoPlan
      <3>1. /\ before' = Host /\ ifc' = ifc /\ created' = {} /\ todo' = p
        BY <1>2, <2>2 DEF Begin, hostVars
      <3>2. before'.ifc = ifc
        BY <3>1 DEF Host
      <3>3. p.tun = {n \in Ifaces : ifc[n] = "absent"}
        BY DEF Diff
      <3> HIDE DEF p
      <3> QED  BY <3>1, <3>2, <3>3 DEF UpStaysUp
    <2> QED  BY <2>1, <2>2
  <1>3. CASE ApplyTunnel
    <2>1. PICK i \in todo.tun :
             /\ ifc' = [ifc EXCEPT ![i] = "up"]
             /\ created' = created \cup {i}
             /\ todo' = [todo EXCEPT !.tun = @ \ {i}]
      BY <1>3 DEF ApplyTunnel
    <2>2. todo \in Plans
      BY DEF TypeOK, Plans
    <2>3. todo'.tun = todo.tun \ {i} /\ i \in Ifaces
      BY <2>1, <2>2 DEF Plans
    <2>4. pc = "apply" /\ before' = before
      BY <1>3 DEF ApplyTunnel, Continue
    <2> QED  BY <1>1, <2>1, <2>3, <2>4 DEF UpStaysUp
  <1>4. CASE ApplyTunnelFails
    <2>1. PICK i \in todo.tun :
             \/ UNCHANGED <<ifc, created>>
             \/ ifc' = [ifc EXCEPT ![i] = "bare"] /\ created' = created \cup {i}
      BY <1>4 DEF ApplyTunnelFails
    <2>2. pc = "apply" /\ before' = before /\ todo' = NoPlan
      BY <1>4 DEF ApplyTunnelFails, Fail
    <2>3. todo'.tun = {}
      BY <2>2 DEF NoPlan
    <2> QED  BY <1>1, <2>1, <2>2, <2>3 DEF UpStaysUp
  <1>5. CASE WriteHaproxy \/ ReloadHaproxy \/ PrepareFirewall \/ ApplyRule
    <2>1. pc = "apply" /\ UNCHANGED <<before, ifc, created>>
      BY <1>5 DEF WriteHaproxy, ReloadHaproxy, PrepareFirewall, ApplyRule, Continue, HapTurn, FwTurn, memVars
    <2>2. todo'.tun = todo.tun
      <3>1. todo \in Plans
        BY DEF TypeOK, Plans
      <3> QED  BY <1>5, <3>1 DEF WriteHaproxy, ReloadHaproxy, PrepareFirewall, ApplyRule, Plans
    <2> QED  BY <2>1, <2>2 DEF UpStaysUp
  <1>6. CASE WriteHaproxyFails \/ ReloadHaproxyFails \/ PrepareFirewallFails \/ ApplyRuleFails \/ VerifyFails
    <2>1. pc = "apply" /\ UNCHANGED <<before, ifc, created>> /\ todo' = NoPlan
      BY <1>6 DEF WriteHaproxyFails, ReloadHaproxyFails, PrepareFirewallFails, ApplyRuleFails, VerifyFails,
                  Fail, HapTurn, FwTurn, Applied, hostVars, memVars
    <2>2. todo'.tun = {}
      BY <2>1 DEF NoPlan
    <2> QED  BY <2>1, <2>2 DEF UpStaysUp
  <1>7. CASE UndoHaproxy \/ UndoHaproxyFails \/ UndoFirewall \/ RestoreSnapshot
    BY <1>7 DEF UndoHaproxy, UndoHaproxyFails, UndoFirewall, RestoreSnapshot, memVars, UpStaysUp
  <1>8. CASE ChangeDesired \/ Verify \/ UndoTunnels \/ Crash \/ Reboot
    <2>1. pc' = "idle"
      BY <1>8 DEF ChangeDesired, Verify, UndoTunnels, Crash, Reboot, ForgetProcess
    <2> QED  BY <2>1 DEF UpStaysUp
  <1>9. CASE WatcherReload \/ WatcherRestores \/ UNCHANGED vars
    BY <1>9 DEF WatcherReload, WatcherRestores, UpStaysUp, vars, hostVars, memVars, txVars
  <1> QED  BY <1>2, <1>3, <1>4, <1>5, <1>6, <1>7, <1>8, <1>9 DEF Next, Progress, CommandFails

(* Only the last step of a rollback ends it and reports. *)
LEMMA KeptStep ==
    ASSUME UpStaysUp, Next, pc = "undoWg", pc' = "idle", result' # "none"
    PROVE  \A i \in Ifaces : before.ifc[i] = "up" => ifc'[i] = "up"
  <1>1. UndoTunnels
    BY DEF Next, Progress, CommandFails, ChangeDesired, Begin, ApplyTunnel, WriteHaproxy, ReloadHaproxy,
           PrepareFirewall, ApplyRule, Verify, VerifyFails, UndoHaproxy, UndoFirewall, RestoreSnapshot,
           ApplyTunnelFails, WriteHaproxyFails, ReloadHaproxyFails, PrepareFirewallFails, ApplyRuleFails,
           UndoHaproxyFails, Crash, Reboot, ForgetProcess, WatcherReload, WatcherRestores,
           HapTurn, FwTurn, Applied, txVars
  <1>2. \E gone \in SUBSET created : ifc' = [i \in Ifaces |-> IF i \in gone THEN "absent" ELSE ifc[i]]
    BY <1>1 DEF UndoTunnels
  <1> QED  BY <1>2 DEF UpStaysUp

(* The action property of the runs: rollback deletes only interfaces that  *)
(* this transaction created (WGManager.BeginTx, RollbackCreate).           *)
THEOREM RollbackKeepsInterfaces == Spec => InterfacesKept
  <1>1. Init => UpStaysUp
    BY DEF Init, UpStaysUp
  <1>2. TypeOK /\ UpStaysUp /\ [Next]_vars =>
          [pc = "undoWg" /\ pc' = "idle" /\ result' # "none"
             => \A i \in Ifaces : before.ifc[i] = "up" => ifc'[i] = "up"]_vars
    BY KeptStep
  <1> QED  BY <1>1, <1>2, UpStaysUpStep, EngineTyped, PTL DEF Spec, InterfacesKept

-----------------------------------------------------------------------------
(* Destinations *)

(* Parts of a set whose members agree agree. *)
LEMMA AgreeParts ==
    ASSUME NEW A, NEW B, Agree(B), A \subseteq B
    PROVE  Agree(A)
  BY DEF Agree

(* The records of two sequences of rules, together. *)
LEMMA DnatOfBoth ==
    ASSUME NEW s \in Seq(Rules), NEW t \in Seq(Rules), NEW m
    PROVE  DnatOf(s \o t, m) \subseteq DnatOf(s, m) \cup DnatOf(t, m)
  <1>1. /\ s \o t \in Seq(Rules) /\ Len(s \o t) = Len(s) + Len(t)
        /\ \A k \in 1..(Len(s) + Len(t)) : (s \o t)[k] = IF k <= Len(s) THEN s[k] ELSE t[k - Len(s)]
    BY ConcatProperties
  <1>2. /\ DOMAIN s = 1..Len(s) /\ DOMAIN t = 1..Len(t) /\ Len(s) \in Nat /\ Len(t) \in Nat
        /\ DOMAIN (s \o t) = 1..(Len(s) + Len(t))
    BY <1>1
  <1> DEFINE st == s \o t
  <1> HIDE DEF st
  <1>3. ASSUME NEW i \in DOMAIN st, st[i].chain = "DNAT", st[i].id = m
        PROVE  st[i].to \in DnatOf(s, m) \cup DnatOf(t, m)
    <2>1. i \in 1..(Len(s) + Len(t)) /\ st[i] = IF i <= Len(s) THEN s[i] ELSE t[i - Len(s)]
      BY <1>1, <1>2, <1>3 DEF st
    <2>2. CASE i <= Len(s)
      <3>1. i \in DOMAIN s /\ st[i] = s[i]
        BY <2>1, <2>2, <1>2
      <3> QED  BY <3>1, <1>3 DEF DnatOf
    <2>3. CASE ~(i <= Len(s))
      <3>1. i - Len(s) \in DOMAIN t /\ st[i] = t[i - Len(s)]
        BY <2>1, <2>3, <1>2
      <3> QED  BY <3>1, <1>3 DEF DnatOf
    <2> QED  BY <2>2, <2>3
  <1> QED  BY <1>3 DEF DnatOf, st

(* What a DELETE records of the DNAT chain is what is there. *)
LEMMA DnatOfDeleted ==
    ASSUME chain \in Tables, desired \in Desired, NEW n \in Mappings, NEW m \in Mappings
    PROVE  /\ m # n => DnatOf(Deleted("DELETE", n), m) = {}
           /\ DnatOf(Deleted("DELETE", n), n) \subseteq Leads(chain["DNAT"][n])
  <1> DEFINE rs == Deleted("DELETE", n)
             d == chain["DNAT"][n]
             f == chain["FORWARD"][n]
             s == chain["SNAT"][n]
  <1>1. rs = RulesOf(chain, n)
    BY DEF Deleted
  <1>2. /\ d \in Seq(Addresses) /\ f \in Seq(Addresses) /\ s \in Seq(Addresses)
        /\ rs \in Seq(Rules) /\ Len(rs) = Len(d) + Len(f) + Len(s)
        /\ \A k \in 1..(Len(d) + Len(f) + Len(s)) :
              rs[k] = IF k <= Len(d) THEN Rule("DNAT", n, d[k])
                      ELSE IF k <= Len(d) + Len(f) THEN Rule("FORWARD", n, f[k - Len(d)])
                      ELSE Rule("SNAT", n, s[k - (Len(d) + Len(f))])
    BY <1>1, RulesOfPlaces
  <1>3. \A k \in 1..Len(rs) : rs[k].id = n
    BY ActionIsAbout
  <1> HIDE DEF rs, d, f, s
  <1>4. DOMAIN rs = 1..Len(rs) /\ DOMAIN d = 1..Len(d) /\ Len(d) \in Nat /\ Len(f) \in Nat /\ Len(s) \in Nat
    BY <1>2
  <1>5. ASSUME NEW k \in DOMAIN rs, rs[k].chain = "DNAT" PROVE rs[k].to \in Leads(d)
    <2>1. k <= Len(d)
      <3> SUFFICES ASSUME ~(k <= Len(d)) PROVE FALSE
        BY <1>4
      <3>1. \/ rs[k] = Rule("FORWARD", n, f[k - Len(d)])
            \/ rs[k] = Rule("SNAT", n, s[k - (Len(d) + Len(f))])
        BY <1>2, <1>4
      <3>2. rs[k].chain # "DNAT"
        BY <3>1 DEF Rule
      <3> QED  BY <3>2, <1>5
    <2>2. k \in DOMAIN d /\ rs[k] = Rule("DNAT", n, d[k])
      BY <2>1, <1>2, <1>4
    <2> QED  BY <2>2 DEF Leads, Rule
  <1>6. DnatOf(rs, n) \subseteq Leads(d)
    BY <1>5 DEF DnatOf
  <1>7. m # n => DnatOf(rs, m) = {}
    BY <1>3, <1>4 DEF DnatOf
  <1> QED  BY <1>6, <1>7 DEF rs, d

(* A step that adds no destination, in a chain, in the records or in a     *)
(* snapshot, to those that agree.                                          *)
LEMMA NothingNew ==
    ASSUME RecordsAgree,
           \A m \in Mappings :
              /\ Leads(chain'["DNAT"][m]) \cup Held(m)' \subseteq Leads(chain["DNAT"][m]) \cup Held(m)
              /\ Held(m)' \subseteq Held(m),
           \A t \in snapshot' : t \in snapshot \/ t.chain = chain
    PROVE  RecordsAgree'
  <1>1. ASSUME NEW m \in Mappings PROVE Agree(Leads(chain'["DNAT"][m]) \cup Held(m)')
    BY AgreeParts DEF RecordsAgree
  <1>2. ASSUME NEW m \in Mappings, NEW t \in snapshot' PROVE Agree(Leads(t.chain["DNAT"][m]) \cup Held(m)')
    <2>1. Agree(Leads(t.chain["DNAT"][m]) \cup Held(m))
      BY DEF RecordsAgree
    <2>2. Leads(t.chain["DNAT"][m]) \cup Held(m)' \subseteq Leads(t.chain["DNAT"][m]) \cup Held(m)
      OBVIOUS
    <2> HIDE DEF Held
    <2> QED  BY <2>1, <2>2, AgreeParts
  <1> QED  BY <1>1, <1>2 DEF RecordsAgree

(* One action of the plan, whose mapping's turn it is. *)
Turn(m) == pc = "apply" /\ ~todo.base /\ todo.fw[m] # "KEEP"

(* Whatever prefix of the commands of an action is run, a mapping's DNAT   *)
(* rules lead where they did or to the desired address only.               *)
LEMMA TurnLeads ==
    ASSUME TypeOK, RecordsAgree, TurnToCome, NEW n \in Mappings, Turn(n),
           NEW k \in 0..Len(ActionCmds(todo.fw[n], n)), NEW m \in Mappings
    PROVE  LET s == Run(chain, ActionCmds(todo.fw[n], n))[k]["DNAT"][m] IN
           /\ m # n => s = chain["DNAT"][m]
           /\ Held(n) = {}
           /\ Agree(Leads(s) \cup Held(m))
  <1> DEFINE kind == todo.fw[n]
             s == Run(chain, ActionCmds(kind, n))[k]["DNAT"][m]
  <1>1. chain \in Tables /\ desired \in Desired /\ "DNAT" \in Chains
    BY DEF TypeOK, Chains
  <1>2. m # n => s = chain["DNAT"][m]
    BY <1>1, ActionLeavesOthers
  <1>3. Held(n) = {} /\ Agree(Leads(chain["DNAT"][n])) /\ (kind = "ADD" => chain["DNAT"][n] = <<>>)
    <2>1. Held(n) = {} /\ (kind = "ADD" => chain["DNAT"][n] = <<>>)
      BY DEF TurnToCome, Turn
    <2>2. Agree(Leads(chain["DNAT"][n]) \cup Held(n))
      BY DEF RecordsAgree
    <2> QED  BY <2>1, <2>2, AgreeParts
  <1>4. CASE m # n
    BY <1>2, <1>3, <1>4 DEF RecordsAgree
  <1>5. CASE m = n
    <2>1. Leads(s) \subseteq Leads(chain["DNAT"][n]) \/ s = <<desired.addr>>
      BY <1>1, <1>3, <1>5, ActionReplaces
    <2>2. Agree(Leads(<<desired.addr>>))
      BY DEF Agree, Leads
    <2>3. Agree(Leads(s))
      BY <2>1, <2>2, <1>3, AgreeParts
    <2> QED  BY <2>3, <1>2, <1>3, <1>5
  <1> QED  BY <1>4, <1>5

(* The records replayed, up to any command, and the snapshot restored.     *)
LEMMA ReplayAgrees ==
    ASSUME TypeOK, RecordsAgree, NEW m \in Mappings, NEW k \in 0..Len(UndoCmds)
    PROVE  LET s == Run(chain, UndoCmds)[k]["DNAT"][m] IN
           /\ Leads(s) \subseteq Leads(chain["DNAT"][m]) \cup Held(m)
           /\ Agree(Leads(s) \cup Held(m))
  <1> DEFINE s == Run(chain, UndoCmds)[k]["DNAT"][m]
  <1>1. Leads(s) \subseteq Leads(chain["DNAT"][m]) \cup Held(m)
    BY UndoLeads DEF TypeOK
  <1>2. Agree(Leads(chain["DNAT"][m]) \cup Held(m))
    BY DEF RecordsAgree
  <1> QED  BY <1>1, <1>2, AgreeParts

(* A step that forgets the records and the snapshot. *)
LEMMA ForgottenAgree ==
    ASSUME ForgetProcess, \A m \in Mappings : Agree(Leads(chain'["DNAT"][m]))
    PROVE  RecordsAgree'
  <1>1. lastDel' = <<>> /\ snapshot' = {}
    BY DEF ForgetProcess
  <1>2. \A m \in Mappings : Held(m)' = {}
    BY <1>1 DEF Held, DnatOf
  <1> QED  BY <1>1, <1>2 DEF RecordsAgree

(* No step adds a second destination to what there is or is on record. *)
LEMMA RecordsAgreeStep == TypeOK /\ RecordsAgree /\ TurnToCome /\ [Next]_vars => RecordsAgree'
  <1> SUFFICES ASSUME TypeOK, RecordsAgree, TurnToCome, [Next]_vars PROVE RecordsAgree'
    OBVIOUS
  <1>1. ASSUME UNCHANGED <<chain, lastDel, snapshot>> PROVE RecordsAgree'
    BY <1>1 DEF RecordsAgree, Held
  <1>2. CASE ChangeDesired \/ Begin \/ ApplyTunnel \/ WriteHaproxy \/ ReloadHaproxy \/ Verify \/ VerifyFails
              \/ UndoHaproxy \/ UndoTunnels \/ ApplyTunnelFails \/ WriteHaproxyFails \/ ReloadHaproxyFails
              \/ UndoHaproxyFails \/ WatcherReload \/ WatcherRestores \/ UNCHANGED vars
    BY <1>1, <1>2 DEF ChangeDesired, Begin, ApplyTunnel, WriteHaproxy, ReloadHaproxy, Verify, VerifyFails,
              UndoHaproxy, UndoTunnels, ApplyTunnelFails, WriteHaproxyFails, ReloadHaproxyFails,
              UndoHaproxyFails, WatcherReload, WatcherRestores, vars, hostVars, memVars
  <1>3. CASE PrepareFirewall
    <2>1. chain' = chain /\ lastDel' = <<>> /\ snapshot' = {[chain |-> chain, hooked |-> hooked]}
      BY <1>3 DEF PrepareFirewall
    <2>2. \A m \in Mappings : Held(m)' = {}
      BY <2>1 DEF Held, DnatOf
    <2>3. \A t \in snapshot' : t.chain = chain
      BY <2>1
    <2> QED  BY <2>1, <2>2, <2>3, NothingNew
  <1>4. CASE PrepareFirewallFails
    <2>1. /\ UNCHANGED <<chain, lastDel>>
          /\ snapshot' = snapshot \/ snapshot' = {[chain |-> chain, hooked |-> hooked]}
      BY <1>4 DEF PrepareFirewallFails
    <2>2. \A m \in Mappings : Held(m)' = Held(m)
      BY <2>1 DEF Held
    <2>3. \A t \in snapshot' : t \in snapshot \/ t.chain = chain
      BY <2>1
    <2> QED  BY <2>1, <2>2, <2>3, NothingNew
  <1>5. CASE ApplyRule
    <2>1. PICK n \in Mappings :
             /\ Current(n)
             /\ chain' = RunAll(chain, ActionCmds(todo.fw[n], n))
             /\ lastDel' = IF todo.fw[n] = "DELETE" THEN lastDel \o Deleted(todo.fw[n], n) ELSE lastDel
      BY <1>5 DEF ApplyRule
    <2>2. Turn(n) /\ snapshot' = snapshot
      BY <1>5, <2>1 DEF ApplyRule, Turn, Current, FwTurn, HapTurn
    <2> DEFINE L == Len(ActionCmds(todo.fw[n], n))
    <2>3. L \in 0..L /\ chain' = Run(chain, ActionCmds(todo.fw[n], n))[L]
      BY <2>1, ChainsTyped DEF RunAll
    <2> HIDE DEF L
    <2>4. /\ Held(n) = {}
          /\ \A m \in Mappings :
                /\ m # n => chain'["DNAT"][m] = chain["DNAT"][m]
                /\ Agree(Leads(chain'["DNAT"][m]) \cup Held(m))
      BY <2>2, <2>3, TurnLeads DEF L
    <2>5. chain \in Tables /\ desired \in Desired /\ lastDel \in Seq(Rules)
      BY DEF TypeOK
    <2>6. CASE todo.fw[n] # "DELETE"
      <3>1. \A m \in Mappings : Held(m)' = Held(m)
        BY <2>1, <2>6 DEF Held
      <3> QED  BY <3>1, <2>2, <2>4 DEF RecordsAgree
    <2>7. CASE todo.fw[n] = "DELETE"
      <3>1. Deleted("DELETE", n) \in Seq(Rules)
        BY <2>5, ActionCmdsPlaces
      <3>2. lastDel' = lastDel \o Deleted("DELETE", n)
        BY <2>1, <2>7
      <3>3. ASSUME NEW m \in Mappings, m # n PROVE Held(m)' \subseteq Held(m)
        BY <3>1, <3>2, <3>3, <2>5, DnatOfBoth, DnatOfDeleted DEF Held
      <3>4. Held(n)' \subseteq Leads(chain["DNAT"][n])
        <4>1. DnatOf(lastDel \o Deleted("DELETE", n), n) \subseteq
                 DnatOf(lastDel, n) \cup DnatOf(Deleted("DELETE", n), n)
          BY <3>1, <2>5, DnatOfBoth
        <4>2. DnatOf(Deleted("DELETE", n), n) \subseteq Leads(chain["DNAT"][n])
          BY <2>5, DnatOfDeleted
        <4> QED  BY <4>1, <4>2, <3>2, <2>4 DEF Held
      <3>5. Leads(chain'["DNAT"][n]) = {}
        <4>1. Agree(Leads(chain["DNAT"][n]))
          BY AgreeParts DEF RecordsAgree
        <4>2. chain'["DNAT"][n] = <<>>
          BY <4>1, <2>1, <2>5, <2>7, ActionReplaces DEF Chains
        <4> QED  BY <4>2 DEF Leads
      <3>6. ASSUME NEW m \in Mappings
            PROVE  Leads(chain'["DNAT"][m]) \cup Held(m)' \subseteq Leads(chain["DNAT"][m]) \cup Held(m)
        BY <3>3, <3>4, <3>5, <2>4
      <3>7. ASSUME NEW m \in Mappings, NEW t \in snapshot
            PROVE  Leads(t.chain["DNAT"][m]) \cup Held(m)' \subseteq Leads(t.chain["DNAT"][m]) \cup Held(m)
        <4>1. CASE m # n
          BY <4>1, <3>3
        <4>2. CASE m = n
          <5>1. t.chain["DNAT"][n] = chain["DNAT"][n]
            BY <2>2 DEF TurnToCome, Turn
          <5> QED  BY <5>1, <4>2, <3>4
        <4> QED  BY <4>1, <4>2
      <3>8. ASSUME NEW m \in Mappings
            PROVE  /\ Agree(Leads(chain'["DNAT"][m]) \cup Held(m)')
                   /\ \A t \in snapshot : Agree(Leads(t.chain["DNAT"][m]) \cup Held(m)')
        <4>1. /\ Agree(Leads(chain["DNAT"][m]) \cup Held(m))
              /\ \A t \in snapshot : Agree(Leads(t.chain["DNAT"][m]) \cup Held(m))
          BY DEF RecordsAgree
        <4>2. Agree(Leads(chain'["DNAT"][m]) \cup Held(m)')
          BY <4>1, <3>6, AgreeParts
        <4>3. ASSUME NEW t \in snapshot PROVE Agree(Leads(t.chain["DNAT"][m]) \cup Held(m)')
          BY <4>1, <3>7, AgreeParts
        <4> QED  BY <4>2, <4>3
      <3> QED  BY <3>8, <2>2 DEF RecordsAgree
    <2> QED  BY <2>6, <2>7
  <1>6. CASE ApplyRuleFails
    <2>1. PICK n \in Mappings : \E k \in 0..(Len(ActionCmds(todo.fw[n], n)) - 1) :
             Current(n) /\ chain' = Run(chain, ActionCmds(todo.fw[n], n))[k]
      BY <1>6 DEF ApplyRuleFails
    <2>2. PICK k \in 0..Len(ActionCmds(todo.fw[n], n)) :
             Current(n) /\ chain' = Run(chain, ActionCmds(todo.fw[n], n))[k]
      BY <2>1, ChainsTyped
    <2>3. Turn(n) /\ snapshot' = snapshot /\ lastDel' = lastDel
      BY <1>6, <2>2 DEF ApplyRuleFails, Turn, Current, FwTurn, HapTurn, memVars
    <2>4. \A m \in Mappings : Held(m)' = Held(m) /\ Agree(Leads(chain'["DNAT"][m]) \cup Held(m))
      BY <2>2, <2>3, TurnLeads DEF Held
    <2> QED  BY <2>3, <2>4 DEF RecordsAgree
  <1>7. CASE UndoFirewall
    <2>1. chain' = RunAll(chain, UndoCmds) /\ lastDel' = <<>> /\ snapshot' = snapshot
      BY <1>7 DEF UndoFirewall
    <2>2. Len(UndoCmds) \in 0..Len(UndoCmds)
      BY ChainsTyped
    <2>3. \A m \in Mappings : Held(m)' = {}
      BY <2>1 DEF Held, DnatOf
    <2>4. \A m \in Mappings : Leads(chain'["DNAT"][m]) \subseteq Leads(chain["DNAT"][m]) \cup Held(m)
      BY <2>1, <2>2, ReplayAgrees DEF RunAll
    <2> QED  BY <2>1, <2>3, <2>4, NothingNew
  <1>8. CASE RestoreSnapshot
    <2>1. snapshot' = snapshot /\ lastDel' = lastDel
      BY <1>8 DEF RestoreSnapshot, memVars
    <2>2. \A m \in Mappings : Held(m)' = Held(m)
      BY <2>1 DEF Held
    <2>3. PICK k \in 1..Len(UndoCmds) :
             (\E t \in snapshot : chain' = t.chain) \/ chain' = Run(chain, UndoCmds)[k - 1]
      BY <1>8 DEF RestoreSnapshot
    <2>4. k - 1 \in 0..Len(UndoCmds)
      BY ChainsTyped
    <2>5. \A m \in Mappings : Agree(Leads(chain'["DNAT"][m]) \cup Held(m))
      BY <2>3, <2>4, ReplayAgrees DEF RecordsAgree
    <2> QED  BY <2>1, <2>2, <2>5 DEF RecordsAgree
  <1>9. CASE Crash
    <2>1. ForgetProcess
      BY <1>9 DEF Crash
    <2>2. ASSUME NEW m \in Mappings PROVE Agree(Leads(chain'["DNAT"][m]))
      <3>1. ASSUME chain' = chain PROVE Agree(Leads(chain'["DNAT"][m]))
        BY <3>1, AgreeParts DEF RecordsAgree
      <3>2. ASSUME NEW n \in Mappings, Turn(n), NEW k \in 1..Len(ActionCmds(todo.fw[n], n)),
                   chain' = Run(chain, ActionCmds(todo.fw[n], n))[k]
            PROVE  Agree(Leads(chain'["DNAT"][m]))
        <4>1. k \in 0..Len(ActionCmds(todo.fw[n], n))
          BY ChainsTyped
        <4>2. Agree(Leads(chain'["DNAT"][m]) \cup Held(m))
          BY <4>1, <3>2, TurnLeads
        <4> QED  BY <4>2, AgreeParts
      <3>3. ASSUME NEW k \in 1..Len(UndoCmds), chain' = Run(chain, UndoCmds)[k - 1]
            PROVE  Agree(Leads(chain'["DNAT"][m]))
        <4>1. k - 1 \in 0..Len(UndoCmds)
          BY ChainsTyped
        <4>2. Agree(Leads(chain'["DNAT"][m]) \cup Held(m))
          BY <4>1, <3>3, ReplayAgrees
        <4> QED  BY <4>2, AgreeParts
      <3> QED  BY <1>9, <3>1, <3>2, <3>3 DEF Crash, Turn, Current, FwTurn, HapTurn
    <2> QED  BY <2>1, <2>2, ForgottenAgree
  <1>10. CASE Reboot
    <2>1. ForgetProcess /\ chain' = NoRules
      BY <1>10 DEF Reboot
    <2>2. \A m \in Mappings : Leads(chain'["DNAT"][m]) = {}
      BY <2>1 DEF NoRules, Chains, Leads
    <2>3. \A m \in Mappings : Agree(Leads(chain'["DNAT"][m]))
      BY <2>2 DEF Agree
    <2> QED  BY <2>1, <2>3, ForgottenAgree
  <1> QED  BY <1>2, <1>3, <1>4, <1>5, <1>6, <1>7, <1>8, <1>9, <1>10 DEF Next, Progress, CommandFails

(* Diff plans an ADD only where there is no DNAT rule, Apply drops the     *)
(* records before its first action, and an action touches one mapping.     *)
LEMMA TurnToComeStep == TypeOK /\ RecordsAgree /\ TurnToCome /\ [Next]_vars => TurnToCome'
  <1> SUFFICES ASSUME TypeOK, RecordsAgree, TurnToCome, [Next]_vars PROVE TurnToCome'
    OBVIOUS
  <1>1. CASE Begin
    <2> DEFINE p == Diff(desired, chain, cfg, ifc)
    <2>1. CASE p = NoPlan
      BY <1>1, <2>1 DEF Begin, TurnToCome, Held, hostVars
    <2>2. CASE p # NoPlan
      <3>1. todo' = p /\ chain' = chain
        BY <1>1, <2>2 DEF Begin, hostVars
      <3>2. /\ p.fw = [m \in Mappings |-> FirewallKind(desired, chain, m)]
            /\ p.base = \E m \in Mappings : p.fw[m] # "KEEP"
        BY DEF Diff
      <3> HIDE DEF p
      <3>3. ASSUME NEW m \in Mappings, p.fw[m] = "ADD" PROVE chain["DNAT"][m] = <<>>
        BY <3>2, <3>3 DEF FirewallKind
      <3>4. \A m \in Mappings : ~p.base => p.fw[m] = "KEEP"
        BY <3>2
      <3> QED  BY <3>1, <3>3, <3>4 DEF TurnToCome
    <2> QED  BY <2>1, <2>2
  <1>2. CASE ApplyTunnel \/ WriteHaproxy \/ ReloadHaproxy
    <2>1. pc = "apply" /\ UNCHANGED <<chain, lastDel, snapshot>>
      BY <1>2 DEF ApplyTunnel, WriteHaproxy, ReloadHaproxy, HapTurn, memVars
    <2>2. todo'.fw = todo.fw /\ todo'.base = todo.base
      <3>1. todo \in Plans
        BY DEF TypeOK, Plans
      <3> QED  BY <1>2, <3>1 DEF ApplyTunnel, WriteHaproxy, ReloadHaproxy, Plans
    <2> QED  BY <2>1, <2>2 DEF TurnToCome, Held
  <1>3. CASE PrepareFirewall
    <2>1. /\ pc = "apply" /\ chain' = chain /\ lastDel' = <<>>
          /\ snapshot' = {[chain |-> chain, hooked |-> hooked]}
      BY <1>3 DEF PrepareFirewall, FwTurn, HapTurn
    <2>2. todo'.fw = todo.fw
      <3>1. todo \in Plans
        BY DEF TypeOK, Plans
      <3> QED  BY <1>3, <3>1 DEF PrepareFirewall, Plans
    <2>3. \A m \in Mappings : Held(m)' = {}
      BY <2>1 DEF Held, DnatOf
    <2>4. \A t \in snapshot' : t.chain = chain
      BY <2>1
    <2> QED  BY <2>1, <2>2, <2>3, <2>4 DEF TurnToCome
  <1>4. CASE ApplyRule
    <2>1. PICK n \in Mappings :
             /\ Current(n)
             /\ chain' = RunAll(chain, ActionCmds(todo.fw[n], n))
             /\ lastDel' = IF todo.fw[n] = "DELETE" THEN lastDel \o Deleted(todo.fw[n], n) ELSE lastDel
             /\ todo' = [todo EXCEPT !.fw[n] = "KEEP"]
      BY <1>4 DEF ApplyRule
    <2>2. pc = "apply" /\ todo.base = FALSE /\ snapshot' = snapshot
      BY <1>4 DEF ApplyRule, FwTurn, HapTurn
    <2>3. chain \in Tables /\ desired \in Desired /\ lastDel \in Seq(Rules) /\ todo \in Plans
      BY DEF TypeOK, Plans
    <2>4. /\ todo'.fw[n] = "KEEP" /\ todo'.base = FALSE
          /\ \A m \in Mappings : m # n => todo'.fw[m] = todo.fw[m]
      BY <2>1, <2>2, <2>3 DEF Plans
    <2>5. ASSUME NEW m \in Mappings, m # n PROVE chain'["DNAT"][m] = chain["DNAT"][m]
      <3>1. Len(ActionCmds(todo.fw[n], n)) \in 0..Len(ActionCmds(todo.fw[n], n))
        BY ChainsTyped
      <3> QED  BY <2>1, <2>3, <2>5, <3>1, ActionLeavesOthers DEF RunAll, Chains
    <2>6. ASSUME NEW m \in Mappings, m # n, Held(m) = {} PROVE Held(m)' = {}
      <3>1. CASE todo.fw[n] # "DELETE"
        BY <2>1, <2>6, <3>1 DEF Held
      <3>2. CASE todo.fw[n] = "DELETE"
        <4>1. Deleted("DELETE", n) \in Seq(Rules) /\ DnatOf(Deleted("DELETE", n), m) = {}
          BY <2>3, <2>6, ActionCmdsPlaces, DnatOfDeleted
        <4>2. DnatOf(lastDel \o Deleted("DELETE", n), m) \subseteq
                 DnatOf(lastDel, m) \cup DnatOf(Deleted("DELETE", n), m)
          BY <4>1, <2>3, DnatOfBoth
        <4>3. lastDel' = lastDel \o Deleted("DELETE", n) /\ DnatOf(lastDel, m) = {}
          BY <2>1, <2>6, <3>2 DEF Held
        <4>4. DnatOf(lastDel', m) = {}
          BY <4>1, <4>2, <4>3
        <4> QED  BY <4>4 DEF Held
      <3> QED  BY <3>1, <3>2
    <2>7. ASSUME NEW m \in Mappings, todo'.fw[m] # "KEEP"
          PROVE  /\ m # n /\ todo'.fw[m] = todo.fw[m] /\ chain'["DNAT"][m] = chain["DNAT"][m]
                 /\ Held(m)' = {}
                 /\ todo.fw[m] = "ADD" => chain["DNAT"][m] = <<>>
                 /\ \A s \in snapshot : s.chain["DNAT"][m] = chain["DNAT"][m]
      <3>1. m # n /\ todo'.fw[m] = todo.fw[m]
        BY <2>4, <2>7
      <3>2. /\ Held(m) = {}
            /\ todo.fw[m] = "ADD" => chain["DNAT"][m] = <<>>
            /\ \A s \in snapshot : s.chain["DNAT"][m] = chain["DNAT"][m]
        BY <3>1, <2>2, <2>7 DEF TurnToCome
      <3> QED  BY <3>1, <3>2, <2>5, <2>6, <2>7
    <2> QED  BY <2>2, <2>7 DEF TurnToCome
  <1>5. CASE ChangeDesired \/ Verify \/ UndoTunnels \/ Crash \/ Reboot \/ CommandFails \/ VerifyFails
              \/ UndoHaproxy \/ UndoFirewall \/ RestoreSnapshot
    <2>1. pc' # "apply"
      BY <1>5 DEF ChangeDesired, Verify, UndoTunnels, Crash, Reboot, ForgetProcess, CommandFails, VerifyFails,
              UndoHaproxy, UndoFirewall, RestoreSnapshot, ApplyTunnelFails, WriteHaproxyFails,
              ReloadHaproxyFails, PrepareFirewallFails, ApplyRuleFails, UndoHaproxyFails, Fail
    <2> QED  BY <2>1 DEF TurnToCome
  <1>6. CASE WatcherReload \/ WatcherRestores \/ UNCHANGED vars
    BY <1>6 DEF WatcherReload, WatcherRestores, TurnToCome, Held, vars, hostVars, memVars, txVars
  <1> QED  BY <1>1, <1>2, <1>3, <1>4, <1>5, <1>6 DEF Next, Progress

(* A mapping never has DNAT rules to two addresses, for any number of      *)
(* mappings, addresses, changes and faults: not half way through a CHANGE, *)
(* not when the records or the snapshot of an earlier transaction are      *)
(* replayed (IptablesNftManager.Apply and Rollback).                       *)
THEOREM OneDestinationOnly == Spec => []OneDestination
  <1>1. Init => RecordsAgree /\ TurnToCome
    <2> SUFFICES ASSUME Init PROVE RecordsAgree /\ TurnToCome
      OBVIOUS
    <2>1. chain = NoRules /\ lastDel = <<>> /\ snapshot = {} /\ pc = "idle"
      BY DEF Init
    <2>2. \A m \in Mappings : Leads(chain["DNAT"][m]) = {} /\ Held(m) = {}
      BY <2>1 DEF NoRules, Chains, Leads, Held, DnatOf
    <2>3. RecordsAgree
      BY <2>1, <2>2 DEF RecordsAgree, Agree
    <2> QED  BY <2>1, <2>3 DEF TurnToCome
  <1>2. RecordsAgree => OneDestination
    <2> SUFFICES ASSUME RecordsAgree PROVE OneDestination
      OBVIOUS
    <2>1. ASSUME NEW m \in Mappings, NEW i \in DOMAIN chain["DNAT"][m], NEW j \in DOMAIN chain["DNAT"][m]
          PROVE  chain["DNAT"][m][i] = chain["DNAT"][m][j]
      <3>1. chain["DNAT"][m][i] \in Leads(chain["DNAT"][m]) /\ chain["DNAT"][m][j] \in Leads(chain["DNAT"][m])
        BY DEF Leads
      <3>2. Agree(Leads(chain["DNAT"][m]) \cup Held(m))
        BY DEF RecordsAgree
      <3> QED  BY <3>1, <3>2 DEF Agree
    <2> QED  BY <2>1 DEF OneDestination
  <1> QED  BY <1>1, <1>2, RecordsAgreeStep, TurnToComeStep, EngineTyped, PTL DEF Spec

-----------------------------------------------------------------------------
(* Transactions without faults *)

(* Where a mapping's rules are the same in all chains, comparing the DNAT  *)
(* chain is enough.                                                        *)
LEMMA KindMeans ==
    ASSUME TypeOK, NEW m \in Mappings, Even(m)
    PROVE  LET kind == FirewallKind(desired, chain, m) IN
           /\ kind = "KEEP" <=> Exact(m)
           /\ kind = "ADD" => m \in desired.want /\ \A c \in Chains : chain[c][m] = <<>>
           /\ kind = "CHANGE" => m \in desired.want
           /\ kind = "DELETE" => m \notin desired.want
           /\ kind \in Kinds
  <1> DEFINE kind == FirewallKind(desired, chain, m)
  <1>1. "DNAT" \in Chains /\ desired.addr \in Addresses
    BY DEF Chains, TypeOK, Desired
  <1>2. CASE \A c \in Chains : chain[c][m] = <<>>
    <2>1. chain["DNAT"][m] = <<>>
      BY <1>1, <1>2
    <2>2. kind = IF m \in desired.want THEN "ADD" ELSE "KEEP"
      BY <2>1 DEF FirewallKind
    <2>3. Exact(m) <=> m \notin desired.want
      <3>1. <<desired.addr>> # <<>>
        OBVIOUS
      <3> QED  BY <1>1, <1>2, <2>1, <3>1 DEF Exact
    <2> QED  BY <1>2, <2>2, <2>3 DEF Kinds
  <1>3. CASE \E x \in Addresses : \A c \in Chains : chain[c][m] = <<x>>
    <2>1. PICK x \in Addresses : \A c \in Chains : chain[c][m] = <<x>>
      BY <1>3
    <2>2. chain["DNAT"][m] = <<x>> /\ chain["DNAT"][m] # <<>> /\ Last(chain["DNAT"][m]) = x
      BY <1>1, <2>1 DEF Last
    <2>3. kind = IF m \notin desired.want THEN "DELETE" ELSE IF x = desired.addr THEN "KEEP" ELSE "CHANGE"
      BY <2>2 DEF FirewallKind
    <2>4. Exact(m) <=> m \in desired.want /\ x = desired.addr
      <3>1. CASE m \notin desired.want
        BY <3>1, <1>1, <2>1, <2>2 DEF Exact
      <3>2. CASE m \in desired.want
        <4>1. Exact(m) <=> \A c \in Chains : chain[c][m] = <<desired.addr>>
          BY <3>2 DEF Exact
        <4>2. (<<x>> = <<desired.addr>>) <=> x = desired.addr
          OBVIOUS
        <4> QED  BY <3>2, <4>1, <4>2, <1>1, <2>1
      <3> QED  BY <3>1, <3>2
    <2> QED  BY <2>3, <2>4 DEF Kinds
  <1> QED  BY <1>2, <1>3 DEF Even

(* Diff finds nothing exactly when its parts do. *)
LEMMA DiffParts ==
    LET p == Diff(desired, chain, cfg, ifc) IN
    /\ p.tun = {n \in Ifaces : ifc[n] = "absent"}
    /\ p.hap = IF cfg.routes # desired.routes THEN "write" ELSE "done"
    /\ p.fw = [m \in Mappings |-> FirewallKind(desired, chain, m)]
    /\ p = NoPlan <=>
          /\ \A n \in Ifaces : ifc[n] # "absent"
          /\ cfg.routes = desired.routes
          /\ \A m \in Mappings : FirewallKind(desired, chain, m) = "KEEP"
  <1> DEFINE fw == [m \in Mappings |-> FirewallKind(desired, chain, m)]
             base == \E m \in Mappings : fw[m] # "KEEP"
             hap == IF cfg.routes # desired.routes THEN "write" ELSE "done"
             tun == {n \in Ifaces : ifc[n] = "absent"}
             p == Diff(desired, chain, cfg, ifc)
             keep == [m \in Mappings |-> "KEEP"]
  <1>1. p = [tun |-> tun, hap |-> hap, base |-> base, fw |-> fw]
    BY DEF Diff
  <1>2. NoPlan = [tun |-> {}, hap |-> "done", base |-> FALSE, fw |-> keep]
    BY DEF NoPlan
  <1>3. /\ tun = {} <=> \A n \in Ifaces : ifc[n] # "absent"
        /\ hap = "done" <=> cfg.routes = desired.routes
        /\ fw = keep <=> \A m \in Mappings : FirewallKind(desired, chain, m) = "KEEP"
    BY Zenon
  <1>4. base = FALSE <=> \A m \in Mappings : FirewallKind(desired, chain, m) = "KEEP"
    BY Zenon
  <1> HIDE DEF fw, base, hap, tun, keep
  <1>5. p.tun = tun /\ p.hap = hap /\ p.fw = fw /\ p.base = base
    BY <1>1
  <1>6. NoPlan.tun = {} /\ NoPlan.hap = "done" /\ NoPlan.fw = keep
    BY <1>2
  <1>7. p = NoPlan => tun = {} /\ hap = "done" /\ fw = keep
    BY <1>5, <1>6
  <1>8. tun = {} /\ hap = "done" /\ fw = keep /\ base = FALSE => p = NoPlan
    BY <1>1, <1>2
  <1>9. p = NoPlan <=> tun = {} /\ hap = "done" /\ fw = keep
    BY <1>3, <1>4, <1>7, <1>8, Zenon
  <1> QED  BY <1>3, <1>5, <1>9 DEF fw, hap, tun

(* A plan that has been applied without faults leaves nothing to find. *)
LEMMA AppliedIsExact ==
    ASSUME TypeOK, OnPlan, faults = 0, Applied
    PROVE  /\ \A m \in Mappings : Exact(m)
           /\ cfg.routes = desired.routes
           /\ Systemctl => running = cfg
           /\ \A i \in Ifaces : ifc[i] = "up"
           /\ Diff(desired, chain, cfg, ifc) = NoPlan
           /\ todo = NoPlan
  <1>1. /\ pc = "apply" /\ todo.tun = {} /\ todo.hap = "done" /\ todo.base = FALSE
        /\ \A m \in Mappings : todo.fw[m] = "KEEP"
    BY DEF Applied, FwTurn, HapTurn
  <1>2. \A m \in Mappings : Exact(m) /\ Even(m)
    BY <1>1 DEF OnPlan, Planned
  <1>3. /\ cfg.routes = desired.routes /\ (Systemctl => running = cfg)
        /\ \A i \in Ifaces : ifc[i] = "up"
    BY <1>1 DEF OnPlan
  <1>4. \A m \in Mappings : FirewallKind(desired, chain, m) = "KEEP"
    BY <1>2, KindMeans
  <1>5. Diff(desired, chain, cfg, ifc) = NoPlan
    BY <1>3, <1>4, DiffParts
  <1>6. todo = NoPlan
    <2> DEFINE keep == [m \in Mappings |-> "KEEP"]
    <2>1. todo \in Plans
      BY DEF TypeOK, Plans
    <2>2. todo.fw \in [Mappings -> Kinds]
          /\ todo = [tun |-> todo.tun, hap |-> todo.hap, base |-> todo.base, fw |-> todo.fw]
      BY <2>1 DEF Plans
    <2>3. todo.fw = keep
      BY <2>2, <1>1
    <2>4. NoPlan = [tun |-> {}, hap |-> "done", base |-> FALSE, fw |-> keep]
      BY DEF NoPlan
    <2> HIDE DEF keep
    <2> QED  BY <2>2, <2>3, <2>4, <1>1
  <1> QED  BY <1>2, <1>3, <1>5, <1>6

(* One action of a plan, without faults, makes its mapping as desired and  *)
(* leaves the others as they were.                                         *)
LEMMA RuleIsExact ==
    ASSUME TypeOK, NEW n \in Mappings, Even(n), Planned(n), todo.fw[n] # "KEEP"
    PROVE  LET ch == RunAll(chain, ActionCmds(todo.fw[n], n)) IN
           /\ \A c \in Chains : ch[c][n] = IF n \in desired.want THEN <<desired.addr>> ELSE <<>>
           /\ \A c \in Chains, m \in Mappings : m # n => ch[c][m] = chain[c][m]
  <1> DEFINE kind == todo.fw[n]
             ch == RunAll(chain, ActionCmds(kind, n))
  <1>1. chain \in Tables /\ desired \in Desired /\ kind \in Kinds
    BY DEF TypeOK
  <1>2. /\ kind = "DELETE" => n \notin desired.want
        /\ kind # "DELETE" => n \in desired.want
        /\ kind = "ADD" => \A c \in Chains : chain[c][n] = <<>>
    BY <1>1 DEF Planned, Kinds
  <1>3. ASSUME NEW c \in Chains PROVE Agree(Leads(chain[c][n]))
    <2>1. chain[c][n] = <<>> \/ \E x \in Addresses : chain[c][n] = <<x>>
      BY DEF Even
    <2> QED  BY <2>1 DEF Agree, Leads
  <1>4. ASSUME NEW c \in Chains PROVE ch[c][n] = IF n \in desired.want THEN <<desired.addr>> ELSE <<>>
    <2>1. ch[c][n] = IF kind = "DELETE" THEN <<>> ELSE <<desired.addr>>
      BY <1>1, <1>2, <1>3, ActionReplaces
    <2> QED  BY <2>1, <1>2
  <1>5. ASSUME NEW c \in Chains, NEW m \in Mappings, m # n PROVE ch[c][m] = chain[c][m]
    <2>1. Len(ActionCmds(kind, n)) \in 0..Len(ActionCmds(kind, n))
      BY ChainsTyped
    <2> QED  BY <1>1, <1>5, <2>1, ActionLeavesOthers DEF RunAll
  <1> QED  BY <1>4, <1>5

(* Without faults only the steps of a transaction that succeeds happen. *)
LEMMA OnlySuccess ==
    ASSUME TypeOK, OnPlan, [Next]_vars, faults' = 0
    PROVE  /\ faults = 0
           /\ \/ ChangeDesired \/ Begin \/ ApplyTunnel \/ WriteHaproxy \/ ReloadHaproxy \/ PrepareFirewall
              \/ ApplyRule \/ Verify \/ WatcherReload \/ UNCHANGED vars
  <1>1. faults \in Nat
    <2>1. faults \in 0..MaxFaults
      BY DEF TypeOK
    <2> QED  BY <2>1, EngineConstants
  <1>2. ASSUME NEW n \in Nat, n > 0, Faults(n) PROVE FALSE
    <2>1. faults' = faults + n
      BY <1>2 DEF Faults
    <2> QED  BY <1>1, <1>2, <2>1
  <1>3. ~Crash /\ ~Reboot /\ ~CommandFails /\ ~WatcherRestores
    <2>1. ~Faults(1) /\ ~Faults(2)
      BY <1>2
    <2> QED  BY <2>1 DEF Crash, Reboot, WatcherRestores, CommandFails, ApplyTunnelFails, WriteHaproxyFails,
              ReloadHaproxyFails, PrepareFirewallFails, ApplyRuleFails, UndoHaproxyFails
  <1>4. ASSUME faults = 0 PROVE ~UndoHaproxy /\ ~UndoFirewall /\ ~RestoreSnapshot /\ ~UndoTunnels /\ ~VerifyFails
    <2>1. pc \in {"idle", "apply"}
      BY <1>4 DEF OnPlan
    <2>2. ~VerifyFails
      BY <1>2, <1>4, AppliedIsExact DEF VerifyFails
    <2> QED  BY <2>1, <2>2 DEF UndoHaproxy, UndoFirewall, RestoreSnapshot, UndoTunnels
  <1>5. faults = 0
    <2>1. CASE RestoreSnapshot
      <3>1. Faults(0) \/ Faults(1) \/ Faults(2)
        BY <2>1 DEF RestoreSnapshot
      <3>2. Faults(0)
        BY <3>1, <1>2
      <3> QED  BY <3>2, <1>1 DEF Faults
    <2>2. CASE UndoTunnels
      <3>1. faults' = faults \/ Faults(1)
        BY <2>2 DEF UndoTunnels
      <3> QED  BY <3>1, <1>2
    <2>3. CASE VerifyFails
      <3>1. faults' = faults \/ Faults(1)
        BY <2>3 DEF VerifyFails
      <3> QED  BY <3>1, <1>2
    <2>4. CASE ~RestoreSnapshot /\ ~UndoTunnels /\ ~VerifyFails
      BY <1>3, <2>4 DEF Next, Progress, ChangeDesired, Begin, ApplyTunnel, WriteHaproxy, ReloadHaproxy,
              PrepareFirewall, ApplyRule, Verify, UndoHaproxy, UndoFirewall, WatcherReload, vars
    <2> QED  BY <2>1, <2>2, <2>3, <2>4
  <1> QED  BY <1>3, <1>4, <1>5 DEF Next, Progress

(* The host as FaultFreeIsExact has it. *)
AsDesired ==
    /\ \A m \in Mappings : Exact(m)
    /\ cfg.routes = desired.routes
    /\ Systemctl => running = cfg
    /\ \A i \in Ifaces : ifc[i] = "up"

(* Without faults a step follows the plan, and success means the plan is done. *)
LEMMA ExactStep == TypeOK /\ OnPlan /\ FaultFreeIsExact /\ [Next]_vars => OnPlan' /\ FaultFreeIsExact'
  <1> SUFFICES ASSUME TypeOK, OnPlan, FaultFreeIsExact, [Next]_vars, faults' = 0
               PROVE  OnPlan' /\ FaultFreeIsExact'
    BY DEF OnPlan, FaultFreeIsExact
  <1>1. faults = 0
    BY OnlySuccess
  <1>2. /\ pc \in {"idle", "apply"} /\ \A m \in Mappings : Even(m)
        /\ \A i \in Ifaces : ifc[i] # "bare"
        /\ todo.hap # "reload" /\ Systemctl => running = cfg
        /\ pc = "idle" => todo = NoPlan
    BY <1>1 DEF OnPlan
  <1>3. pc = "apply" =>
           /\ result = "none"
           /\ todo.hap # "write" => cfg.routes = desired.routes
           /\ \A i \in Ifaces : i \notin todo.tun => ifc[i] = "up"
           /\ \A m \in Mappings : Planned(m)
    BY <1>1 DEF OnPlan
  <1>4. todo \in Plans /\ ifc \in [Ifaces -> {"absent", "bare", "up"}]
    BY DEF TypeOK, Plans
  <1>5. CASE ChangeDesired
    <2>1. pc' = "idle" /\ result' = "none" /\ UNCHANGED <<chain, ifc, running, cfg, todo, pc>>
      BY <1>5 DEF ChangeDesired, hostVars
    <2>2. pc = "idle"
      BY <1>5 DEF ChangeDesired
    <2> QED  BY <1>2, <2>1, <2>2 DEF OnPlan, FaultFreeIsExact, Even
  <1>6. CASE Begin
    <2> DEFINE p == Diff(desired, chain, cfg, ifc)
    <2>1. pc = "idle" /\ UNCHANGED <<desired, chain, cfg, running, ifc>>
      BY <1>6 DEF Begin, hostVars
    <2>2. Systemctl => running = cfg
      <3>1. todo.hap = "done"
        BY <1>2, <2>1 DEF NoPlan
      <3> QED  BY <3>1, <1>2
    <2>3. CASE p = NoPlan
      <3>1. UNCHANGED <<pc, todo>>
        BY <1>6, <2>3 DEF Begin
      <3>2. /\ \A i \in Ifaces : ifc[i] # "absent"
            /\ cfg.routes = desired.routes
            /\ \A m \in Mappings : FirewallKind(desired, chain, m) = "KEEP"
        BY <2>3, DiffParts
      <3>3. \A i \in Ifaces : ifc[i] = "up"
        BY <3>2, <1>2, <1>4
      <3>4. \A m \in Mappings : Exact(m)
        BY <3>2, <1>2, KindMeans
      <3>5. FaultFreeIsExact'
        BY <2>1, <2>2, <3>2, <3>3, <3>4 DEF FaultFreeIsExact, Exact
      <3>6. OnPlan'
        BY <1>2, <2>1, <3>1 DEF OnPlan, Even
      <3> QED  BY <3>5, <3>6
    <2>4. CASE p # NoPlan
      <3>1. result' = "none" /\ pc' = "apply" /\ todo' = p
        BY <1>6, <2>4 DEF Begin
      <3>2. /\ p.tun = {n \in Ifaces : ifc[n] = "absent"}
            /\ p.hap = IF cfg.routes # desired.routes THEN "write" ELSE "done"
            /\ p.fw = [m \in Mappings |-> FirewallKind(desired, chain, m)]
        BY DiffParts
      <3> HIDE DEF p
      <3>3. \A i \in Ifaces : i \notin p.tun => ifc[i] = "up"
        BY <3>2, <1>2, <1>4
      <3>4. p.hap # "write" => cfg.routes = desired.routes
        BY <3>2
      <3>5. ASSUME NEW m \in Mappings PROVE Planned(m)'
        <4>1. todo'.fw[m] = FirewallKind(desired, chain, m)
          BY <3>1, <3>2
        <4>2. Exact(m)' <=> Exact(m)
          BY <2>1 DEF Exact
        <4> QED  BY <4>1, <4>2, <2>1, <1>2, KindMeans DEF Planned, Kinds
      <3> QED  BY <1>2, <2>1, <2>2, <3>1, <3>3, <3>4, <3>5 DEF OnPlan, FaultFreeIsExact, Even
    <2> QED  BY <2>3, <2>4
  <1>7. CASE ApplyTunnel
    <2>1. PICK i \in todo.tun : ifc' = [ifc EXCEPT ![i] = "up"] /\ todo' = [todo EXCEPT !.tun = @ \ {i}]
      BY <1>7 DEF ApplyTunnel
    <2>2. /\ todo'.tun = todo.tun \ {i} /\ todo'.hap = todo.hap /\ todo'.fw = todo.fw
      BY <2>1, <1>4 DEF Plans
    <2>3. pc = "apply" /\ UNCHANGED <<desired, chain, cfg, running, pc, result>>
      BY <1>7 DEF ApplyTunnel, Continue
    <2>4. \A j \in Ifaces : ifc'[j] # "bare" /\ (j \notin todo'.tun => ifc'[j] = "up")
      BY <1>2, <1>3, <1>4, <2>1, <2>2, <2>3
    <2>5. \A m \in Mappings : Planned(m)' /\ Even(m)'
      BY <1>2, <1>3, <2>2, <2>3 DEF Planned, Exact, Even
    <2> QED  BY <1>2, <1>3, <2>2, <2>3, <2>4, <2>5 DEF OnPlan, FaultFreeIsExact
  <1>8. CASE WriteHaproxy
    <2>1. todo'.tun = todo.tun /\ todo'.hap = "reload" /\ todo'.fw = todo.fw
      BY <1>8, <1>4 DEF WriteHaproxy, Plans
    <2>2. pc = "apply" /\ UNCHANGED <<desired, chain, ifc, pc, result>>
      BY <1>8 DEF WriteHaproxy, HapTurn, Continue
    <2>3. cfg'.routes = desired'.routes
      BY <1>8, <2>2, ConfigsTyped DEF WriteHaproxy, TypeOK
    <2>4. \A m \in Mappings : Planned(m)' /\ Even(m)'
      BY <1>2, <1>3, <2>1, <2>2 DEF Planned, Exact, Even
    <2> QED  BY <1>2, <1>3, <2>1, <2>2, <2>3, <2>4 DEF OnPlan, FaultFreeIsExact
  <1>9. CASE ReloadHaproxy
    <2>1. todo'.tun = todo.tun /\ todo'.hap = "done" /\ todo'.fw = todo.fw
      BY <1>9, <1>4 DEF ReloadHaproxy, Plans
    <2>2. /\ pc = "apply" /\ todo.hap = "reload" /\ UNCHANGED <<desired, chain, cfg, ifc, pc, result>>
          /\ running' = IF Systemctl THEN cfg ELSE running
      BY <1>9 DEF ReloadHaproxy, HapTurn, Continue
    <2>3. \A m \in Mappings : Planned(m)' /\ Even(m)'
      BY <1>2, <1>3, <2>1, <2>2 DEF Planned, Exact, Even
    <2> QED  BY <1>2, <1>3, <2>1, <2>2, <2>3 DEF OnPlan, FaultFreeIsExact
  <1>10. CASE PrepareFirewall
    <2>1. todo'.tun = todo.tun /\ todo'.hap = todo.hap /\ todo'.fw = todo.fw
      BY <1>10, <1>4 DEF PrepareFirewall, Plans
    <2>2. pc = "apply" /\ UNCHANGED <<desired, chain, cfg, running, ifc, pc, result>>
      BY <1>10 DEF PrepareFirewall, FwTurn, HapTurn, Continue
    <2>3. \A m \in Mappings : Planned(m)' /\ Even(m)'
      BY <1>2, <1>3, <2>1, <2>2 DEF Planned, Exact, Even
    <2> QED  BY <1>2, <1>3, <2>1, <2>2, <2>3 DEF OnPlan, FaultFreeIsExact
  <1>11. CASE ApplyRule
    <2>1. PICK n \in Mappings :
             /\ Current(n)
             /\ chain' = RunAll(chain, ActionCmds(todo.fw[n], n))
             /\ todo' = [todo EXCEPT !.fw[n] = "KEEP"]
      BY <1>11 DEF ApplyRule
    <2>2. pc = "apply" /\ UNCHANGED <<desired, cfg, running, ifc, pc, result>> /\ todo.fw[n] # "KEEP"
      BY <1>11, <2>1 DEF ApplyRule, FwTurn, HapTurn, Continue, Current
    <2>3. /\ todo'.tun = todo.tun /\ todo'.hap = todo.hap /\ todo'.fw[n] = "KEEP"
          /\ \A m \in Mappings : m # n => todo'.fw[m] = todo.fw[m]
      BY <2>1, <1>4 DEF Plans
    <2>4. /\ \A c \in Chains : chain'[c][n] = IF n \in desired.want THEN <<desired.addr>> ELSE <<>>
          /\ \A c \in Chains, m \in Mappings : m # n => chain'[c][m] = chain[c][m]
      BY <1>2, <1>3, <2>1, <2>2, RuleIsExact
    <2>5. ASSUME NEW m \in Mappings PROVE Planned(m)' /\ Even(m)'
      <3>1. CASE m = n
        <4>1. Exact(m)'
          BY <2>2, <2>4, <3>1 DEF Exact
        <4>2. desired.addr \in Addresses
          BY DEF TypeOK, Desired
        <4>3. Even(m)'
          <5>1. CASE n \in desired.want
            <6>1. \A c \in Chains : chain'[c][m] = <<desired.addr>>
              BY <5>1, <2>4, <3>1
            <6> QED  BY <6>1, <4>2 DEF Even
          <5>2. CASE n \notin desired.want
            <6>1. \A c \in Chains : chain'[c][m] = <<>>
              BY <5>2, <2>4, <3>1
            <6> QED  BY <6>1 DEF Even
          <5> QED  BY <5>1, <5>2
        <4>4. Planned(m)'
          BY <2>3, <3>1, <4>1 DEF Planned
        <4> QED  BY <4>3, <4>4
      <3>2. CASE m # n
        <4>1. todo'.fw[m] = todo.fw[m] /\ \A c \in Chains : chain'[c][m] = chain[c][m]
          BY <2>3, <2>4, <3>2
        <4>2. desired' = desired /\ Even(m) /\ Planned(m)
          BY <1>2, <1>3, <2>2
        <4>3. Even(m)' /\ (Exact(m) => Exact(m)')
          BY <4>1, <4>2 DEF Even, Exact
        <4>4. todo.fw[m] \in Kinds
          BY <1>4 DEF Plans
        <4> QED  BY <4>1, <4>2, <4>3, <4>4 DEF Planned, Kinds
      <3> QED  BY <3>1, <3>2
    <2> QED  BY <1>2, <1>3, <2>2, <2>3, <2>5 DEF OnPlan, FaultFreeIsExact
  <1>12. CASE Verify
    <2>1. Applied /\ pc' = "idle" /\ UNCHANGED <<desired, chain, cfg, running, ifc, todo>>
      BY <1>12 DEF Verify, hostVars
    <2>2. AsDesired /\ todo = NoPlan
      BY <1>1, <2>1, AppliedIsExact DEF AsDesired
    <2>3. FaultFreeIsExact'
      BY <2>1, <2>2 DEF FaultFreeIsExact, AsDesired, Exact
    <2>4. OnPlan'
      BY <1>2, <2>1, <2>2 DEF OnPlan, AsDesired, Even
    <2> QED  BY <2>3, <2>4
  <1>13. CASE WatcherReload
    <2>1. ~Systemctl /\ UNCHANGED <<desired, chain, cfg, ifc, pc, todo, result>>
      BY <1>13 DEF WatcherReload, txVars
    <2>2. \A m \in Mappings : (Planned(m)' <=> Planned(m)) /\ (Even(m)' <=> Even(m))
      BY <2>1 DEF Planned, Exact, Even
    <2> QED  BY <1>1, <1>2, <1>3, <2>1, <2>2 DEF OnPlan, FaultFreeIsExact
  <1>14. CASE UNCHANGED vars
    <2>1. UNCHANGED <<desired, chain, cfg, running, ifc, pc, todo, result>>
      BY <1>14 DEF vars, hostVars, txVars
    <2>2. \A m \in Mappings : (Planned(m)' <=> Planned(m)) /\ (Even(m)' <=> Even(m))
      BY <2>1 DEF Planned, Exact, Even
    <2> QED  BY <1>1, <1>2, <1>3, <2>1, <2>2 DEF OnPlan, FaultFreeIsExact
  <1> QED  BY OnlySuccess, <1>5, <1>6, <1>7, <1>8, <1>9, <1>10, <1>11, <1>12, <1>13, <1>14

(* As long as no command fails, a Reconcile that reports success leaves    *)
(* exactly the desired rules in all three chains - Diff compares one - the *)
(* desired routes in the file and running, and the interfaces up, for any  *)
(* sequence of desired states (Engine.Reconcile, Diff, Apply).             *)
THEOREM SuccessIsExact == Spec => []FaultFreeIsExact
  <1>1. Init => OnPlan /\ FaultFreeIsExact
    <2> SUFFICES ASSUME Init PROVE OnPlan /\ FaultFreeIsExact
      OBVIOUS
    <2>1. /\ chain = NoRules /\ pc = "idle" /\ todo = NoPlan /\ result = "none"
          /\ running = cfg /\ \A i \in Ifaces : ifc[i] = "absent"
      BY DEF Init
    <2>2. \A m \in Mappings : Even(m)
      BY <2>1 DEF NoRules, Even
    <2> QED  BY <2>1, <2>2 DEF OnPlan, FaultFreeIsExact
  <1> QED  BY <1>1, ExactStep, EngineTyped, PTL DEF Spec

-----------------------------------------------------------------------------
(* Counting *)

Places(s, x) == {i \in DOMAIN s : s[i] = x}
One(b) == IF b THEN 1 ELSE 0

(* f matches the members of I with those of J. *)
Matching(f, I, J) ==
    /\ f \in [I -> J]
    /\ \A a, b \in I : f[a] = f[b] => a = b
    /\ \A j \in J : \E a \in I : f[a] = j

(* Sets that can be matched have the same number of members. *)
LEMMA Matched ==
    ASSUME NEW I, NEW J, NEW f, IsFiniteSet(I), Matching(f, I, J)
    PROVE  IsFiniteSet(J) /\ Cardinality(J) = Cardinality(I)
  <1>1. f \in Bijection(I, J)
    BY DEF Matching, Bijection, Injection, Surjection, IsInjective
  <1>2. ExistsBijection(I, J)
    BY <1>1 DEF ExistsBijection
  <1> QED  BY <1>2, FS_Bijection

(* An occurrence counts. *)
LEMMA CountType ==
    ASSUME NEW S, NEW s \in Seq(S), NEW x
    PROVE  /\ IsFiniteSet(Places(s, x)) /\ Count(s, x) = Cardinality(Places(s, x)) /\ Count(s, x) \in Nat
           /\ Count(s, x) > 0 <=> \E i \in DOMAIN s : s[i] = x
           /\ Places(s, x) = {i \in 1..Len(s) : s[i] = x}
  <1>1. DOMAIN s = 1..Len(s) /\ Len(s) \in Nat
    OBVIOUS
  <1>2. IsFiniteSet(1..Len(s)) /\ Places(s, x) \in SUBSET (1..Len(s))
    BY <1>1, FS_Interval DEF Places
  <1>3. IsFiniteSet(Places(s, x))
    BY <1>2, FS_Subset
  <1>4. Cardinality(Places(s, x)) \in Nat /\ (Cardinality(Places(s, x)) = 0 <=> Places(s, x) = {})
    BY <1>3, FS_CardinalityType, FS_EmptySet
  <1>5. Count(s, x) = Cardinality(Places(s, x))
    BY DEF Count, Places
  <1>6. Places(s, x) = {} <=> ~ \E i \in DOMAIN s : s[i] = x
    BY DEF Places
  <1>7. Places(s, x) = {i \in 1..Len(s) : s[i] = x}
    BY <1>1 DEF Places
  <1> QED  BY <1>3, <1>4, <1>5, <1>6, <1>7

(* Counting in a sequence that continues another. *)
LEMMA CountConcat ==
    ASSUME NEW S, NEW s \in Seq(S), NEW t \in Seq(S), NEW x
    PROVE  Count(s \o t, x) = Count(s, x) + Count(t, x)
  <1>1. /\ s \o t \in Seq(S) /\ Len(s \o t) = Len(s) + Len(t)
        /\ \A k \in 1..(Len(s) + Len(t)) : (s \o t)[k] = IF k <= Len(s) THEN s[k] ELSE t[k - Len(s)]
    BY ConcatProperties
  <1>2. Len(s) \in Nat /\ Len(t) \in Nat
    OBVIOUS
  <1> DEFINE n == Len(s)
             st == s \o t
             A == Places(s, x)
             B == Places(t, x)
             C == {i \in (n + 1)..(n + Len(t)) : t[i - n] = x}
             f == [i \in B |-> i + n]
  <1>3. A = {i \in 1..n : s[i] = x} /\ B = {i \in 1..Len(t) : t[i] = x} /\ IsFiniteSet(A) /\ IsFiniteSet(B)
    BY CountType
  <1> HIDE DEF st
  <1>4. Places(st, x) = {i \in 1..(n + Len(t)) : st[i] = x}
    <2>1. st \in Seq(S) /\ Len(st) = n + Len(t)
      BY <1>1 DEF st
    <2>2. Places(st, x) = {i \in 1..Len(st) : st[i] = x}
      BY <2>1, CountType
    <2> QED  BY <2>1, <2>2
  <1> HIDE DEF n
  <1>5. n \in Nat /\ \A i \in 1..(n + Len(t)) : st[i] = IF i <= n THEN s[i] ELSE t[i - n]
    BY <1>1, <1>2 DEF n, st
  <1>6. Places(st, x) = A \cup C /\ A \cap C = {}
    <2> HIDE DEF A
    <2>1. \A i \in 1..(n + Len(t)) : i <= n => (i \in Places(st, x) <=> i \in A) /\ i \notin C
      BY <1>2, <1>3, <1>4, <1>5
    <2>2. \A i \in 1..(n + Len(t)) : ~(i <= n) => (i \in Places(st, x) <=> i \in C) /\ i \notin A
      BY <1>2, <1>3, <1>4, <1>5
    <2>3. Places(st, x) \subseteq 1..(n + Len(t)) /\ A \subseteq 1..(n + Len(t)) /\ C \subseteq 1..(n + Len(t))
      BY <1>2, <1>3, <1>4, <1>5
    <2> HIDE DEF C
    <2> QED  BY <2>1, <2>2, <2>3
  <1>7. IsFiniteSet(C) /\ Cardinality(C) = Cardinality(B)
    <2>1. f \in [B -> C]
      BY <1>2, <1>3, <1>5
    <2>2. \A a, b \in B : f[a] = f[b] => a = b
      BY <1>2, <1>3, <1>5
    <2>3. ASSUME NEW j \in C PROVE \E a \in B : f[a] = j
      <3>1. j - n \in B /\ (j - n) + n = j
        BY <1>2, <1>3, <1>5
      <3>2. f[j - n] = j
        BY <3>1
      <3> QED  BY <3>1, <3>2
    <2> HIDE DEF B, C, f
    <2>4. Matching(f, B, C)
      BY <2>1, <2>2, <2>3 DEF Matching
    <2> QED  BY <2>4, <1>3, Matched
  <1>8. Cardinality(A \cup C) = Cardinality(A) + Cardinality(C) - Cardinality(A \cap C)
    <2> HIDE DEF A, C
    <2> QED  BY <1>3, <1>7, FS_Union
  <1>9. Cardinality(A \cap C) = 0
    BY <1>6, FS_EmptySet
  <1>10. /\ Count(s, x) = Cardinality(A) /\ Count(t, x) = Cardinality(B) /\ Count(st, x) = Cardinality(Places(st, x))
         /\ Cardinality(A) \in Nat /\ Cardinality(B) \in Nat
    BY <1>1, CountType DEF st
  <1>11. Count(st, x) = Count(s, x) + Count(t, x)
    <2> HIDE DEF A, B, C
    <2> QED  BY <1>6, <1>7, <1>8, <1>9, <1>10
  <1> QED  BY <1>11 DEF st

(* Order does not matter to a count. *)
LEMMA CountReverse ==
    ASSUME NEW S, NEW s \in Seq(S), NEW x
    PROVE  Reverse(s) \in Seq(S) /\ Count(Reverse(s), x) = Count(s, x)
  <1> DEFINE n == Len(s)
             r == Reverse(s)
             A == Places(s, x)
             B == Places(r, x)
             f == [i \in A |-> (n - i) + 1]
  <1>1. n \in Nat /\ \A i \in 1..n : s[i] \in S
    OBVIOUS
  <1>2. r = [i \in 1..n |-> s[(n - i) + 1]]
    BY DEF Reverse
  <1> HIDE DEF n, r
  <1>3. \A i \in 1..n : (n - i) + 1 \in 1..n /\ (n - ((n - i) + 1)) + 1 = i
    BY <1>1
  <1>4. r \in Seq(S) /\ Len(r) = n /\ \A i \in 1..n : r[i] = s[(n - i) + 1]
    BY <1>1, <1>2, <1>3
  <1>5. A = {i \in 1..n : s[i] = x} /\ B = {i \in 1..n : r[i] = x} /\ IsFiniteSet(A)
    BY <1>4, CountType DEF n
  <1>6. f \in [A -> B]
    BY <1>3, <1>4, <1>5
  <1>7. \A a, b \in A : f[a] = f[b] => a = b
    BY <1>1, <1>3, <1>5
  <1>8. ASSUME NEW j \in B PROVE \E a \in A : f[a] = j
    <2>1. (n - j) + 1 \in A
      BY <1>3, <1>4, <1>5
    <2> QED  BY <2>1, <1>3, <1>5
  <1>9. Cardinality(B) = Cardinality(A)
    <2> HIDE DEF A, B, f
    <2>1. Matching(f, A, B)
      BY <1>6, <1>7, <1>8 DEF Matching
    <2> QED  BY <2>1, <1>5, Matched
  <1> QED  BY <1>4, <1>9, CountType DEF r

(* RemoveFirst takes out one. *)
LEMMA CountRemoveFirst ==
    ASSUME NEW s \in Seq(Addresses), NEW y, \E i \in DOMAIN s : s[i] = y, NEW x
    PROVE  Count(RemoveFirst(s, y), x) + One(x = y) = Count(s, x)
  <1> DEFINE n == Len(s)
             r == RemoveFirst(s, y)
             A == Places(r, x)
  <1>1. n \in Nat /\ DOMAIN s = 1..n
    OBVIOUS
  <1>2. PICK j \in 1..n :
           /\ s[j] = y /\ r \in Seq(Addresses) /\ Len(r) = n - 1
           /\ \A i \in 1..(n - 1) : r[i] = IF i < j THEN s[i] ELSE s[i + 1]
    <2>1. \E i \in 1..Len(s) : s[i] = y
      OBVIOUS
    <2> QED  BY <2>1, RemoveFirstTaken
  <1> DEFINE B == Places(s, x) \ {j}
             f == [i \in A |-> IF i < j THEN i ELSE i + 1]
  <1> HIDE DEF n, r
  <1>3. /\ A = {i \in 1..(n - 1) : r[i] = x} /\ Places(s, x) = {i \in 1..n : s[i] = x}
        /\ IsFiniteSet(A) /\ IsFiniteSet(Places(s, x))
    BY <1>2, CountType DEF n
  <1>4. f \in [A -> B]
    BY <1>1, <1>2, <1>3
  <1>5. \A a, b \in A : f[a] = f[b] => a = b
    BY <1>1, <1>2, <1>3
  <1>6. ASSUME NEW b \in B PROVE \E a \in A : f[a] = b
    <2>1. b \in 1..n /\ b # j /\ s[b] = x
      BY <1>3
    <2>2. CASE b < j
      <3>1. b \in A
        BY <1>1, <1>2, <1>3, <2>1, <2>2
      <3> QED  BY <3>1, <2>2
    <2>3. CASE ~(b < j)
      <3>1. b - 1 \in A /\ ~(b - 1 < j) /\ (b - 1) + 1 = b
        BY <1>1, <1>2, <1>3, <2>1, <2>3
      <3> QED  BY <3>1
    <2> QED  BY <2>2, <2>3
  <1>7. Cardinality(B) = Cardinality(A)
    <2> HIDE DEF A, B, f
    <2>1. Matching(f, A, B)
      BY <1>4, <1>5, <1>6 DEF Matching
    <2> QED  BY <2>1, <1>3, Matched
  <1>8. /\ Count(r, x) = Cardinality(A) /\ Count(s, x) = Cardinality(Places(s, x))
        /\ Cardinality(A) \in Nat /\ Cardinality(Places(s, x)) \in Nat
    BY <1>2, CountType
  <1>9. Cardinality(B) = IF j \in Places(s, x) THEN Cardinality(Places(s, x)) - 1 ELSE Cardinality(Places(s, x))
    BY <1>3, FS_RemoveElement
  <1>10. j \in Places(s, x) <=> x = y
    BY <1>2, <1>3
  <1>11. Count(r, x) + One(x = y) = Count(s, x)
    <2> HIDE DEF A, B
    <2> QED  BY <1>7, <1>8, <1>9, <1>10 DEF One
  <1> QED  BY <1>11 DEF r

(* Counts in an empty sequence ... *)
LEMMA CountNone ==
    ASSUME NEW x
    PROVE  Count(<<>>, x) = 0
  <1>1. {i \in DOMAIN <<>> : <<>>[i] = x} = {}
    OBVIOUS
  <1> QED  BY <1>1, FS_EmptySet DEF Count

(* ... and in one of a single rule. *)
LEMMA CountOne ==
    ASSUME NEW y, NEW x
    PROVE  Count(<<y>>, x) = One(x = y)
  <1>1. CASE x = y
    <2>1. {i \in DOMAIN <<y>> : <<y>>[i] = x} = {1}
      BY <1>1
    <2>2. Cardinality({1}) = 1
      BY FS_Singleton
    <2>3. Count(<<y>>, x) = 1
      BY <2>1, <2>2 DEF Count
    <2> QED  BY <2>3, <1>1 DEF One
  <1>2. CASE x # y
    <2>1. {i \in DOMAIN <<y>> : <<y>>[i] = x} = {}
      BY <1>2
    <2>2. Count(<<y>>, x) = 0
      BY <2>1, FS_EmptySet DEF Count
    <2> QED  BY <2>2, <1>2 DEF One
  <1> QED  BY <1>1, <1>2

-----------------------------------------------------------------------------
(* What commands add and delete *)

Cmd(kind, r) == [kind |-> kind, rule |-> r]
CountTo(cmds, k, cmd) == Cardinality({j \in 1..k : cmds[j] = cmd})
Has(ch, r) == \E i \in DOMAIN ch[r.chain][r.id] : ch[r.chain][r.id][i] = r.to

(* Commands are told apart by their kind and their rule. *)
LEMMA CmdParts ==
    /\ \A kind, q, r : Cmd(kind, q) = Cmd(kind, r) <=> q = r
    /\ \A q, r : Cmd("A", q) # Cmd("D", r)
  <1>1. ASSUME NEW kind, NEW q PROVE Cmd(kind, q).kind = kind /\ Cmd(kind, q).rule = q
    BY DEF Cmd
  <1>2. ASSUME NEW kind, NEW q, NEW r, Cmd(kind, q) = Cmd(kind, r) PROVE q = r
    <2>1. q = Cmd(kind, q).rule /\ r = Cmd(kind, r).rule
      BY <1>1
    <2> QED  BY <2>1, <1>2
  <1>3. ASSUME NEW q, NEW r, Cmd("A", q) = Cmd("D", r) PROVE FALSE
    <2>1. "A" = Cmd("A", q).kind /\ "D" = Cmd("D", r).kind
      BY <1>1
    <2>2. "A" = "D"
      BY <2>1, <1>3
    <2> QED  BY <2>2
  <1> QED  BY <1>2, <1>3

(* Counting command by command. *)
LEMMA CountToStep ==
    ASSUME NEW cmds, NEW cmd, NEW k \in Nat
    PROVE  /\ CountTo(cmds, 0, cmd) = 0
           /\ CountTo(cmds, k, cmd) \in Nat
           /\ CountTo(cmds, k + 1, cmd) = CountTo(cmds, k, cmd) + One(cmds[k + 1] = cmd)
  <1> DEFINE A == {j \in 1..k : cmds[j] = cmd}
             B == {j \in 1..(k + 1) : cmds[j] = cmd}
  <1>1. IsFiniteSet(1..k) /\ A \in SUBSET (1..k)
    BY FS_Interval
  <1>2. IsFiniteSet(A)
    BY <1>1, FS_Subset
  <1>3. Cardinality(A) \in Nat
    BY <1>2, FS_CardinalityType
  <1>4. k + 1 \notin A
    OBVIOUS
  <1>5. Cardinality(B) = Cardinality(A) + One(cmds[k + 1] = cmd)
    <2>1. CASE cmds[k + 1] = cmd
      <3>1. B = A \cup {k + 1}
        BY <2>1
      <3> HIDE DEF A, B
      <3>2. Cardinality(A \cup {k + 1}) = Cardinality(A) + 1
        BY <1>2, <1>4, FS_AddElement
      <3> QED  BY <2>1, <3>1, <3>2 DEF One
    <2>2. CASE cmds[k + 1] # cmd
      <3>1. B = A
        BY <2>2
      <3> HIDE DEF A, B
      <3> QED  BY <2>2, <3>1, <1>3 DEF One
    <2> QED  BY <2>1, <2>2
  <1>6. {j \in 1..0 : cmds[j] = cmd} = {}
    OBVIOUS
  <1>7. CountTo(cmds, 0, cmd) = 0
    BY <1>6, FS_EmptySet DEF CountTo
  <1>8. CountTo(cmds, k, cmd) = Cardinality(A) /\ CountTo(cmds, k + 1, cmd) = Cardinality(B)
    BY DEF CountTo
  <1> HIDE DEF A, B
  <1> QED  BY <1>3, <1>5, <1>7, <1>8

(* What a command that deletes what there is does to the number of rules. *)
LEMMA EditedCount ==
    ASSUME NEW s \in Seq(Addresses), NEW cmd \in Cmds, NEW x,
           cmd.kind = "D" => \E i \in DOMAIN s : s[i] = cmd.rule.to
    PROVE  /\ Count(s, x) \in Nat /\ Count(Edited(s, cmd), x) \in Nat
           /\ Count(Edited(s, cmd), x) + One(cmd.kind = "D" /\ cmd.rule.to = x)
                 = Count(s, x) + One(cmd.kind = "A" /\ cmd.rule.to = x)
  <1>1. cmd.rule.to \in Addresses /\ cmd.kind \in {"A", "D"}
    BY DEF Cmds, Rules
  <1>2. Edited(s, cmd) \in Seq(Addresses)
    BY EditedLeads
  <1>3. Count(s, x) \in Nat /\ Count(Edited(s, cmd), x) \in Nat
    BY <1>2, CountType
  <1>4. CASE cmd.kind = "A"
    <2>1. Edited(s, cmd) = Append(s, cmd.rule.to)
      BY <1>4 DEF Edited
    <2>2. Append(s, cmd.rule.to) = s \o <<cmd.rule.to>> /\ <<cmd.rule.to>> \in Seq(Addresses)
      BY <1>1, AppendIsConcat
    <2>3. Count(s \o <<cmd.rule.to>>, x) = Count(s, x) + Count(<<cmd.rule.to>>, x)
      BY <2>2, CountConcat
    <2>4. Count(<<cmd.rule.to>>, x) = One(x = cmd.rule.to)
      BY CountOne
    <2>5. Count(Edited(s, cmd), x) = Count(s, x) + One(x = cmd.rule.to)
      BY <2>1, <2>2, <2>3, <2>4
    <2> QED  BY <1>3, <1>4, <2>5 DEF One
  <1>5. CASE cmd.kind = "D"
    <2>1. Edited(s, cmd) = RemoveFirst(s, cmd.rule.to)
      BY <1>5 DEF Edited
    <2>2. Count(RemoveFirst(s, cmd.rule.to), x) + One(x = cmd.rule.to) = Count(s, x)
      BY <1>5, CountRemoveFirst
    <2> QED  BY <1>3, <1>5, <2>1, <2>2 DEF One
  <1> QED  BY <1>1, <1>3, <1>4, <1>5

(* Two balances add up. *)
LEMMA Sums ==
    ASSUME NEW s \in Nat, NEW t \in Nat, NEW a \in Nat, NEW b \in Nat, NEW d \in Nat,
           NEW p \in Nat, NEW q \in Nat, s + d = b + a, t + p = s + q
    PROVE  t + (d + p) = b + (a + q)
  OBVIOUS

(* What there is and what was deleted is what there was and what was added. *)
Account(ch, cmds, k, c, m, x) ==
    Count(Run(ch, cmds)[k][c][m], x) + CountTo(cmds, k, Cmd("D", Rule(c, m, x)))
        = Count(ch[c][m], x) + CountTo(cmds, k, Cmd("A", Rule(c, m, x)))

(* As long as every rule to delete is there, nothing is lost. *)
LEMMA RunBalance ==
    ASSUME NEW ch \in Tables, NEW cmds \in Seq(Cmds), NEW n \in 0..Len(cmds),
           \A k \in 0..(n - 1) : cmds[k + 1].kind = "D" => Has(Run(ch, cmds)[k], cmds[k + 1].rule),
           NEW c \in Chains, NEW m \in Mappings, NEW x
    PROVE  Account(ch, cmds, n, c, m, x)
  <1> DEFINE S == {k \in Nat : Account(ch, cmds, k, c, m, x)}
             del == Cmd("D", Rule(c, m, x))
             add == Cmd("A", Rule(c, m, x))
  <1>1. Len(cmds) \in Nat /\ n \in Nat /\ n <= Len(cmds)
    OBVIOUS
  <1>2. 0 \in S
    <2>1. Run(ch, cmds)[0] = ch /\ CountTo(cmds, 0, del) = 0 /\ CountTo(cmds, 0, add) = 0
      BY <1>1, RunUnfolds, CountToStep
    <2> QED  BY <2>1 DEF Account
  <1>3. ASSUME NEW k \in 0..(n - 1), k \in S PROVE k + 1 \in S
    <2> DEFINE cmd == cmds[k + 1]
               s == Run(ch, cmds)[k][c][m]
               t == Run(ch, cmds)[k + 1][c][m]
    <2>1. k \in 0..(Len(cmds) - 1) /\ k \in Nat /\ k + 1 \in Nat
      BY <1>1
    <2>2. s \in Seq(Addresses) /\ cmd \in Cmds /\ t = IF Touches(cmd, c, m) THEN Edited(s, cmd) ELSE s
      BY <2>1, RunStep
    <2>3. cmd.kind = "D" => Has(Run(ch, cmds)[k], cmd.rule)
      BY <1>3
    <2>4. /\ CountTo(cmds, k + 1, del) = CountTo(cmds, k, del) + One(cmd = del) /\ CountTo(cmds, k, del) \in Nat
          /\ CountTo(cmds, k + 1, add) = CountTo(cmds, k, add) + One(cmd = add) /\ CountTo(cmds, k, add) \in Nat
      BY <2>1, CountToStep
    <2>5. Count(s, x) + CountTo(cmds, k, del) = Count(ch[c][m], x) + CountTo(cmds, k, add)
      BY <1>3 DEF Account
    <2>6. Count(s, x) \in Nat /\ Count(ch[c][m], x) \in Nat
      <3>1. ch[c][m] \in Seq(Addresses)
        BY DEF Tables
      <3> HIDE DEF s
      <3> QED  BY <3>1, <2>2, CountType
    <2>7. /\ cmd = del <=> Touches(cmd, c, m) /\ cmd.kind = "D" /\ cmd.rule.to = x
          /\ cmd = add <=> Touches(cmd, c, m) /\ cmd.kind = "A" /\ cmd.rule.to = x
      <3>1. cmd = [kind |-> cmd.kind, rule |-> cmd.rule] /\ cmd.rule \in Rules
        BY <2>2 DEF Cmds
      <3>2. cmd.rule = [chain |-> cmd.rule.chain, id |-> cmd.rule.id, to |-> cmd.rule.to]
        BY <3>1 DEF Rules
      <3> HIDE DEF cmd
      <3> QED  BY <3>1, <3>2 DEF Cmd, Rule, Touches
    <2>8. Touches(cmd, c, m) /\ cmd.kind = "D" => \E i \in DOMAIN s : s[i] = cmd.rule.to
      BY <2>3 DEF Has, Touches
    <2> HIDE DEF cmd, s, t, del, add
    <2>9. Count(t, x) + CountTo(cmds, k + 1, del) = Count(ch[c][m], x) + CountTo(cmds, k + 1, add)
      <3>1. CASE Touches(cmd, c, m)
        <4>1. /\ Count(t, x) \in Nat
              /\ Count(t, x) + One(cmd.kind = "D" /\ cmd.rule.to = x)
                    = Count(s, x) + One(cmd.kind = "A" /\ cmd.rule.to = x)
          BY <2>2, <2>8, <3>1, EditedCount
        <4>2. Count(t, x) + One(cmd = del) = Count(s, x) + One(cmd = add)
          BY <4>1, <3>1, <2>7 DEF One
        <4>3. One(cmd = del) \in Nat /\ One(cmd = add) \in Nat
          BY DEF One
        <4> DEFINE a == CountTo(cmds, k, add)
                   d == CountTo(cmds, k, del)
                   b == Count(ch[c][m], x)
                   p == One(cmd = del)
                   q == One(cmd = add)
                   u == Count(s, x)
                   v == Count(t, x)
        <4>4. a \in Nat /\ d \in Nat /\ b \in Nat /\ u \in Nat /\ u + d = b + a
          BY <2>4, <2>5, <2>6
        <4>5. CountTo(cmds, k + 1, del) = d + p /\ CountTo(cmds, k + 1, add) = a + q
          BY <2>4
        <4>6. p \in Nat /\ q \in Nat /\ v \in Nat /\ v + p = u + q
          BY <4>1, <4>2, <4>3
        <4> HIDE DEF a, b, d, p, q, u, v
        <4>7. v + (d + p) = b + (a + q)
          BY <4>4, <4>6, Sums
        <4> QED  BY <4>5, <4>7 DEF b, v
      <3>2. CASE ~Touches(cmd, c, m)
        <4>1. t = s /\ One(cmd = del) = 0 /\ One(cmd = add) = 0
          BY <2>2, <2>7, <3>2 DEF One
        <4> QED  BY <4>1, <2>4, <2>5, <2>6
      <3> QED  BY <3>1, <3>2
    <2>10. Account(ch, cmds, k + 1, c, m, x)
      BY <2>9 DEF Account, t, del, add
    <2> QED  BY <2>10, <2>1
  <1>4. 0..n \subseteq S
    <2> HIDE DEF S
    <2> QED  BY <1>1, <1>2, <1>3, BoundedInduction
  <1> QED  BY <1>1, <1>4

(* How often a command is among deletions followed by additions. *)
LEMMA CountCommands ==
    ASSUME NEW r, NEW qs \in Seq(Rules), NEW rs \in Seq(Rules)
    PROVE  LET cmds == Commands("D", qs) \o Commands("A", rs) IN
           /\ cmds \in Seq(Cmds) /\ Len(cmds) = Len(qs) + Len(rs)
           /\ \A k \in 1..Len(qs) : cmds[k] = Cmd("D", qs[k])
           /\ \A k \in 1..Len(rs) : cmds[Len(qs) + k] = Cmd("A", rs[k])
           /\ CountTo(cmds, Len(cmds), Cmd("D", r)) = Count(qs, r)
           /\ CountTo(cmds, Len(cmds), Cmd("A", r)) = Count(rs, r)
  <1> DEFINE cd == Commands("D", qs)
             ca == Commands("A", rs)
             cmds == cd \o ca
  <1>1. /\ cd \in Seq(Cmds) /\ Len(cd) = Len(qs) /\ \A k \in 1..Len(qs) : cd[k] = Cmd("D", qs[k])
        /\ ca \in Seq(Cmds) /\ Len(ca) = Len(rs) /\ \A k \in 1..Len(rs) : ca[k] = Cmd("A", rs[k])
    BY CommandsOf DEF Cmd
  <1> HIDE DEF cd, ca
  <1>2. /\ cmds \in Seq(Cmds) /\ Len(cmds) = Len(cd) + Len(ca)
        /\ \A k \in 1..(Len(cd) + Len(ca)) : cmds[k] = IF k <= Len(cd) THEN cd[k] ELSE ca[k - Len(cd)]
    <2>1. cd \in Seq(Cmds) /\ ca \in Seq(Cmds)
      BY <1>1
    <2> QED  BY <2>1, ConcatProperties
  <1>0. DOMAIN cd = 1..Len(qs) /\ DOMAIN ca = 1..Len(rs) /\ DOMAIN qs = 1..Len(qs) /\ DOMAIN rs = 1..Len(rs)
    <2>1. cd \in Seq(Cmds) /\ ca \in Seq(Cmds) /\ Len(cd) = Len(qs) /\ Len(ca) = Len(rs)
      BY <1>1
    <2> QED  BY <2>1
  <1>3. Len(qs) \in Nat /\ Len(rs) \in Nat
    OBVIOUS
  <1>4. ASSUME NEW y PROVE CountTo(cmds, Len(cmds), y) = Count(cd, y) + Count(ca, y)
    <2>1. Count(cmds, y) = Count(cd, y) + Count(ca, y)
      BY <1>1, CountConcat
    <2> HIDE DEF cmds
    <2>2. Count(cmds, y) = CountTo(cmds, Len(cmds), y)
      BY <1>2 DEF Count, CountTo
    <2> QED  BY <2>1, <2>2
  <1>5. Count(cd, Cmd("D", r)) = Count(qs, r)
    <2>1. {i \in DOMAIN cd : cd[i] = Cmd("D", r)} = {i \in DOMAIN qs : qs[i] = r}
      <3>1. DOMAIN cd = 1..Len(qs) /\ DOMAIN qs = 1..Len(qs)
        BY <1>0
      <3>2. \A k \in 1..Len(qs) : cd[k] = Cmd("D", r) <=> qs[k] = r
        BY <1>1, CmdParts
      <3> QED  BY <3>1, <3>2
    <2> QED  BY <2>1 DEF Count
  <1>6. Count(ca, Cmd("A", r)) = Count(rs, r)
    <2>1. {i \in DOMAIN ca : ca[i] = Cmd("A", r)} = {i \in DOMAIN rs : rs[i] = r}
      <3>1. DOMAIN ca = 1..Len(rs) /\ DOMAIN rs = 1..Len(rs)
        BY <1>0
      <3>2. \A k \in 1..Len(rs) : ca[k] = Cmd("A", r) <=> rs[k] = r
        BY <1>1, CmdParts
      <3> QED  BY <3>1, <3>2
    <2> QED  BY <2>1 DEF Count
  <1>7. Count(cd, Cmd("A", r)) = 0
    <2>1. \A i \in 1..Len(qs) : cd[i] # Cmd("A", r)
      BY <1>1, CmdParts
    <2>2. {i \in DOMAIN cd : cd[i] = Cmd("A", r)} = {}
      BY <2>1, <1>0
    <2> QED  BY <2>2, FS_EmptySet DEF Count
  <1>8. Count(ca, Cmd("D", r)) = 0
    <2>1. \A i \in 1..Len(rs) : ca[i] # Cmd("D", r)
      BY <1>1, CmdParts
    <2>2. {i \in DOMAIN ca : ca[i] = Cmd("D", r)} = {}
      BY <2>1, <1>0
    <2> QED  BY <2>2, FS_EmptySet DEF Count
  <1>9. Count(qs, r) \in Nat /\ Count(rs, r) \in Nat
    BY CountType
  <1>10. \A k \in 1..Len(qs) : cmds[k] = Cmd("D", qs[k])
    BY <1>1, <1>2, <1>3
  <1>11. ASSUME NEW k \in 1..Len(rs) PROVE cmds[Len(qs) + k] = Cmd("A", rs[k])
    <2>1. /\ Len(qs) + k \in 1..(Len(cd) + Len(ca)) /\ ~(Len(qs) + k <= Len(cd))
          /\ (Len(qs) + k) - Len(cd) = k
      BY <1>1, <1>3
    <2> HIDE DEF cmds
    <2> QED  BY <2>1, <1>1, <1>2
  <1>12. /\ CountTo(cmds, Len(cmds), Cmd("D", r)) = Count(qs, r)
         /\ CountTo(cmds, Len(cmds), Cmd("A", r)) = Count(rs, r)
    <2> HIDE DEF cmds
    <2> QED  BY <1>4, <1>5, <1>6, <1>7, <1>8, <1>9
  <1>13. Len(cmds) = Len(qs) + Len(rs)
    BY <1>1, <1>2
  <1> QED  BY <1>2, <1>10, <1>11, <1>12, <1>13 DEF cd, ca

(* The rules of a mapping are as many as in its chains. *)
LEMMA CountRulesOf ==
    ASSUME NEW ch \in Tables, NEW m \in Mappings, NEW c \in Chains, NEW x
    PROVE  Count(RulesOf(ch, m), Rule(c, m, x)) = Count(ch[c][m], x)
  <1>1. ASSUME NEW b \in Chains
        PROVE  /\ RulesIn(ch, b, m) \in Seq(Rules)
               /\ Count(RulesIn(ch, b, m), Rule(c, m, x)) = IF b = c THEN Count(ch[c][m], x) ELSE 0
    <2> DEFINE t == ch[b][m]
               rs == RulesIn(ch, b, m)
    <2>1. /\ t \in Seq(Addresses) /\ rs \in Seq(Rules) /\ Len(rs) = Len(t)
          /\ \A i \in 1..Len(t) : rs[i] = Rule(b, m, t[i])
      BY RulesInChain DEF Rule
    <2> HIDE DEF t, rs
    <2>2. DOMAIN rs = 1..Len(t) /\ DOMAIN t = 1..Len(t)
      <3>1. t \in Seq(Addresses) /\ rs \in Seq(Rules) /\ Len(rs) = Len(t)
        BY <2>1
      <3> QED  BY <3>1
    <2>3. \A y, z : /\ Rule(b, m, y).chain = b /\ Rule(b, m, y).to = y
                    /\ Rule(c, m, z).chain = c /\ Rule(c, m, z).to = z
      BY DEF Rule
    <2>4. \A y : Rule(b, m, y) = Rule(c, m, x) <=> b = c /\ y = x
      <3>1. ASSUME NEW y, Rule(b, m, y) = Rule(c, m, x) PROVE b = c /\ y = x
        <4>1. /\ b = Rule(b, m, y).chain /\ c = Rule(c, m, x).chain
              /\ y = Rule(b, m, y).to /\ x = Rule(c, m, x).to
          BY <2>3, Zenon
        <4> QED  BY <4>1, <3>1, Zenon
      <3> QED  BY <3>1, Zenon
    <2>5. CASE b = c
      <3>1. \A i \in 1..Len(t) : rs[i] = Rule(c, m, x) <=> t[i] = x
        BY <2>1, <2>4, <2>5
      <3>2. {i \in DOMAIN rs : rs[i] = Rule(c, m, x)} = {i \in DOMAIN t : t[i] = x}
        BY <2>2, <3>1
      <3>3. Count(rs, Rule(c, m, x)) = Count(t, x)
        BY <3>2 DEF Count
      <3> QED  BY <2>1, <2>5, <3>3 DEF t, rs
    <2>6. CASE b # c
      <3>1. \A i \in 1..Len(t) : rs[i] # Rule(c, m, x)
        BY <2>1, <2>4, <2>6
      <3>2. {i \in DOMAIN rs : rs[i] = Rule(c, m, x)} = {}
        BY <2>2, <3>1
      <3>3. Count(rs, Rule(c, m, x)) = 0
        BY <3>2, FS_EmptySet DEF Count
      <3> QED  BY <2>1, <2>6, <3>3 DEF rs
    <2> QED  BY <2>5, <2>6
  <1> DEFINE d == RulesIn(ch, "DNAT", m)
             f == RulesIn(ch, "FORWARD", m)
             s == RulesIn(ch, "SNAT", m)
             r == Rule(c, m, x)
             n == Count(ch[c][m], x)
  <1>2. /\ d \in Seq(Rules) /\ Count(d, r) = IF "DNAT" = c THEN n ELSE 0
        /\ f \in Seq(Rules) /\ Count(f, r) = IF "FORWARD" = c THEN n ELSE 0
        /\ s \in Seq(Rules) /\ Count(s, r) = IF "SNAT" = c THEN n ELSE 0
    BY <1>1 DEF Chains
  <1>3. RulesOf(ch, m) = (d \o f) \o s
    BY DEF RulesOf
  <1>4. n \in Nat
    <2>1. ch[c][m] \in Seq(Addresses)
      BY DEF Tables
    <2> QED  BY <2>1, CountType
  <1> HIDE DEF d, f, s, r, n
  <1>5. d \in Seq(Rules) /\ f \in Seq(Rules) /\ s \in Seq(Rules)
    BY <1>2
  <1>6. d \o f \in Seq(Rules)
    BY <1>5, ConcatProperties
  <1>7. Count(d \o f, r) = Count(d, r) + Count(f, r)
    BY <1>5, CountConcat
  <1>8. Count((d \o f) \o s, r) = Count(d \o f, r) + Count(s, r)
    BY <1>5, <1>6, CountConcat
  <1>9. Count((d \o f) \o s, r) = n
    BY <1>2, <1>4, <1>7, <1>8 DEF Chains
  <1> QED  BY <1>3, <1>9 DEF r, n

(* A command still to come has not been counted. *)
LEMMA CountToMore ==
    ASSUME NEW cmds, NEW y, NEW n \in Nat, NEW k \in 0..(n - 1), cmds[k + 1] = y
    PROVE  CountTo(cmds, k, y) < CountTo(cmds, n, y)
  <1> DEFINE A == {j \in 1..k : cmds[j] = y}
             B == {j \in 1..n : cmds[j] = y}
  <1>1. IsFiniteSet(1..n) /\ B \in SUBSET (1..n)
    BY FS_Interval
  <1>2. IsFiniteSet(B)
    BY <1>1, FS_Subset
  <1>3. A \in SUBSET B /\ k + 1 \in B /\ k + 1 \notin A
    OBVIOUS
  <1>4. IsFiniteSet(A) /\ Cardinality(A) <= Cardinality(B) /\ (Cardinality(B) = Cardinality(A) => B = A)
    <2> HIDE DEF A, B
    <2> QED  BY <1>2, <1>3, FS_Subset
  <1>5. Cardinality(A) \in Nat /\ Cardinality(B) \in Nat
    <2> HIDE DEF A, B
    <2> QED  BY <1>2, <1>4, FS_CardinalityType
  <1>6. CountTo(cmds, k, y) = Cardinality(A) /\ CountTo(cmds, n, y) = Cardinality(B)
    BY DEF CountTo
  <1> HIDE DEF A, B
  <1>7. A # B
    BY <1>3
  <1> QED  BY <1>4, <1>5, <1>6, <1>7

(* An action deletes only rules that are there. *)
LEMMA DeletionsPossible ==
    ASSUME chain \in Tables, desired \in Desired, NEW m \in Mappings, NEW kind
    PROVE  \A k \in 0..(Len(ActionCmds(kind, m)) - 1) :
              ActionCmds(kind, m)[k + 1].kind = "D" =>
                  Has(Run(chain, ActionCmds(kind, m))[k], ActionCmds(kind, m)[k + 1].rule)
  <1> DEFINE cmds == ActionCmds(kind, m)
             del == Deleted(kind, m)
             add == Added(kind, m)
             Ok(k) == cmds[k + 1].kind = "D" => Has(Run(chain, cmds)[k], cmds[k + 1].rule)
             S == {n \in Nat : \A k \in 0..(n - 1) : Ok(k)}
  <1>1. del \in Seq(Rules) /\ add \in Seq(Rules) /\ cmds \in Seq(Cmds)
    BY ActionCmdsPlaces
  <1>2. \A k \in 1..Len(del) : del[k].id = m
    BY ActionIsAbout
  <1>3. cmds = Commands("D", del) \o Commands("A", add)
    BY DEF ActionCmds
  <1>4. kind # "ADD" => del = RulesOf(chain, m)
    BY DEF Deleted
  <1>5. kind = "ADD" => Len(del) = 0
    BY DEF Deleted
  <1> HIDE DEF cmds, del, add
  <1>6. /\ Len(cmds) = Len(del) + Len(add) /\ Len(cmds) \in Nat /\ Len(del) \in Nat /\ Len(add) \in Nat
        /\ \A k \in 1..Len(del) : cmds[k] = Cmd("D", del[k])
        /\ \A k \in 1..Len(add) : cmds[Len(del) + k] = Cmd("A", add[k])
    <2>1. /\ Len(cmds) = Len(del) + Len(add)
          /\ \A k \in 1..Len(del) : cmds[k] = Cmd("D", del[k])
          /\ \A k \in 1..Len(add) : cmds[Len(del) + k] = Cmd("A", add[k])
      BY <1>1, <1>3, CountCommands, Zenon
    <2>2. Len(cmds) \in Nat /\ Len(del) \in Nat /\ Len(add) \in Nat
      BY <1>1
    <2> QED  BY <2>1, <2>2
  <1>7. ASSUME NEW k \in 0..(Len(cmds) - 1), k \in S PROVE k + 1 \in S
    <2>1. ASSUME cmds[k + 1].kind = "D" PROVE Has(Run(chain, cmds)[k], cmds[k + 1].rule)
      <3>1. k + 1 \in 1..Len(del)
        <4> SUFFICES ASSUME ~(k + 1 <= Len(del)) PROVE FALSE
          BY <1>6
        <4>1. (k + 1) - Len(del) \in 1..Len(add) /\ Len(del) + ((k + 1) - Len(del)) = k + 1
          BY <1>6
        <4>2. cmds[k + 1] = Cmd("A", add[(k + 1) - Len(del)])
          BY <1>6, <4>1
        <4>3. cmds[k + 1].kind = "A"
          BY <4>2 DEF Cmd
        <4> QED  BY <4>3, <2>1
      <3>2. kind # "ADD"
        BY <3>1, <1>5
      <3> DEFINE r == del[k + 1]
                 c == r.chain
                 x == r.to
      <3>3. r \in Rules /\ r.id = m
        BY <3>1, <1>1, <1>2
      <3>4. c \in Chains /\ r = Rule(c, m, x)
        BY <3>3 DEF Rules, Rule
      <3>5. cmds[k + 1] = Cmd("D", r) /\ cmds[k + 1].rule = r
        <4>1. cmds[k + 1] = Cmd("D", r)
          BY <3>1, <1>6
        <4> QED  BY <4>1 DEF Cmd
      <3> HIDE DEF r
      <3> DEFINE t == Run(chain, cmds)[k][c][m]
                 y == Cmd("D", r)
                 z == Cmd("A", r)
      <3>6. Account(chain, cmds, k, c, m, x)
        <4>1. k \in 0..Len(cmds) /\ \A j \in 0..(k - 1) : Ok(j)
          BY <1>6, <1>7
        <4> QED  BY <4>1, <3>4, <1>1, RunBalance
      <3>7. Count(t, x) + CountTo(cmds, k, y) = Count(chain[c][m], x) + CountTo(cmds, k, z)
        BY <3>4, <3>6 DEF Account
      <3>8. CountTo(cmds, k, y) < CountTo(cmds, Len(cmds), y)
        BY <3>5, <1>6, CountToMore
      <3>9. CountTo(cmds, Len(cmds), y) = Count(chain[c][m], x)
        <4>1. CountTo(cmds, Len(cmds), y) = Count(del, r)
          BY <1>1, <1>3, CountCommands
        <4>2. Count(RulesOf(chain, m), Rule(c, m, x)) = Count(chain[c][m], x)
          BY <3>4, CountRulesOf
        <4> QED  BY <4>1, <4>2, <3>2, <3>4, <1>4
      <3>10. t \in Seq(Addresses)
        BY <3>4, <1>1, RunStep
      <3>11. CountTo(cmds, k, y) \in Nat /\ CountTo(cmds, k, z) \in Nat /\ CountTo(cmds, Len(cmds), y) \in Nat
        BY <1>6, CountToStep
      <3> HIDE DEF t, y, z
      <3>12. Count(t, x) \in Nat /\ (Count(t, x) > 0 <=> \E i \in DOMAIN t : t[i] = x)
        BY <3>10, CountType
      <3>13. Count(t, x) > 0
        BY <3>7, <3>8, <3>9, <3>11, <3>12
      <3> QED  BY <3>5, <3>3, <3>12, <3>13 DEF Has, t
    <2>2. ASSUME NEW j \in 0..((k + 1) - 1) PROVE Ok(j)
      <3>1. CASE j = k
        BY <2>1, <3>1
      <3>2. CASE j # k
        <4>1. j \in 0..(k - 1)
          BY <3>2
        <4> QED  BY <4>1, <1>7
      <3> QED  BY <3>1, <3>2
    <2>3. k + 1 \in Nat
      OBVIOUS
    <2> QED  BY <2>2, <2>3
  <1>8. 0 \in S
    OBVIOUS
  <1>9. 0..Len(cmds) \subseteq S
    <2> HIDE DEF S
    <2> QED  BY <1>6, <1>7, <1>8, BoundedInduction
  <1>10. Len(cmds) \in S
    <2> HIDE DEF S
    <2> QED  BY <1>6, <1>9
  <1>11. \A k \in 0..(Len(cmds) - 1) : Ok(k)
    BY <1>10
  <1> QED  BY <1>11 DEF cmds

(* What an action does to the number of rules is what it deletes and adds. *)
LEMMA ActionBalance ==
    ASSUME chain \in Tables, desired \in Desired, NEW m \in Mappings, NEW kind,
           NEW c \in Chains, NEW o \in Mappings, NEW x
    PROVE  Count(RunAll(chain, ActionCmds(kind, m))[c][o], x) + Count(Deleted(kind, m), Rule(c, o, x))
              = Count(chain[c][o], x) + Count(Added(kind, m), Rule(c, o, x))
  <1> DEFINE cmds == ActionCmds(kind, m)
  <1>1. Deleted(kind, m) \in Seq(Rules) /\ Added(kind, m) \in Seq(Rules) /\ cmds \in Seq(Cmds)
    BY ActionCmdsPlaces
  <1>2. cmds = Commands("D", Deleted(kind, m)) \o Commands("A", Added(kind, m))
    BY DEF ActionCmds
  <1>3. \A k \in 0..(Len(cmds) - 1) : cmds[k + 1].kind = "D" => Has(Run(chain, cmds)[k], cmds[k + 1].rule)
    BY DeletionsPossible
  <1> HIDE DEF cmds
  <1>4. Len(cmds) \in 0..Len(cmds)
    BY <1>1
  <1>5. Account(chain, cmds, Len(cmds), c, o, x)
    BY <1>1, <1>3, <1>4, RunBalance
  <1>6. /\ CountTo(cmds, Len(cmds), Cmd("D", Rule(c, o, x))) = Count(Deleted(kind, m), Rule(c, o, x))
        /\ CountTo(cmds, Len(cmds), Cmd("A", Rule(c, o, x))) = Count(Added(kind, m), Rule(c, o, x))
    BY <1>1, <1>2, CountCommands
  <1> QED  BY <1>5, <1>6 DEF Account, RunAll, cmds

(* And undoing that meets no error takes back what is on record.           *)
LEMMA UndoBalance ==
    ASSUME TypeOK, WorksBefore(Len(UndoCmds) + 1), NEW c \in Chains, NEW m \in Mappings, NEW x
    PROVE  Count(RunAll(chain, UndoCmds)[c][m], x) + Count(lastAdd, Rule(c, m, x))
              = Count(chain[c][m], x) + Count(lastDel, Rule(c, m, x))
  <1> DEFINE rev == Reverse(lastAdd)
             cmds == UndoCmds
  <1>1. chain \in Tables /\ lastAdd \in Seq(Rules) /\ lastDel \in Seq(Rules)
    BY DEF TypeOK
  <1>2. rev \in Seq(Rules) /\ Count(rev, Rule(c, m, x)) = Count(lastAdd, Rule(c, m, x))
    BY <1>1, CountReverse
  <1>3. cmds = Commands("D", rev) \o Commands("A", lastDel)
    BY DEF UndoCmds
  <1> HIDE DEF rev
  <1>4. cmds \in Seq(Cmds)
    BY <1>1, UndoCmdsPlaces
  <1>5. Len(cmds) \in Nat /\ Len(cmds) \in 0..Len(cmds)
    BY <1>4
  <1>6. ASSUME NEW k \in 0..(Len(cmds) - 1), cmds[k + 1].kind = "D"
        PROVE  Has(Run(chain, cmds)[k], cmds[k + 1].rule)
    <2>1. k + 1 \in 1..((Len(cmds) + 1) - 1) /\ (k + 1) - 1 = k
      BY <1>5
    <2>2. Works(k + 1)
      BY <2>1 DEF WorksBefore
    <2>3. Possible(Run(chain, cmds)[k], cmds[k + 1])
      BY <2>1, <2>2 DEF Works
    <2> QED  BY <2>3, <1>6 DEF Possible, Has
  <1> HIDE DEF cmds
  <1>7. Account(chain, cmds, Len(cmds), c, m, x)
    BY <1>1, <1>4, <1>5, <1>6, RunBalance
  <1>8. /\ CountTo(cmds, Len(cmds), Cmd("D", Rule(c, m, x))) = Count(rev, Rule(c, m, x))
        /\ CountTo(cmds, Len(cmds), Cmd("A", Rule(c, m, x))) = Count(lastDel, Rule(c, m, x))
    BY <1>1, <1>2, <1>3, CountCommands
  <1> QED  BY <1>2, <1>7, <1>8 DEF Account, RunAll, cmds

-----------------------------------------------------------------------------
(* Rollback of a transaction that was applied in full *)

(* An action that is recorded keeps the books balanced. *)
LEMMA RecordedBalance ==
    ASSUME TypeOK, Balanced, before.chain \in Tables, NEW n \in Mappings,
           todo.fw[n] \in {"ADD", "DELETE"},
           chain' = RunAll(chain, ActionCmds(todo.fw[n], n)),
           lastAdd' = lastAdd \o Added(todo.fw[n], n),
           lastDel' = IF todo.fw[n] = "DELETE" THEN lastDel \o Deleted(todo.fw[n], n) ELSE lastDel,
           before' = before
    PROVE  Balanced'
  <1> SUFFICES ASSUME NEW c \in Chains, NEW m \in Mappings, NEW x \in Addresses
               PROVE  Count(chain'[c][m], x) + Count(lastDel', Rule(c, m, x))
                         = Count(before'.chain[c][m], x) + Count(lastAdd', Rule(c, m, x))
    BY DEF Balanced
  <1> DEFINE kind == todo.fw[n]
             dl == Deleted(kind, n)
             ad == Added(kind, n)
             r == Rule(c, m, x)
             t == chain'[c][m]
             s == chain[c][m]
             b == before.chain[c][m]
  <1>1. chain \in Tables /\ desired \in Desired /\ lastAdd \in Seq(Rules) /\ lastDel \in Seq(Rules)
    BY DEF TypeOK
  <1>2. dl \in Seq(Rules) /\ ad \in Seq(Rules)
    BY <1>1, ActionCmdsPlaces
  <1>3. t \in Seq(Addresses) /\ s \in Seq(Addresses) /\ b \in Seq(Addresses)
    <2>1. chain' \in Tables
      BY ChainsTyped
    <2> QED  BY <2>1, <1>1 DEF Tables
  <1>4. Count(t, x) + Count(dl, r) = Count(s, x) + Count(ad, r)
    BY <1>1, ActionBalance
  <1>5. Count(lastDel', r) = Count(lastDel, r) + Count(dl, r)
    <2>1. CASE kind = "DELETE"
      <3>1. lastDel' = lastDel \o dl
        BY <2>1
      <3> HIDE DEF dl, r
      <3>2. Count(lastDel \o dl, r) = Count(lastDel, r) + Count(dl, r)
        BY <1>1, <1>2, CountConcat
      <3> QED  BY <3>1, <3>2
    <2>2. CASE kind = "ADD"
      <3>1. lastDel' = lastDel /\ dl = <<>>
        BY <2>2 DEF Deleted
      <3>2. Count(dl, r) = 0
        BY <3>1, CountNone
      <3>3. Count(lastDel, r) \in Nat
        BY <1>1, CountType
      <3> HIDE DEF dl, r
      <3>4. Count(lastDel, r) + Count(dl, r) = Count(lastDel, r)
        BY <3>2, <3>3
      <3> QED  BY <3>1, <3>4
    <2> QED  BY <2>1, <2>2
  <1>6. Count(lastAdd', r) = Count(lastAdd, r) + Count(ad, r)
    <2>1. lastAdd' = lastAdd \o ad
      OBVIOUS
    <2> HIDE DEF ad, r
    <2>2. Count(lastAdd \o ad, r) = Count(lastAdd, r) + Count(ad, r)
      BY <1>1, <1>2, CountConcat
    <2> QED  BY <2>1, <2>2
  <1>7. Count(s, x) + Count(lastDel, r) = Count(b, x) + Count(lastAdd, r)
    BY DEF Balanced
  <1> HIDE DEF dl, ad, r, t, s, b
  <1>8. /\ Count(t, x) \in Nat /\ Count(s, x) \in Nat /\ Count(b, x) \in Nat
        /\ Count(dl, r) \in Nat /\ Count(ad, r) \in Nat /\ Count(lastDel, r) \in Nat /\ Count(lastAdd, r) \in Nat
    BY <1>1, <1>2, <1>3, CountType
  <1>9. Count(t, x) + (Count(lastDel, r) + Count(dl, r)) = Count(b, x) + (Count(lastAdd, r) + Count(ad, r))
    <2> DEFINE v == Count(t, x)
               u == Count(s, x)
               w == Count(b, x)
               p == Count(dl, r)
               q == Count(ad, r)
               d == Count(lastDel, r)
               a == Count(lastAdd, r)
    <2>1. /\ v \in Nat /\ u \in Nat /\ w \in Nat /\ p \in Nat /\ q \in Nat /\ d \in Nat /\ a \in Nat
          /\ v + p = u + q /\ u + d = w + a
      BY <1>4, <1>7, <1>8
    <2> HIDE DEF v, u, w, p, q, d, a
    <2>2. v + (d + p) = w + (a + q)
      BY <2>1, Sums
    <2> QED  BY <2>2 DEF v, w, p, q, d, a
  <1> QED  BY <1>5, <1>6, <1>9 DEF t, b, r

(* The balance of rules and records is kept while rollback knows everything. *)
LEMMA UndoableStep == TypeOK /\ Undoable /\ [Next]_vars => Undoable'
  <1> SUFFICES ASSUME TypeOK, Undoable, [Next]_vars, exact' PROVE Undoable'
    BY DEF Undoable
  <1>1. todo \in Plans /\ chain \in Tables
    BY DEF TypeOK, Plans
  <1>2. CASE Begin
    <2> DEFINE p == Diff(desired, chain, cfg, ifc)
    <2>1. pc = "idle" /\ before' = Host /\ chain' = chain
      BY <1>2 DEF Begin, hostVars
    <2>2. p # NoPlan
      <3> SUFFICES ASSUME p = NoPlan PROVE FALSE
        OBVIOUS
      <3>1. exact' = exact
        BY <1>2 DEF Begin
      <3> QED  BY <2>1, <3>1 DEF Undoable
    <2>3. pc' = "apply" /\ todo' = p /\ exact' = (p.base /\ \A m \in Mappings : p.fw[m] # "CHANGE")
      BY <1>2, <2>2 DEF Begin
    <2>4. before'.chain = chain
      BY <2>1 DEF Host
    <2> HIDE DEF p
    <2>5. todo'.base /\ \A m \in Mappings : todo'.fw[m] # "CHANGE"
      BY <2>3
    <2> QED  BY <1>1, <2>1, <2>3, <2>4, <2>5 DEF Undoable
  <1>3. CASE ApplyTunnel \/ WriteHaproxy \/ ReloadHaproxy
    <2>1. pc = "apply" /\ UNCHANGED <<pc, exact, before, chain, lastAdd, lastDel, snapshot>>
      BY <1>3 DEF ApplyTunnel, WriteHaproxy, ReloadHaproxy, HapTurn, Continue, memVars
    <2>2. todo'.fw = todo.fw /\ todo'.base = todo.base
      BY <1>3, <1>1 DEF ApplyTunnel, WriteHaproxy, ReloadHaproxy, Plans
    <2>3. Balanced' <=> Balanced
      BY <2>1 DEF Balanced
    <2> QED  BY <2>1, <2>2, <2>3 DEF Undoable
  <1>4. CASE PrepareFirewall
    <2>1. /\ pc = "apply" /\ todo.base = TRUE /\ UNCHANGED <<pc, exact, before, chain>>
          /\ lastAdd' = <<>> /\ lastDel' = <<>>
          /\ snapshot' = {[chain |-> chain, hooked |-> hooked]}
      BY <1>4 DEF PrepareFirewall, FwTurn, HapTurn, Continue
    <2>2. todo'.fw = todo.fw /\ todo'.base = FALSE
      BY <1>4, <1>1 DEF PrepareFirewall, Plans
    <2>3. chain = before.chain
      BY <2>1 DEF Undoable
    <2>4. \A s \in snapshot' : s.chain = before'.chain
      BY <2>1, <2>3
    <2>5. Balanced'
      <3>1. \A r : Count(lastAdd', r) = 0 /\ Count(lastDel', r) = 0
        BY <2>1, CountNone
      <3>2. chain' = before'.chain
        BY <2>1, <2>3
      <3> QED  BY <3>1, <3>2 DEF Balanced
    <2> QED  BY <2>1, <2>2, <2>3, <2>4, <2>5 DEF Undoable
  <1>5. CASE ApplyRule
    <2>1. PICK n \in Mappings :
             /\ Current(n)
             /\ chain' = RunAll(chain, ActionCmds(todo.fw[n], n))
             /\ lastAdd' = lastAdd \o Added(todo.fw[n], n)
             /\ lastDel' = IF todo.fw[n] = "DELETE" THEN lastDel \o Deleted(todo.fw[n], n) ELSE lastDel
             /\ todo' = [todo EXCEPT !.fw[n] = "KEEP"]
      BY <1>5 DEF ApplyRule
    <2>2. pc = "apply" /\ todo.base = FALSE /\ UNCHANGED <<pc, exact, before, snapshot>>
      BY <1>5 DEF ApplyRule, FwTurn, HapTurn, Continue
    <2>3. /\ before.chain \in Tables /\ Balanced /\ \A m \in Mappings : todo.fw[m] # "CHANGE"
          /\ \A s \in snapshot : s.chain = before.chain
      BY <2>2 DEF Undoable
    <2>4. todo.fw[n] \in {"ADD", "DELETE"}
      <3>1. todo.fw[n] \in Kinds /\ todo.fw[n] # "KEEP"
        BY <1>1, <2>1 DEF Plans, Current
      <3> QED  BY <3>1, <2>3 DEF Kinds
    <2>5. Balanced'
      BY <2>1, <2>2, <2>3, <2>4, RecordedBalance
    <2>6. \A m \in Mappings : todo'.fw[m] # "CHANGE"
      BY <2>1, <2>3, <1>1 DEF Plans
    <2>7. todo'.base = FALSE
      BY <2>1, <2>2, <1>1 DEF Plans
    <2> QED  BY <2>2, <2>3, <2>5, <2>6, <2>7 DEF Undoable
  <1>6. CASE VerifyFails
    <2>1. /\ pc = "apply" /\ todo.base = FALSE /\ pc' = "undoHap"
          /\ UNCHANGED <<exact, before, chain, lastAdd, lastDel, snapshot>>
      BY <1>6 DEF VerifyFails, Applied, FwTurn, HapTurn, Fail, hostVars, memVars
    <2>2. Balanced' <=> Balanced
      BY <2>1 DEF Balanced
    <2> QED  BY <2>1, <2>2 DEF Undoable
  <1>7. CASE UndoHaproxy \/ UndoHaproxyFails
    <2>1. /\ pc = "undoHap" /\ pc' = "undoFw"
          /\ UNCHANGED <<exact, before, chain, lastAdd, lastDel, snapshot>>
      BY <1>7 DEF UndoHaproxy, UndoHaproxyFails, memVars
    <2>2. Balanced' <=> Balanced
      BY <2>1 DEF Balanced
    <2> QED  BY <2>1, <2>2 DEF Undoable
  <1>8. CASE UndoFirewall \/ RestoreSnapshot
    <2>1. pc' = "undoWg" /\ UNCHANGED <<exact, before>>
      BY <1>8 DEF UndoFirewall, RestoreSnapshot
    <2> QED  BY <2>1 DEF Undoable
  <1>9. CASE ChangeDesired
    <2>1. pc = "idle" /\ exact' = exact
      BY <1>9 DEF ChangeDesired
    <2> QED  BY <2>1 DEF Undoable
  <1>10. CASE ApplyTunnelFails \/ WriteHaproxyFails \/ ReloadHaproxyFails \/ PrepareFirewallFails \/ ApplyRuleFails
               \/ Verify \/ UndoTunnels \/ Crash \/ Reboot
    <2>1. exact' = FALSE
      BY <1>10 DEF ApplyTunnelFails, WriteHaproxyFails, ReloadHaproxyFails, PrepareFirewallFails,
               ApplyRuleFails, Verify, UndoTunnels, Crash, Reboot, ForgetProcess
    <2> QED  BY <2>1
  <1>11. CASE WatcherReload \/ WatcherRestores \/ UNCHANGED vars
    <2>1. UNCHANGED <<pc, todo, exact, before, chain, lastAdd, lastDel, snapshot>>
      BY <1>11 DEF WatcherReload, WatcherRestores, vars, hostVars, memVars, txVars
    <2>2. Balanced' <=> Balanced
      BY <2>1 DEF Balanced
    <2> QED  BY <2>1, <2>2 DEF Undoable
  <1> QED  BY <1>2, <1>3, <1>4, <1>5, <1>6, <1>7, <1>8, <1>9, <1>10, <1>11 DEF Next, Progress, CommandFails

(* The step of rollback that ends with the rules as they were. *)
LEMMA RestoredStep ==
    ASSUME TypeOK, Undoable, Next, pc = "undoFw", exact, pc' = "undoWg", faults' = faults
    PROVE  SameRules(chain', before.chain)
  <1>1. UndoFirewall \/ RestoreSnapshot
    BY DEF Next, Progress, CommandFails, ChangeDesired, Begin, ApplyTunnel, WriteHaproxy, ReloadHaproxy,
           PrepareFirewall, ApplyRule, Verify, VerifyFails, UndoHaproxy, UndoTunnels,
           ApplyTunnelFails, WriteHaproxyFails, ReloadHaproxyFails, PrepareFirewallFails, ApplyRuleFails,
           UndoHaproxyFails, Crash, Reboot, ForgetProcess, WatcherReload, WatcherRestores,
           HapTurn, FwTurn, Applied, txVars
  <1>2. before.chain \in Tables /\ Balanced /\ \A s \in snapshot : s.chain = before.chain
    BY DEF Undoable
  <1>3. CASE UndoFirewall
    <2> SUFFICES ASSUME NEW c \in Chains, NEW m \in Mappings, NEW x \in Addresses
                 PROVE  Count(chain'[c][m], x) = Count(before.chain[c][m], x)
      BY DEF SameRules
    <2> DEFINE r == Rule(c, m, x)
               t == chain'[c][m]
               s == chain[c][m]
               b == before.chain[c][m]
    <2>1. WorksBefore(Len(UndoCmds) + 1) /\ chain' = RunAll(chain, UndoCmds)
      BY <1>3 DEF UndoFirewall
    <2>2. Count(t, x) + Count(lastAdd, r) = Count(s, x) + Count(lastDel, r)
      BY <2>1, UndoBalance
    <2>3. Count(s, x) + Count(lastDel, r) = Count(b, x) + Count(lastAdd, r)
      BY <1>2 DEF Balanced
    <2>4. /\ t \in Seq(Addresses) /\ b \in Seq(Addresses) /\ lastAdd \in Seq(Rules)
      <3>1. chain' \in Tables
        BY <2>1, ChainsTyped
      <3> QED  BY <3>1, <1>2 DEF Tables, TypeOK
    <2> HIDE DEF r, t, s, b
    <2>5. Count(t, x) \in Nat /\ Count(b, x) \in Nat /\ Count(lastAdd, r) \in Nat
      BY <2>4, CountType
    <2>6. Count(t, x) = Count(b, x)
      BY <2>2, <2>3, <2>5
    <2> QED  BY <2>6 DEF t, b
  <1>4. CASE RestoreSnapshot
    <2>1. PICK n \in {0, 1} :
             \/ \E s \in snapshot : chain' = s.chain
             \/ Faults(n + 1)
      BY <1>4 DEF RestoreSnapshot
    <2>2. faults \in Nat
      <3>1. faults \in 0..MaxFaults
        BY DEF TypeOK
      <3> QED  BY <3>1, EngineConstants
    <2>3. ~Faults(n + 1)
      BY <2>1, <2>2 DEF Faults
    <2>4. chain' = before.chain
      BY <2>1, <2>3, <1>2
    <2> QED  BY <2>4 DEF SameRules
  <1> QED  BY <1>1, <1>3, <1>4

(* The action property of the runs: if everything a transaction did was    *)
(* ADD and DELETE and its verification then fails, rollback leaves as many *)
(* rules to each address in each chain as there were, for any mappings and *)
(* addresses and whatever rules earlier failures had left behind           *)
(* (IptablesNftManager.Rollback; Engine.Reconcile after a failed verify).  *)
THEOREM UndoRestoresRules == Spec => UndoRestores
  <1>1. Init => Undoable
    BY DEF Init, Undoable
  <1>2. TypeOK /\ Undoable /\ [Next]_vars =>
          [pc = "undoFw" /\ exact /\ pc' = "undoWg" /\ faults' = faults
             => SameRules(chain', before.chain)]_vars
    BY RestoredStep
  <1> QED  BY <1>1, <1>2, UndoableStep, EngineTyped, PTL DEF Spec, UndoRestores
=============================================================================
