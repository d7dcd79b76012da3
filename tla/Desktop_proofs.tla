--------------------------- MODULE Desktop_proofs ---------------------------
(***************************************************************************)
(* Who is registered is alive, and a broadcast calls everyone once: the    *)
(* life of the listeners, from createChildren(), which is the first job,   *)
(* to the suicide that every button posts when its window goes.            *)
(*                                                                         *)
(* A button is pending from then until the job has run: it is alive, no    *)
(* longer registered, and its job is in the queue or is being run, once.   *)
(* The second half is about the main window.                               *)
(***************************************************************************)
EXTENDS Broadcast, FrameWindow, WindowHook, FiniteSetTheorems, SequenceTheorems, TLAPS

Everyone == Elders \cup ToSet(Children) \cup DialogButtons \cup Readers
Ids == CommandIds \cup {"databaseChanged", "shutdown"}
Casting == [kind : {"broadcast"}, id : Ids, clone : Seq(Everyone), heard : Seq(Everyone),
            nested : BOOLEAN]
Calm == {m \in Messages : m.kind # "broadcast"}
Activities == Casting \cup {ModalLoop} \cup Calm

BTypes ==
  /\ posted \in Seq(Messages \cup {ShutdownMsg})
  /\ stack \in Seq(Activities)
  /\ loop \in {"get", "handler", "check", "exited"}
  /\ loop # "handler" => stack = <<>>
  /\ shutdown \in BOOLEAN /\ quit \in BOOLEAN /\ frame \in {"open", "destroyed"}
  /\ listeners \in Seq(Everyone) /\ IsInjective(listeners)
  /\ alive \subseteq Everyone
  /\ dlgAbout \in DialogButtons \cup {None}
  /\ reader \in Readers \cup {None}
  /\ deadCalls \subseteq BOOLEAN

(* A broadcast has called the listeners of its copy in their order.        *)
InTurn(b) ==
  b.kind = "broadcast" =>
    /\ IsInjective(b.clone)
    /\ Len(b.heard) <= Len(b.clone)
    /\ \A k \in DOMAIN b.heard : b.heard[k] = b.clone[k]

(* What is below the top of the stack waits for a modal loop.              *)
Waits(b) == b = ModalLoop \/ (b.kind = "broadcast" /\ b.nested)

(* A broadcast without a modal loop inside calls nobody who is deleted.    *)
Fresh(b) == b.kind = "broadcast" /\ ~b.nested => ToSet(b.clone) \subseteq alive

(* How many modal loops run.                                               *)
LoopsOf(s) == Cardinality({i \in DOMAIN s : s[i].kind = "modal"})

InOrder(s) ==
  /\ \A i \in DOMAIN s : InTurn(s[i])
  /\ \A i \in DOMAIN s : i > 1 => Waits(s[i])

StackInv ==
  /\ InOrder(stack)
  /\ stack # <<>> => Fresh(stack[1])
  /\ LoopsOf(stack) <= MaxLoops
  /\ FALSE \notin deadCalls

Has(q, m) == \E i \in DOMAIN q : q[i] = m
Runs(m) == stack # <<>> /\ stack[1] = m

(* createChildren() is the first job there is.                             *)
Begin == Job("createChildren")
Youth == frame = "open" /\ ToSet(Children) \cap (Registered \cup alive) = {}
FirstOnly(q) == \A i \in DOMAIN q : q[i] = Begin => i = 1
FirstInv ==
  /\ FirstOnly(posted)
  /\ Has(posted, Begin) => stack = <<>> /\ Youth
  /\ Runs(Begin) => Tail(stack) = <<>> /\ Youth /\ ~Has(posted, Begin)

Single(q) ==
  \A o \in Buttons : \A i, j \in DOMAIN q : q[i] = Suicide(o) /\ q[j] = Suicide(o) => i = j

(* The buttons whose windows are gone.                                     *)
PendingInv ==
  /\ Single(posted)
  /\ \A o \in Buttons : ~(Has(posted, Suicide(o)) /\ Runs(Suicide(o)))
  /\ \A o \in Buttons : Has(posted, Suicide(o)) \/ Runs(Suicide(o)) <=> o \in Zombies
  /\ Registered \cap DialogButtons = {dlgAbout} \ {None}
  /\ frame = "open" => ToolButtons \cap alive \subseteq Registered

EndInv ==
  /\ shutdown => frame = "destroyed"
  /\ quit => shutdown
  /\ frame = "destroyed" => Panes \cap alive = {}
  /\ loop = "exited" => quit /\ posted = <<>>

CastInv ==
  /\ BTypes /\ StackInv /\ RegisteredIsAlive /\ FirstInv /\ PendingInv /\ EndInv

---------------------------------------------------------------------------
(* Messages and activities.                                                *)

LEMMA Shapes ==
  /\ \A id : Cast(id).kind = "broadcast" /\ Cast(id).id = id
  /\ \A o : Suicide(o).kind = "suicide" /\ Suicide(o).of = o
  /\ \A id : Job(id).kind = "job" /\ Job(id).id = id
  /\ \A id : ToWindow(id).kind = "window" /\ ToWindow(id).id = id
  /\ ModalLoop.kind = "modal"
  BY DEF Cast, Suicide, Job, ToWindow, ModalLoop

LEMMA Kinds ==
  /\ \A m \in Messages :
       \/ m.kind = "broadcast" /\ m.id \in Ids
       \/ m.kind = "suicide" /\ m.of \in Buttons /\ m = Suicide(m.of)
       \/ m.kind = "job" /\ m = Job(m.id)
       \/ m.kind = "window"
  /\ \A o \in Buttons : Suicide(o) \in Calm
  /\ Begin \in Calm /\ Job("setDatabase") \in Calm
  /\ \A id \in CommandIds \cup {"databaseChanged"} : Cast(id) \in Messages
  /\ \A id \in {"close", "dialogCommand", "dialogClose"} : ToWindow(id) \in Calm
  BY Shapes DEF Messages, Calm, Begin, Ids

LEMMA InCasting ==
  ASSUME NEW b \in Activities
  PROVE  /\ b.kind = "broadcast" <=> b \in Casting
         /\ b.kind = "modal" <=> b = ModalLoop
         /\ b.kind \notin {"broadcast", "modal"} <=> b \in Calm
<1>1. \A c \in Casting : c.kind = "broadcast"
  BY DEF Casting
<1>2. \A m \in Calm : m.kind \notin {"broadcast", "modal"}
  BY Kinds DEF Calm
<1> QED
  BY <1>1, <1>2, Shapes DEF Activities

(* What is handled next: a broadcast to those who are registered now, or   *)
(* the message as it is.                                                   *)
LEMMA HandlingType ==
  ASSUME NEW m \in Messages \cup {ShutdownMsg}, listeners \in Seq(Everyone)
  PROVE  /\ m \in Calm => Handling(m) = m
         /\ m \notin Calm => /\ Handling(m) \in Casting
                             /\ Handling(m).clone = listeners
                             /\ Handling(m).heard = <<>>
                             /\ Handling(m).nested = FALSE
         /\ Handling(m) \in Activities
<1>1. ASSUME NEW id \in Ids
      PROVE  /\ Activation(id) \in Casting
             /\ Activation(id).clone = listeners
             /\ Activation(id).heard = <<>>
             /\ Activation(id).nested = FALSE
  BY DEF Activation, Casting
<1>2. CASE m = ShutdownMsg
  BY <1>1, <1>2, BroadcastAssumption DEF Handling, Ids, Calm, Activities
<1>3. CASE m # ShutdownMsg
  <2>1. m \in Messages
    BY <1>3
  <2>2. CASE m.kind = "broadcast"
    BY <1>1, <1>3, <2>1, <2>2, Kinds DEF Handling, Calm, Activities
  <2>3. CASE m.kind # "broadcast"
    BY <1>3, <2>1, <2>3 DEF Handling, Calm, Activities
  <2> QED
    BY <2>2, <2>3
<1> QED
  BY <1>2, <1>3

(* Without() leaves the members of S out, and nothing else; the rank of an *)
(* index that is kept is how many there are up to it.                      *)
LEMMA WithoutIs ==
  ASSUME NEW E, NEW s \in Seq(E), IsInjective(s), NEW S
  PROVE  /\ Without(s, S) \in Seq(E)
         /\ IsInjective(Without(s, S))
         /\ ToSet(Without(s, S)) = ToSet(s) \ S
<1> DEFINE kept == {i \in DOMAIN s : s[i] \notin S}
           n == Cardinality(kept)
           Upto(i) == {j \in kept : j <= i}
           rank == [i \in kept |-> Cardinality(Upto(i))]
           At(k) == CHOOSE i \in kept : Cardinality({j \in kept : j <= i}) = k
<1>1. /\ kept \subseteq 1..Len(s) /\ IsFiniteSet(kept) /\ n \in Nat
      /\ IsFiniteSet(1..n) /\ Cardinality(1..n) = n
  <2>1. Len(s) \in Nat /\ kept \in SUBSET (1..Len(s)) /\ IsFiniteSet(1..Len(s))
    BY FS_Interval
  <2>2. IsFiniteSet(kept)
    BY <2>1, FS_Subset
  <2>3. n \in Nat
    BY <2>2, FS_CardinalityType
  <2>4. IsFiniteSet(1..n) /\ Cardinality(1..n) = n
    BY <2>3, FS_Interval
  <2> QED
    BY <2>1, <2>2, <2>3, <2>4
<1>2. ASSUME NEW i \in kept
      PROVE  IsFiniteSet(Upto(i)) /\ Cardinality(Upto(i)) \in 1..n
  <2>1. Upto(i) \in SUBSET kept /\ i \in Upto(i)
    BY <1>1
  <2>2. IsFiniteSet(Upto(i)) /\ Cardinality(Upto(i)) <= n
    BY <1>1, <2>1, FS_Subset
  <2>3. Cardinality(Upto(i)) \in Nat /\ Cardinality(Upto(i)) # 0
    BY <2>1, <2>2, FS_CardinalityType, FS_EmptySet
  <2> QED
    BY <1>1, <2>2, <2>3
<1>3. ASSUME NEW i \in kept, NEW j \in kept, i < j
      PROVE  rank[i] # rank[j]
  <2>1. Upto(i) \in SUBSET Upto(j) /\ j \notin Upto(i) /\ j \in Upto(j)
    BY <1>1, <1>3
  <2>2. Upto(i) # Upto(j)
    BY <2>1
  <2>3. Cardinality(Upto(i)) # Cardinality(Upto(j))
    BY <1>2, <2>1, <2>2, FS_Subset
  <2> QED
    BY <2>3
<1>4. rank \in Injection(kept, 1..n)
  <2>1. rank \in [kept -> 1..n]
    BY <1>2
  <2>2. ASSUME NEW i \in kept, NEW j \in kept, rank[i] = rank[j]
        PROVE  i = j
    BY <1>1, <1>3, <2>2
  <2> QED
    BY <2>1, <2>2 DEF Injection, IsInjective
<1>5. rank \in Surjection(kept, 1..n)
  BY <1>1, <1>4, FS_Injection
<1>6. ASSUME NEW k \in 1..n
      PROVE  At(k) \in kept /\ rank[At(k)] = k
  <2>1. \E i \in kept : rank[i] = k
    BY <1>5 DEF Surjection
  <2>2. \E i \in kept : Cardinality({j \in kept : j <= i}) = k
    BY <2>1
  <2>3. At(k) \in kept /\ Cardinality({j \in kept : j <= At(k)}) = k
    BY <2>2
  <2> QED
    BY <2>3
<1>7. \A i \in kept : rank[i] \in 1..n /\ At(rank[i]) = i
  <2>1. TAKE i \in kept
  <2>2. rank[i] \in 1..n
    BY <1>4 DEF Injection
  <2>3. At(rank[i]) \in kept /\ rank[At(rank[i])] = rank[i]
    BY <1>6, <2>2
  <2> QED
    BY <1>4, <2>2, <2>3 DEF Injection, IsInjective
<1> HIDE DEF kept, n, At, rank
<1>8. Without(s, S) = [k \in 1..n |-> s[At(k)]]
  BY DEF Without, kept, n, At
<1>9. /\ \A i \in kept : i \in DOMAIN s /\ s[i] \in E /\ s[i] \notin S
      /\ \A i \in DOMAIN s : s[i] \notin S => i \in kept
  BY DEF kept
<1>10. Without(s, S) \in Seq(E)
  <2>1. [k \in 1..n |-> s[At(k)]] \in [1..n -> E]
    BY <1>6, <1>9
  <2> QED
    BY <1>1, <1>8, <2>1, SeqDef
<1>11. IsInjective(Without(s, S))
  BY <1>6, <1>8, <1>9 DEF IsInjective
<1>12. ToSet(Without(s, S)) = {s[At(k)] : k \in 1..n}
  BY <1>8 DEF ToSet
<1>13. {s[At(k)] : k \in 1..n} = ToSet(s) \ S
  BY <1>6, <1>7, <1>9 DEF ToSet
<1> QED
  BY <1>10, <1>11, <1>12, <1>13

(* The queue: what is in it after a message is taken, and after others are *)
(* posted.                                                                 *)
LEMMA TailHas ==
  ASSUME NEW M, NEW q \in Seq(M), q # <<>>
  PROVE  /\ Head(q) \in M /\ Head(q) = q[1] /\ Tail(q) \in Seq(M)
         /\ \A m : Has(q, m) <=> q[1] = m \/ Has(Tail(q), m)
         /\ Single(q) => /\ Single(Tail(q))
                         /\ \A o \in Buttons : q[1] = Suicide(o) =>
                                                 ~Has(Tail(q), Suicide(o))
         /\ FirstOnly(q) => ~Has(Tail(q), Begin) /\ FirstOnly(Tail(q))
<1> DEFINE t == Tail(q)
<1>1. /\ Head(q) \in M /\ Head(q) = q[1] /\ t \in Seq(M)
      /\ Len(q) \in Nat /\ Len(q) # 0 /\ Len(t) = Len(q) - 1
      /\ DOMAIN q = 1..Len(q) /\ DOMAIN t = 1..Len(t)
      /\ \A i \in 1..Len(t) : t[i] = q[i + 1]
  BY HeadTailProperties
<1> HIDE DEF t
<1>2. \A i \in DOMAIN t : i + 1 \in DOMAIN q /\ t[i] = q[i + 1] /\ i + 1 # 1
  BY <1>1
<1>3. \A i \in DOMAIN q : i # 1 => i - 1 \in DOMAIN t /\ t[i - 1] = q[i]
  <2>1. TAKE i \in DOMAIN q
  <2>2. HAVE i # 1
  <2>3. i - 1 \in 1..Len(t) /\ (i - 1) + 1 = i
    BY <1>1, <2>2
  <2> QED
    BY <1>1, <2>3
<1>4. 1 \in DOMAIN q
  BY <1>1
<1>5. \A m : Has(q, m) <=> q[1] = m \/ Has(t, m)
  BY <1>2, <1>3, <1>4 DEF Has
<1>6. ASSUME Single(q)
      PROVE  /\ Single(t)
             /\ \A o \in Buttons : q[1] = Suicide(o) => ~Has(t, Suicide(o))
  <2>1. ASSUME NEW o \in Buttons, NEW i \in DOMAIN t, NEW j \in DOMAIN t,
               t[i] = Suicide(o), t[j] = Suicide(o)
        PROVE  i = j
    <3>1. i + 1 = j + 1
      BY <1>2, <1>6, <2>1 DEF Single
    <3> QED
      BY <1>1, <3>1
  <2>2. ASSUME NEW o \in Buttons, q[1] = Suicide(o), NEW i \in DOMAIN t,
               t[i] = Suicide(o)
        PROVE  FALSE
    BY <1>2, <1>4, <1>6, <2>2 DEF Single
  <2> QED
    BY <2>1, <2>2 DEF Single, Has
<1>7. FirstOnly(q) => ~Has(t, Begin) /\ FirstOnly(t)
  BY <1>2 DEF FirstOnly, Has
<1> QED
  BY <1>1, <1>5, <1>6, <1>7 DEF t

LEMMA JoinHas ==
  ASSUME NEW M, NEW q \in Seq(M), NEW r \in Seq(M)
  PROVE  /\ q \o r \in Seq(M)
         /\ \A m : Has(q \o r, m) <=> Has(q, m) \/ Has(r, m)
         /\ /\ Single(q) /\ Single(r)
            /\ \A o \in Buttons : ~(Has(q, Suicide(o)) /\ Has(r, Suicide(o)))
            => Single(q \o r)
         /\ FirstOnly(q) /\ ~Has(r, Begin) => FirstOnly(q \o r)
<1> DEFINE c == q \o r
<1>1. /\ c \in Seq(M) /\ Len(q) \in Nat /\ Len(r) \in Nat /\ Len(c) = Len(q) + Len(r)
      /\ DOMAIN q = 1..Len(q) /\ DOMAIN r = 1..Len(r) /\ DOMAIN c = 1..Len(c)
      /\ \A i \in 1..Len(q) + Len(r) :
           c[i] = IF i <= Len(q) THEN q[i] ELSE r[i - Len(q)]
  BY ConcatProperties
<1> HIDE DEF c
<1>2. \A i \in DOMAIN q : i \in DOMAIN c /\ c[i] = q[i]
  BY <1>1
<1>3. \A i \in DOMAIN r : i + Len(q) \in DOMAIN c /\ c[i + Len(q)] = r[i]
  <2>1. TAKE i \in DOMAIN r
  <2>2. i + Len(q) \in 1..Len(q) + Len(r) /\ ~(i + Len(q) <= Len(q))
        /\ i + Len(q) - Len(q) = i
    BY <1>1
  <2> QED
    BY <1>1, <2>2
<1>4. \A i \in DOMAIN c :
        \/ i \in DOMAIN q /\ c[i] = q[i]
        \/ i - Len(q) \in DOMAIN r /\ c[i] = r[i - Len(q)]
  <2>1. TAKE i \in DOMAIN c
  <2>2. CASE i <= Len(q)
    BY <1>1, <2>2
  <2>3. CASE ~(i <= Len(q))
    <3>1. i - Len(q) \in 1..Len(r)
      BY <1>1, <2>3
    <3> QED
      BY <1>1, <2>3, <3>1
  <2> QED
    BY <2>2, <2>3
<1>5. \A m : Has(c, m) <=> Has(q, m) \/ Has(r, m)
  BY <1>2, <1>3, <1>4 DEF Has
<1>6. ASSUME Single(q), Single(r),
             \A o \in Buttons : ~(Has(q, Suicide(o)) /\ Has(r, Suicide(o))),
             NEW o \in Buttons, NEW i \in DOMAIN c, NEW j \in DOMAIN c,
             c[i] = Suicide(o), c[j] = Suicide(o)
      PROVE  i = j
  <2>1. CASE i \in DOMAIN q /\ c[i] = q[i] /\ j \in DOMAIN q /\ c[j] = q[j]
    BY <1>6, <2>1 DEF Single
  <2>2. CASE /\ i - Len(q) \in DOMAIN r /\ c[i] = r[i - Len(q)]
             /\ j - Len(q) \in DOMAIN r /\ c[j] = r[j - Len(q)]
    <3>1. i - Len(q) = j - Len(q)
      BY <1>6, <2>2 DEF Single
    <3> QED
      BY <1>1, <3>1
  <2> QED
    BY <1>4, <1>6, <2>1, <2>2 DEF Has
<1>7. FirstOnly(q) /\ ~Has(r, Begin) => FirstOnly(c)
  BY <1>4 DEF FirstOnly, Has
<1> QED
  BY <1>1, <1>5, <1>6, <1>7 DEF c, Single

LEMMA AppendHas ==
  ASSUME NEW M, NEW q \in Seq(M), NEW e \in M
  PROVE  /\ Append(q, e) \in Seq(M) /\ Append(q, e) = q \o <<e>>
         /\ \A m : Has(Append(q, e), m) <=> Has(q, m) \/ m = e
         /\ /\ Single(q)
            /\ \A o \in Buttons : e = Suicide(o) => ~Has(q, e)
            => Single(Append(q, e))
         /\ FirstOnly(q) /\ e # Begin => FirstOnly(Append(q, e))
<1>1. PICK r \in Seq(M) : r = <<e>> /\ Append(q, e) = q \o r
  <2>1. <<e>> \in Seq(M) /\ Append(q, e) = q \o <<e>>
    BY AppendIsConcat
  <2> QED
    BY <2>1
<1>2. DOMAIN r = {1} /\ r[1] = e
  BY <1>1
<1>3. (\A m : Has(r, m) <=> m = e) /\ Single(r)
  BY <1>2 DEF Has, Single
<1>4. /\ Append(q, e) \in Seq(M)
      /\ \A m : Has(Append(q, e), m) <=> Has(q, m) \/ m = e
  <2>1. q \o r \in Seq(M) /\ \A m : Has(q \o r, m) <=> Has(q, m) \/ Has(r, m)
    BY JoinHas
  <2> QED
    BY <1>1, <1>3, <2>1
<1>5. ASSUME Single(q), \A o \in Buttons : e = Suicide(o) => ~Has(q, e)
      PROVE  Single(Append(q, e))
  <2>1. \A o \in Buttons : ~(Has(q, Suicide(o)) /\ Has(r, Suicide(o)))
    BY <1>3, <1>5
  <2> QED
    BY <1>1, <1>3, <1>5, <2>1, JoinHas
<1>6. FirstOnly(q) /\ e # Begin => FirstOnly(Append(q, e))
  BY <1>1, <1>3, JoinHas
<1> QED
  BY <1>1, <1>4, <1>5, <1>6

(* Every button of S posts one suicide.                                    *)
LEMMA LastWordsAre ==
  ASSUME NEW S \in SUBSET Buttons, IsFiniteSet(S)
  PROVE  /\ LastWords(S) \in Seq(Messages)
         /\ \A m : Has(LastWords(S), m) <=> \E o \in S : m = Suicide(o)
         /\ Single(LastWords(S))
<1> DEFINE T == {Suicide(o) : o \in S}
           c == Cardinality(T)
           q == LastWords(S)
           g == [o \in S |-> Suicide(o)]
<1>1. IsFiniteSet(T)
  <2>1. g \in Surjection(S, T)
    BY DEF Surjection
  <2> QED
    BY <2>1, FS_Surjection
<1>2. c \in Nat /\ Bijection(1..c, T) # {} /\ IsFiniteSet(1..c) /\ Cardinality(1..c) = c
  <2> HIDE DEF T
  <2>1. c \in Nat /\ ExistsBijection(1..c, T)
    BY <1>1, FS_CardinalityType
  <2> HIDE DEF c
  <2>2. IsFiniteSet(1..c) /\ Cardinality(1..c) = c
    BY <2>1, FS_Interval
  <2> QED
    BY <2>1, <2>2 DEF ExistsBijection
<1> HIDE DEF c
<1>3. q \in [1..c -> T] /\ IsInjective(q)
  <2>1. \E f \in [1..c -> T] : IsInjective(f)
    BY <1>2 DEF Bijection, Injection
  <2>2. q = CHOOSE f \in [1..c -> T] : IsInjective(f)
    BY DEF LastWords, SetToSeq, c
  <2> QED
    BY <2>1, <2>2
<1> HIDE DEF q
<1>4. q \in Surjection(1..c, T)
  <2>1. q \in Injection(1..c, T)
    BY <1>3 DEF Injection
  <2> QED
    BY <1>1, <1>2, <2>1, FS_Injection DEF c
<1>5. DOMAIN q = 1..c /\ (\A i \in 1..c : q[i] \in T) /\ \A m \in T : \E i \in 1..c : q[i] = m
  BY <1>3, <1>4 DEF Surjection
<1>6. \A m : Has(q, m) <=> m \in T
  BY <1>5 DEF Has
<1>7. Single(q)
  BY <1>3 DEF Single, IsInjective
<1>8. q \in Seq(Messages)
  <2>1. T \subseteq Messages
    BY Kinds DEF Calm
  <2>2. q \in [1..c -> Messages]
    BY <1>3, <2>1
  <2> QED
    BY <1>2, <2>2, SeqDef
<1> QED
  BY <1>6, <1>7, <1>8 DEF q

LEMMA LoopsOfPush ==
  ASSUME NEW E, NEW t \in Seq(E), NEW a \in E
  PROVE  /\ LoopsOf(t) \in Nat
         /\ LoopsOf(<<a>> \o t) = LoopsOf(t) + (IF a.kind = "modal" THEN 1 ELSE 0)
<1> DEFINE s == <<a>> \o t
           L == {i \in DOMAIN t : t[i].kind = "modal"}
           R == {i \in DOMAIN s : s[i].kind = "modal"}
           U == {i + 1 : i \in L}
           f == [i \in L |-> i + 1]
<1>1. /\ Len(t) \in Nat /\ DOMAIN t = 1..Len(t) /\ DOMAIN s = 1..(Len(t) + 1)
      /\ s[1] = a /\ \A i \in 1..Len(t) : s[i + 1] = t[i]
  <2>1. PICK r \in Seq(E) : r = <<a>>
    <3>1. <<a>> \in Seq(E)
      OBVIOUS
    <3> QED
      BY <3>1
  <2>2. Len(r) = 1 /\ r[1] = a
    BY <2>1
  <2>3. s = r \o t
    BY <2>1
  <2>4. /\ r \o t \in Seq(E) /\ Len(r \o t) = 1 + Len(t)
        /\ \A i \in 1..(1 + Len(t)) : (r \o t)[i] = IF i <= 1 THEN r[i] ELSE t[i - 1]
    <3>1. /\ r \o t \in Seq(E) /\ Len(r \o t) = Len(r) + Len(t)
          /\ \A i \in 1..(Len(r) + Len(t)) :
               (r \o t)[i] = IF i <= Len(r) THEN r[i] ELSE t[i - Len(r)]
      BY ConcatProperties
    <3> QED
      BY <2>2, <3>1
  <2>5. Len(t) \in Nat /\ DOMAIN t = 1..Len(t)
    OBVIOUS
  <2> HIDE DEF s
  <2>6. \A i \in 1..Len(t) : i + 1 \in 1..(1 + Len(t)) /\ ~(i + 1 <= 1) /\ (i + 1) - 1 = i
    BY <2>5
  <2>7. 1 \in 1..(1 + Len(t)) /\ DOMAIN (r \o t) = 1..(1 + Len(t)) /\ 1 + Len(t) = Len(t) + 1
    BY <2>4, <2>5
  <2>8. s[1] = a
    BY <2>2, <2>3, <2>4, <2>7
  <2>9. \A i \in 1..Len(t) : s[i + 1] = t[i]
    BY <2>3, <2>4, <2>6
  <2> QED
    BY <2>3, <2>5, <2>7, <2>8, <2>9
<1> HIDE DEF s
<1>2. IsFiniteSet(L) /\ LoopsOf(t) = Cardinality(L) /\ Cardinality(L) \in Nat
  <2>1. IsFiniteSet(1..Len(t)) /\ L \in SUBSET (1..Len(t))
    BY <1>1, FS_Interval
  <2>2. IsFiniteSet(L)
    BY <2>1, FS_Subset
  <2>3. Cardinality(L) \in Nat
    BY <2>2, FS_CardinalityType
  <2> QED
    BY <2>2, <2>3 DEF LoopsOf
<1>3. IsFiniteSet(U) /\ Cardinality(U) = Cardinality(L)
  <2>1. \A i \in L : i \in Nat
    BY <1>1
  <2> HIDE DEF L
  <2>2. \A i, j \in L : i + 1 = j + 1 => i = j
    BY <2>1
  <2>3. f \in [L -> U] /\ \A u \in U : \E i \in L : f[i] = u
    <3>1. \A i \in L : i + 1 \in U
      OBVIOUS
    <3>2. \A u \in U : \E i \in L : f[i] = u
      OBVIOUS
    <3> QED
      BY <3>1, <3>2
  <2>4. IsInjective(f)
    BY <2>2 DEF IsInjective
  <2>5. f \in Bijection(L, U)
    BY <2>3, <2>4 DEF Bijection, Injection, Surjection
  <2> HIDE DEF U
  <2>6. ExistsBijection(L, U)
    BY <2>5 DEF ExistsBijection
  <2> QED
    BY <1>2, <2>6, FS_Bijection
<1>4. R = IF a.kind = "modal" THEN U \cup {1} ELSE U
  <2>1. \A i \in 1..Len(t) : i + 1 \in 1..(Len(t) + 1) /\ i + 1 # 1
    BY <1>1
  <2>2. \A i \in 1..(Len(t) + 1) : i # 1 => i - 1 \in 1..Len(t) /\ (i - 1) + 1 = i
    BY <1>1
  <2>3. 1 \in 1..(Len(t) + 1)
    BY <1>1
  <2>4. \A i \in L : i + 1 \in R
    BY <1>1, <2>1
  <2>5. \A i \in R : i # 1 => i \in U
    <3>1. TAKE i \in R
    <3>2. HAVE i # 1
    <3>3. i - 1 \in L /\ (i - 1) + 1 = i
      BY <1>1, <2>2, <3>2
    <3> QED
      BY <3>3
  <2>6. 1 \in R <=> a.kind = "modal"
    BY <1>1, <2>3
  <2> QED
    BY <2>4, <2>5, <2>6
<1>5. 1 \notin U
  BY <1>1
<1> HIDE DEF U, R
<1>6. Cardinality(R) = Cardinality(L) + (IF a.kind = "modal" THEN 1 ELSE 0)
  <2>1. CASE a.kind = "modal"
    BY <1>3, <1>4, <1>5, <2>1, FS_AddElement
  <2>2. CASE a.kind # "modal"
    BY <1>2, <1>3, <1>4, <2>2
  <2> QED
    BY <2>1, <2>2
<1> QED
  BY <1>2, <1>6 DEF LoopsOf, s, R

(* The stack: a handler or a loop begins, and ends.                        *)
LEMMA PushIs ==
  ASSUME NEW t \in Seq(Activities), NEW a \in Activities
  PROVE  /\ <<a>> \o t \in Seq(Activities) /\ <<a>> \o t # <<>>
         /\ (<<a>> \o t)[1] = a /\ Head(<<a>> \o t) = a /\ Tail(<<a>> \o t) = t
         /\ InOrder(t) /\ InTurn(a) /\ (t # <<>> => Waits(t[1])) => InOrder(<<a>> \o t)
<1>1. PICK r \in Seq(Activities) : r = <<a>>
  <2>1. <<a>> \in Seq(Activities)
    OBVIOUS
  <2> QED
    BY <2>1
<1>2. Len(r) = 1 /\ r[1] = a
  BY <1>1
<1>3. PICK s : s = r \o t
  OBVIOUS
<1>4. /\ s \in Seq(Activities) /\ Len(s) = Len(r) + Len(t)
      /\ \A i \in 1..(Len(r) + Len(t)) : s[i] = IF i <= Len(r) THEN r[i] ELSE t[i - Len(r)]
  BY <1>3, ConcatProperties
<1>5. /\ Len(s) = 1 + Len(t) /\ DOMAIN s = 1..(1 + Len(t)) /\ Len(t) \in Nat
      /\ DOMAIN t = 1..Len(t)
      /\ \A i \in 1..(1 + Len(t)) : s[i] = IF i <= 1 THEN r[i] ELSE t[i - 1]
  BY <1>2, <1>4
<1>6. s # <<>> /\ s[1] = a /\ Head(s) = a
  BY <1>2, <1>4, <1>5
<1>7. \A i \in DOMAIN s : i > 1 => i - 1 \in DOMAIN t /\ s[i] = t[i - 1] /\ (i - 1) + 1 = i
  BY <1>5
<1>8. Tail(s) = t
  <2>1. /\ Tail(s) \in Seq(Activities) /\ Len(Tail(s)) = Len(s) - 1
        /\ \A i \in 1..Len(Tail(s)) : Tail(s)[i] = s[i + 1]
    BY <1>4, <1>6, HeadTailProperties
  <2>2. Len(Tail(s)) = Len(t)
    BY <1>5, <2>1
  <2>3. \A i \in 1..Len(t) : i + 1 \in DOMAIN s /\ i + 1 > 1 /\ (i + 1) - 1 = i
    BY <1>5
  <2>4. \A i \in 1..Len(t) : Tail(s)[i] = t[i]
    BY <1>7, <2>1, <2>2, <2>3
  <2> QED
    BY <2>1, <2>2, <2>4, SeqEqual
<1>9. ASSUME InOrder(t), InTurn(a), t # <<>> => Waits(t[1])
      PROVE  InOrder(s)
  <2>1. ASSUME NEW i \in DOMAIN s
        PROVE  InTurn(s[i])
    <3>1. CASE i = 1
      BY <1>6, <1>9, <3>1
    <3>2. CASE i > 1
      BY <1>7, <1>9, <3>2 DEF InOrder
    <3> QED
      BY <1>5, <3>1, <3>2
  <2>2. ASSUME NEW i \in DOMAIN s, i > 1
        PROVE  Waits(s[i])
    <3>1. i - 1 \in DOMAIN t /\ s[i] = t[i - 1] /\ t # <<>>
      BY <1>5, <1>7, <2>2
    <3>2. CASE i - 1 = 1
      BY <1>9, <3>1, <3>2
    <3>3. CASE i - 1 > 1
      BY <1>9, <3>1, <3>3 DEF InOrder
    <3> QED
      BY <1>5, <3>1, <3>2, <3>3
  <2> QED
    BY <2>1, <2>2 DEF InOrder
<1>10. s = <<a>> \o t
  BY <1>1, <1>3
<1> QED
  BY <1>4, <1>6, <1>8, <1>9, <1>10

LEMMA PopIs ==
  ASSUME NEW s \in Seq(Activities), s # <<>>
  PROVE  /\ Head(s) \in Activities /\ Head(s) = s[1] /\ Tail(s) \in Seq(Activities)
         /\ s = <<Head(s)>> \o Tail(s)
         /\ LoopsOf(s) = LoopsOf(Tail(s)) + (IF Head(s).kind = "modal" THEN 1 ELSE 0)
         /\ LoopsOf(Tail(s)) <= LoopsOf(s) /\ LoopsOf(Tail(s)) \in Nat
         /\ InOrder(s) => /\ InTurn(Head(s))
                          /\ InOrder(Tail(s))
                          /\ Tail(s) # <<>> => Waits(Tail(s)[1])
<1> DEFINE t == Tail(s)
<1>1. /\ Head(s) \in Activities /\ Head(s) = s[1] /\ t \in Seq(Activities)
      /\ Len(s) \in Nat /\ Len(s) # 0 /\ Len(t) = Len(s) - 1
      /\ DOMAIN s = 1..Len(s) /\ DOMAIN t = 1..Len(t) /\ Len(t) \in Nat
      /\ \A i \in 1..Len(t) : t[i] = s[i + 1]
  BY HeadTailProperties
<1>2. s = <<Head(s)>> \o t
  <2>1. 1 \in 1..Len(s) /\ Len(s) \in 1..Len(s)
    BY <1>1
  <2>2. SubSeq(s, 1, Len(s)) = <<s[1]>> \o SubSeq(s, 1 + 1, Len(s))
    BY <2>1, SubSeqRecursiveFirst
  <2>3. SubSeq(s, 1, Len(s)) = s /\ t = SubSeq(s, 2, Len(s)) /\ 1 + 1 = 2
    BY SubSeqFull, TailIsSubSeq
  <2> QED
    BY <1>1, <2>2, <2>3
<1> HIDE DEF t
<1>3. \A i \in DOMAIN t : i + 1 \in DOMAIN s /\ t[i] = s[i + 1] /\ i + 1 > 1
  BY <1>1
<1>4. /\ LoopsOf(s) = LoopsOf(t) + (IF Head(s).kind = "modal" THEN 1 ELSE 0)
      /\ LoopsOf(t) \in Nat
  <2>1. PICK h \in Activities : h = Head(s)
    BY <1>1
  <2>2. LoopsOf(t) \in Nat /\ LoopsOf(<<h>> \o t) = LoopsOf(t) + (IF h.kind = "modal" THEN 1 ELSE 0)
    BY <1>1, LoopsOfPush
  <2> QED
    BY <1>2, <2>1, <2>2
<1>5. LoopsOf(t) <= LoopsOf(s)
  BY <1>4
<1>6. ASSUME InOrder(s)
      PROVE  InTurn(Head(s)) /\ InOrder(t) /\ (t # <<>> => Waits(t[1]))
  <2>1. InTurn(s[1])
    <3>1. 1 \in DOMAIN s
      BY <1>1
    <3> QED
      BY <1>6, <3>1 DEF InOrder
  <2>2. InOrder(t)
    BY <1>3, <1>6 DEF InOrder
  <2>3. t # <<>> => Waits(t[1])
    <3>1. t # <<>> => 1 \in DOMAIN t
      BY <1>1
    <3> QED
      BY <1>3, <1>6, <3>1 DEF InOrder
  <2> QED
    BY <1>1, <2>1, <2>2, <2>3
<1> QED
  BY <1>1, <1>2, <1>4, <1>5, <1>6 DEF t

(* The next listener of the copy is called.                                *)
LEMMA CalledIs ==
  ASSUME NEW b \in Casting, InTurn(b), Len(b.heard) < Len(b.clone)
  PROVE  /\ Called(b) \in Casting /\ InTurn(Called(b))
         /\ Called(b).clone = b.clone /\ Called(b).nested = b.nested
         /\ [Called(b) EXCEPT !.nested = TRUE] \in Casting
         /\ InTurn([Called(b) EXCEPT !.nested = TRUE])
         /\ [Called(b) EXCEPT !.nested = TRUE].nested = TRUE
         /\ Callee(b) \in ToSet(b.clone)
<1>1. /\ b.clone \in Seq(Everyone) /\ b.heard \in Seq(Everyone) /\ b.id \in Ids
      /\ b.nested \in BOOLEAN /\ b.kind = "broadcast"
  BY DEF Casting
<1>2. PICK n \in Nat : n = Len(b.heard)
  BY <1>1
<1>3. n + 1 \in DOMAIN b.clone /\ b.clone[n + 1] \in Everyone /\ Callee(b) = b.clone[n + 1]
  BY <1>1, <1>2 DEF Callee, Audience
<1>4. PICK h : h = Append(b.heard, Callee(b))
  OBVIOUS
<1>5. /\ h \in Seq(Everyone) /\ Len(h) = n + 1 /\ DOMAIN h = 1..(n + 1)
      /\ \A i \in 1..n : h[i] = b.heard[i]
      /\ h[n + 1] = b.clone[n + 1]
  <2>1. PICK q \in Seq(Everyone) : q = b.heard
    BY <1>1
  <2>2. PICK e \in Everyone : e = Callee(b)
    BY <1>3
  <2>3. /\ Append(q, e) \in Seq(Everyone) /\ Len(Append(q, e)) = Len(q) + 1
        /\ \A i \in 1..Len(q) : Append(q, e)[i] = q[i]
        /\ Append(q, e)[Len(q) + 1] = e
    BY AppendProperties
  <2>4. h = Append(q, e) /\ Len(q) = n
    BY <1>2, <1>4, <2>1, <2>2
  <2>5. h \in Seq(Everyone) /\ Len(h) = n + 1
    BY <2>3, <2>4
  <2>6. \A i \in 1..n : h[i] = b.heard[i]
    BY <2>1, <2>3, <2>4
  <2>7. h[n + 1] = b.clone[n + 1]
    BY <1>3, <2>2, <2>3, <2>4
  <2> QED
    BY <2>5, <2>6, <2>7
<1>6. \A k \in DOMAIN h : h[k] = b.clone[k]
  <2>1. TAKE k \in DOMAIN h
  <2>2. CASE k = n + 1
    BY <1>5, <2>2
  <2>3. CASE k # n + 1
    <3>1. k \in 1..n /\ k \in DOMAIN b.heard
      BY <1>1, <1>2, <1>5, <2>3
    <3> QED
      BY <1>1, <1>5, <3>1 DEF InTurn
  <2> QED
    BY <2>2, <2>3
<1>7. Len(h) <= Len(b.clone) /\ IsInjective(b.clone)
  BY <1>1, <1>2, <1>5 DEF InTurn
<1>8. PICK c : c = [kind |-> "broadcast", id |-> b.id, clone |-> b.clone, heard |-> h,
                    nested |-> b.nested]
  OBVIOUS
<1>9. c = Called(b)
  <2>1. Called(b) = [b EXCEPT !.heard = h]
    BY <1>4 DEF Called
  <2>2. b = [kind |-> "broadcast", id |-> b.id, clone |-> b.clone, heard |-> b.heard,
             nested |-> b.nested]
    BY DEF Casting
  <2>3. [b EXCEPT !.heard = h] = c
    BY <1>8, <2>2
  <2> QED
    BY <2>1, <2>3
<1>10. PICK d : d = [kind |-> "broadcast", id |-> b.id, clone |-> b.clone, heard |-> h,
                     nested |-> TRUE]
  OBVIOUS
<1>11. d = [c EXCEPT !.nested = TRUE]
  <2>1. PICK v : v = TRUE
    OBVIOUS
  <2>2. d = [kind |-> "broadcast", id |-> b.id, clone |-> b.clone, heard |-> h, nested |-> v]
    BY <1>10, <2>1
  <2>3. d = [c EXCEPT !.nested = v]
    BY <1>8, <2>2
  <2> QED
    BY <2>1, <2>3
<1>12. c \in Casting /\ c.clone = b.clone /\ c.nested = b.nested /\ c.heard = h
  BY <1>1, <1>5, <1>8 DEF Casting
<1>13. d \in Casting /\ d.clone = b.clone /\ d.nested = TRUE /\ d.heard = h
  BY <1>1, <1>5, <1>10 DEF Casting
<1>14. InTurn(c) /\ InTurn(d)
  BY <1>6, <1>7, <1>12, <1>13 DEF InTurn
<1>15. Callee(b) \in ToSet(b.clone)
  BY <1>3 DEF ToSet
<1> QED
  BY <1>9, <1>11, <1>12, <1>13, <1>14, <1>15

(* A handler or a loop ends: what waits below it goes on.                  *)
LEMMA PopStack ==
  ASSUME CastInv, stack # <<>>, stack' = Tail(stack), FALSE \notin deadCalls'
  PROVE  /\ stack' \in Seq(Activities) /\ StackInv'
         /\ \A m \in Calm : ~Runs(m)'
<1>1. stack \in Seq(Activities) /\ InOrder(stack) /\ LoopsOf(stack) <= MaxLoops
  BY DEF CastInv, BTypes, StackInv
<1>2. PICK t : t = Tail(stack)
  OBVIOUS
<1>3. /\ t \in Seq(Activities) /\ InOrder(t) /\ (t # <<>> => Waits(t[1]))
      /\ LoopsOf(t) <= LoopsOf(stack) /\ LoopsOf(t) \in Nat
      /\ LoopsOf(stack) \in Nat
  <2>1. /\ LoopsOf(stack) = LoopsOf(t) + (IF Head(stack).kind = "modal" THEN 1 ELSE 0)
        /\ LoopsOf(t) \in Nat /\ LoopsOf(t) <= LoopsOf(stack)
    BY <1>1, <1>2, PopIs
  <2>2. LoopsOf(stack) \in Nat
    BY <2>1
  <2>3. t \in Seq(Activities) /\ InOrder(t) /\ (t # <<>> => Waits(t[1]))
    BY <1>1, <1>2, PopIs
  <2> QED
    BY <2>1, <2>2, <2>3
<1>4. LoopsOf(t) <= MaxLoops
  BY <1>1, <1>3, BroadcastAssumption
<1>5. \A b : Waits(b) => b \notin Calm /\ (Fresh(b))'
  <2>1. TAKE b
  <2>2. HAVE Waits(b)
  <2>3. b.kind \in {"modal", "broadcast"} /\ (b.kind = "broadcast" => b.nested)
    BY <2>2, Shapes DEF Waits
  <2>4. b \notin Calm
    BY <2>3, Kinds DEF Calm
  <2> QED
    BY <2>3, <2>4 DEF Fresh
<1>6. stack' = t
  BY <1>2
<1> QED
  BY <1>3, <1>4, <1>5, <1>6 DEF StackInv, Runs

(* The head of the stack is what runs.                                     *)
LEMMA TopIs ==
  ASSUME CastInv, NEW kind, Running(kind)
  PROVE  /\ stack # <<>> /\ loop = "handler"
         /\ Head(stack) \in Activities /\ Head(stack) = stack[1] /\ Head(stack).kind = kind
         /\ \A m : Runs(m) <=> m = Head(stack)
         /\ ~Has(posted, Begin)
         /\ InTurn(Head(stack)) /\ Fresh(Head(stack))
         /\ Tail(stack) \in Seq(Activities)
  BY PopIs DEF CastInv, BTypes, Running, FirstInv, Runs, StackInv

(* A handler returns to notifyAll().                                       *)
LEMMA CallStack ==
  ASSUME CastInv, NEW o, NEW ids, Calls(o, ids), HandlerDone, alive \subseteq alive'
  PROVE  /\ stack' \in Seq(Activities) /\ StackInv'
         /\ o \in Everyone /\ deadCalls' \subseteq BOOLEAN
         /\ \A m \in Calm : ~Runs(m) /\ ~Runs(m)'
         /\ stack # <<>> /\ loop = "handler" /\ ~Has(posted, Begin)
<1>1. PICK b \in Casting : b = Head(stack)
  BY TopIs, InCasting DEF Calls
<1>2. PICK t \in Seq(Activities) : t = Tail(stack)
  BY TopIs DEF Calls
<1>3. /\ Len(b.heard) < Len(b.clone) /\ Callee(b) = o
      /\ deadCalls' = IF o \in alive THEN deadCalls ELSE deadCalls \cup {b.nested}
      /\ b.clone \in Seq(Everyone) /\ b.nested \in BOOLEAN /\ b.kind = "broadcast"
  BY <1>1 DEF Calls, Audience, Casting
<1>4. /\ stack # <<>> /\ stack \in Seq(Activities) /\ InTurn(b) /\ Fresh(b) /\ InOrder(t)
      /\ (t # <<>> => Waits(t[1])) /\ deadCalls \subseteq BOOLEAN /\ FALSE \notin deadCalls
      /\ loop = "handler" /\ ~Has(posted, Begin) /\ \A m : Runs(m) <=> m = b
      /\ LoopsOf(stack) <= MaxLoops
  BY <1>1, <1>2, TopIs, PopIs DEF Calls, CastInv, BTypes, StackInv
<1>5. PICK c : c = Called(b)
  OBVIOUS
<1>6. /\ c \in Casting /\ InTurn(c) /\ c.clone = b.clone /\ c.nested = b.nested
      /\ o \in ToSet(b.clone)
  BY <1>3, <1>4, <1>5, CalledIs
<1>7. stack' = <<c>> \o t
  BY <1>1, <1>2, <1>5 DEF HandlerDone
<1>8. c \in Activities /\ c.kind = "broadcast" /\ b \in Activities
  BY <1>6 DEF Activities, Casting
<1>9. stack' \in Seq(Activities) /\ stack' # <<>> /\ stack'[1] = c /\ InOrder(stack')
  BY <1>4, <1>6, <1>7, <1>8, PushIs
<1>10. LoopsOf(stack') <= MaxLoops
  <2>1. LoopsOf(stack) = LoopsOf(t) + (IF b.kind = "modal" THEN 1 ELSE 0) /\ LoopsOf(t) \in Nat
    BY <1>1, <1>2, <1>4, PopIs
  <2>2. LoopsOf(stack') = LoopsOf(t) + (IF c.kind = "modal" THEN 1 ELSE 0)
    BY <1>7, <1>8, LoopsOfPush
  <2>3. LoopsOf(stack) = LoopsOf(stack')
    BY <1>3, <1>8, <2>1, <2>2
  <2> QED
    BY <1>4, <2>3
<1>11. o \in alive \/ b.nested
  BY <1>3, <1>4, <1>6 DEF Fresh
<1>12. deadCalls' \subseteq BOOLEAN /\ FALSE \notin deadCalls'
  BY <1>3, <1>4, <1>11
<1>13. (Fresh(c))'
  BY <1>4, <1>6, <1>8, <1>3 DEF Fresh
<1>14. \A m \in Calm : m # b /\ m # c
  BY <1>3, <1>8 DEF Calm
<1>15. o \in Everyone
  BY <1>3, <1>6 DEF ToSet
<1>16. StackInv'
  BY <1>9, <1>10, <1>12, <1>13 DEF StackInv
<1> QED
  BY <1>4, <1>9, <1>12, <1>14, <1>15, <1>16 DEF Runs

---------------------------------------------------------------------------
(* The steps.                                                              *)

LEMMA TakeKeeps ==
  ASSUME CastInv, Get \/ ModalGet
  PROVE  CastInv'
<1>1. /\ posted # <<>> /\ posted' = Tail(posted) /\ loop' = "handler"
      /\ stack' = <<Handling(Head(posted))>> \o stack
      /\ stack = <<>> \/ stack[1] = ModalLoop
      /\ UNCHANGED <<shutdown, shutdownDelay, quit, listeners, alive, dlgAbout, reader,
                     frame, deadCalls>>
  <2>1. CASE Get
    <3>1. stack = <<>> /\ stack' = <<Handling(Head(posted))>>
      BY <2>1 DEF Get, GetMessage, CastInv, BTypes
    <3>2. <<Handling(Head(posted))>> \o stack = <<Handling(Head(posted))>>
      BY <3>1
    <3> QED
      BY <2>1, <3>1, <3>2 DEF Get, GetMessage
  <2>2. CASE ModalGet
    <3>1. Running("modal")
      BY <2>2 DEF ModalGet
    <3>2. Head(stack) = stack[1] /\ Head(stack) = ModalLoop /\ loop = "handler"
      BY <3>1, TopIs, InCasting
    <3> QED
      BY <2>2, <3>2 DEF ModalGet
  <2> QED
    BY <2>1, <2>2
<1> DEFINE M == Messages \cup {ShutdownMsg}
<1>2. /\ posted \in Seq(M) /\ stack \in Seq(Activities) /\ listeners \in Seq(Everyone)
      /\ IsInjective(listeners) /\ Single(posted) /\ FirstOnly(posted)
  BY DEF CastInv, BTypes, PendingInv, FirstInv
<1>3. PICK m \in M : m = Head(posted) /\ m = posted[1]
  BY <1>1, <1>2, TailHas
<1>4. /\ posted' \in Seq(M) /\ Single(posted') /\ FirstOnly(posted') /\ ~Has(posted', Begin)
      /\ \A n : Has(posted, n) <=> m = n \/ Has(posted', n)
      /\ \A o \in Buttons : m = Suicide(o) => ~Has(posted', Suicide(o))
  BY <1>1, <1>2, <1>3, TailHas
<1>5. PICK a \in Activities : a = Handling(m)
  BY <1>2, HandlingType
<1>6. /\ m \in Calm => a = m
      /\ m \notin Calm => a \in Casting /\ a.clone = listeners /\ a.heard = <<>> /\ a.nested = FALSE
  BY <1>2, <1>5, HandlingType
<1>7. a.kind # "modal" /\ (a \in Casting <=> a.kind = "broadcast") /\ (a \in Calm <=> m \in Calm)
  BY <1>6, InCasting, Shapes
<1>8. \A n \in Calm : a = n <=> m = n
  BY <1>6, <1>7
<1>9. stack' = <<a>> \o stack
  BY <1>1, <1>3, <1>5
<1>10. InTurn(a) /\ (Fresh(a))'
  <2>1. CASE m \in Calm
    BY <1>7, <2>1, InCasting DEF InTurn, Fresh
  <2>2. CASE m \notin Calm
    <3>1. a.clone = listeners /\ a.heard = <<>> /\ a.nested = FALSE
      BY <1>6, <2>2
    <3>2. Len(a.heard) = 0 /\ DOMAIN a.heard = {} /\ Len(listeners) \in Nat
      BY <1>2, <3>1
    <3>3. ToSet(listeners) \subseteq alive
      BY DEF CastInv, RegisteredIsAlive, Registered
    <3> QED
      BY <1>1, <1>2, <3>1, <3>2, <3>3 DEF InTurn, Fresh
  <2> QED
    BY <2>1, <2>2
<1>11. InOrder(stack) /\ (stack # <<>> => Waits(stack[1]))
  BY <1>1 DEF CastInv, StackInv, Waits
<1>12. stack' \in Seq(Activities) /\ stack' # <<>> /\ stack'[1] = a /\ InOrder(stack')
       /\ Tail(stack') = stack
  BY <1>2, <1>9, <1>10, <1>11, PushIs
<1>13. LoopsOf(stack') <= MaxLoops
  <2>1. LoopsOf(stack') = LoopsOf(stack) + (IF a.kind = "modal" THEN 1 ELSE 0)
        /\ LoopsOf(stack) \in Nat
    BY <1>2, <1>9, LoopsOfPush
  <2> QED
    BY <1>7, <2>1 DEF CastInv, StackInv
<1>14. BTypes'
  BY <1>1, <1>4, <1>12 DEF CastInv, BTypes
<1>15. StackInv'
  BY <1>1, <1>10, <1>12, <1>13 DEF CastInv, StackInv
<1>16. RegisteredIsAlive'
  BY <1>1 DEF CastInv, RegisteredIsAlive, Registered
<1>17. FirstInv'
  <2>1. Runs(Begin)' => m = Begin
    BY <1>8, <1>12, Kinds DEF Runs
  <2>2. m = Begin => stack = <<>> /\ Youth
    BY <1>4 DEF CastInv, FirstInv
  <2>3. Youth' <=> Youth
    BY <1>1 DEF Youth, Registered
  <2> QED
    BY <1>4, <1>12, <2>1, <2>2, <2>3 DEF FirstInv
<1>18. PendingInv'
  <2>1. \A o \in Buttons : ~Runs(Suicide(o))
    BY <1>1, Shapes DEF Runs
  <2>2. \A o \in Buttons : Runs(Suicide(o))' <=> m = Suicide(o)
    BY <1>8, <1>12, Kinds DEF Runs
  <2>3. Zombies' = Zombies
    BY <1>1 DEF Zombies, Registered
  <2>4. \A o \in Buttons : Has(posted', Suicide(o)) \/ Runs(Suicide(o))' <=> o \in Zombies'
    BY <1>4, <2>1, <2>2, <2>3 DEF CastInv, PendingInv
  <2> QED
    BY <1>1, <1>4, <2>2, <2>4 DEF CastInv, PendingInv, Registered
<1>19. EndInv'
  BY <1>1 DEF CastInv, EndInv
<1> QED
  BY <1>14, <1>15, <1>16, <1>17, <1>18, <1>19 DEF CastInv

(* A message that nobody waits for is posted, or none, by a step that      *)
(* leaves the windows and the listeners alone.                             *)
LEMMA PostIs ==
  ASSUME CastInv,
         \/ UNCHANGED posted
         \/ \E e \in Messages \cup {ShutdownMsg} :
              /\ e # Begin /\ \A o \in Buttons : e # Suicide(o)
              /\ posted' = Append(posted, e)
  PROVE  /\ posted' \in Seq(Messages \cup {ShutdownMsg}) /\ FirstOnly(posted')
         /\ Has(posted', Begin) <=> Has(posted, Begin)
         /\ /\ UNCHANGED <<listeners, alive, dlgAbout, frame>>
            /\ \A o \in Buttons : Runs(Suicide(o))' <=> Runs(Suicide(o))
            => PendingInv'
         /\ Single(posted')
         /\ \A o \in Buttons : Has(posted', Suicide(o)) <=> Has(posted, Suicide(o))
<1>1. posted \in Seq(Messages \cup {ShutdownMsg}) /\ FirstOnly(posted) /\ Single(posted)
  BY DEF CastInv, BTypes, FirstInv, PendingInv
<1>2. /\ posted' \in Seq(Messages \cup {ShutdownMsg}) /\ FirstOnly(posted') /\ Single(posted')
      /\ Has(posted', Begin) <=> Has(posted, Begin)
      /\ \A o \in Buttons : Has(posted', Suicide(o)) <=> Has(posted, Suicide(o))
  <2>1. CASE UNCHANGED posted
    BY <1>1, <2>1
  <2>2. CASE ~UNCHANGED posted
    <3>1. PICK e \in Messages \cup {ShutdownMsg} :
            /\ e # Begin /\ \A o \in Buttons : e # Suicide(o)
            /\ posted' = Append(posted, e)
      BY <2>2
    <3>2. posted' \in Seq(Messages \cup {ShutdownMsg})
      BY <1>1, <3>1, AppendHas
    <3>3. \A m : Has(posted', m) <=> Has(posted, m) \/ m = e
      <4>1. \A m : Has(Append(posted, e), m) <=> Has(posted, m) \/ m = e
        <5> DEFINE M == Messages \cup {ShutdownMsg}
        <5>1. posted \in Seq(M) /\ e \in M
          BY <1>1
        <5> HIDE DEF M
        <5> QED
          BY <5>1, AppendHas
      <4> QED
        BY <3>1, <4>1
    <3>4. Single(posted') /\ FirstOnly(posted')
      BY <1>1, <3>1, AppendHas
    <3> QED
      BY <3>1, <3>2, <3>3, <3>4
  <2> QED
    BY <2>1, <2>2
<1>3. ASSUME UNCHANGED <<listeners, alive, dlgAbout, frame>>,
             \A o \in Buttons : Runs(Suicide(o))' <=> Runs(Suicide(o))
      PROVE  PendingInv'
  <2>1. Zombies' = Zombies /\ Registered' = Registered
    BY <1>3 DEF Zombies, Registered
  <2> QED
    BY <1>2, <1>3, <2>1 DEF CastInv, PendingInv
<1> QED
  BY <1>2, <1>3

(* Such a step of the dispatch thread keeps the invariant.                 *)
LEMMA QuietKeeps ==
  ASSUME CastInv, loop = "handler",
         UNCHANGED <<loop, shutdown, quit, listeners, alive, dlgAbout, reader, frame>>,
         deadCalls' \subseteq BOOLEAN,
         stack' \in Seq(Activities), StackInv', ~Has(posted, Begin),
         \A m \in Calm : m = Begin \/ m.kind = "suicide" => ~Runs(m) /\ ~Runs(m)',
         \/ UNCHANGED posted
         \/ \E e \in Messages \cup {ShutdownMsg} :
              /\ e # Begin /\ \A o \in Buttons : e # Suicide(o)
              /\ posted' = Append(posted, e)
  PROVE  CastInv'
<1>1. \A o \in Buttons : ~Runs(Suicide(o)) /\ ~Runs(Suicide(o))'
  BY Kinds, Shapes
<1>2. ~Runs(Begin)'
  BY Kinds
<1>3. BTypes'
  BY PostIs DEF CastInv, BTypes
<1>4. RegisteredIsAlive'
  BY DEF CastInv, RegisteredIsAlive, Registered
<1>5. FirstInv'
  BY <1>2, PostIs DEF FirstInv
<1>6. PendingInv'
  BY <1>1, PostIs
<1>7. EndInv'
  BY DEF CastInv, EndInv
<1> QED
  BY <1>3, <1>4, <1>5, <1>6, <1>7 DEF CastInv

(* What other threads post, and what is posted to windows.                 *)
LEMMA PostedKinds ==
  /\ \A id \in CommandIds \cup {"databaseChanged"} :
       /\ Cast(id) \in Messages /\ Cast(id) # Begin /\ \A o \in Buttons : Cast(id) # Suicide(o)
  /\ \A id \in {"close", "dialogCommand", "dialogClose"} :
       /\ ToWindow(id) \in Messages /\ ToWindow(id) # Begin
       /\ \A o \in Buttons : ToWindow(id) # Suicide(o)
  /\ /\ Job("setDatabase") \in Messages /\ Job("setDatabase") # Begin
     /\ \A o \in Buttons : Job("setDatabase") # Suicide(o)
  /\ ShutdownMsg # Begin /\ \A o \in Buttons : ShutdownMsg # Suicide(o)
<1>1. Job("setDatabase") # Begin
  BY DEF Begin, Job
<1>2. Begin.kind = "job"
  BY DEF Begin, Job
<1>3. \A o \in Buttons : ShutdownMsg # Suicide(o)
  BY Kinds, BroadcastAssumption DEF Calm
<1>4. ShutdownMsg # Begin
  BY Kinds, BroadcastAssumption DEF Calm
<1>5. \A o \in Buttons : Suicide(o).kind = "suicide"
  BY Shapes
<1>6. /\ Job("setDatabase") \in Messages
      /\ \A id \in {"close", "dialogCommand", "dialogClose"} : ToWindow(id) \in Messages
      /\ \A id \in CommandIds \cup {"databaseChanged"} : Cast(id) \in Messages
  BY Kinds DEF Calm
<1>7. \A id : Cast(id) # Begin /\ ToWindow(id) # Begin
  BY <1>2, Shapes
<1>8. \A o \in Buttons : \A id : /\ Cast(id) # Suicide(o) /\ ToWindow(id) # Suicide(o)
                                 /\ Job(id) # Suicide(o)
  BY <1>5, Shapes
<1> QED
  BY <1>1, <1>3, <1>4, <1>6, <1>7, <1>8

LEMMA FrameExitsKeeps ==
  ASSUME CastInv, FrameExits
  PROVE  CastInv'
<1>1. Calls("frame", {"exit"}) /\ HandlerDone /\ alive \subseteq alive'
  BY DEF FrameExits
<1>2. /\ stack' \in Seq(Activities) /\ StackInv'
      /\ deadCalls' \subseteq BOOLEAN
      /\ \A m \in Calm : ~Runs(m) /\ ~Runs(m)'
      /\ loop = "handler" /\ ~Has(posted, Begin)
  BY <1>1, CallStack
<1>3. \E e \in Messages \cup {ShutdownMsg} :
              /\ e # Begin /\ \A o \in Buttons : e # Suicide(o)
              /\ posted' = Append(posted, e)
  <2>1. posted' = Append(posted, ToWindow("close"))
    BY DEF FrameExits, Post
  <2> QED
    BY <2>1, PostedKinds
<1>4. UNCHANGED <<loop, shutdown, quit, listeners, alive, dlgAbout, reader, frame>>
  BY DEF FrameExits
<1> QED
  BY <1>2, <1>3, <1>4, QuietKeeps

LEMMA HelpOKKeeps ==
  ASSUME CastInv, HelpOK
  PROVE  CastInv'
<1>1. Calls("help", {"ok"}) /\ HandlerDone /\ alive \subseteq alive'
  BY DEF HelpOK
<1>2. /\ stack' \in Seq(Activities) /\ StackInv'
      /\ deadCalls' \subseteq BOOLEAN
      /\ \A m \in Calm : ~Runs(m) /\ ~Runs(m)'
      /\ loop = "handler" /\ ~Has(posted, Begin)
  BY <1>1, CallStack
<1>3. \/ UNCHANGED posted
      \/ \E e \in Messages \cup {ShutdownMsg} :
              /\ e # Begin /\ \A o \in Buttons : e # Suicide(o)
              /\ posted' = Append(posted, e)
  <2>1. UNCHANGED posted \/ posted' = Append(posted, ToWindow("dialogCommand"))
    BY DEF HelpOK, Post
  <2> QED
    BY <2>1, PostedKinds
<1>4. UNCHANGED <<loop, shutdown, quit, listeners, alive, dlgAbout, reader, frame>>
  BY DEF HelpOK
<1> QED
  BY <1>2, <1>3, <1>4, QuietKeeps

LEMMA QuietStep ==
  ASSUME CastInv, Quiet
  PROVE  CastInv'
<1>1. HandlerDone /\ alive \subseteq alive' /\ UNCHANGED posted
  BY DEF Quiet, mqVars
<1>2. \E o, ids : Calls(o, ids)
  BY DEF Quiet
<1>3. /\ stack' \in Seq(Activities) /\ StackInv'
      /\ deadCalls' \subseteq BOOLEAN
      /\ \A m \in Calm : ~Runs(m) /\ ~Runs(m)'
      /\ loop = "handler" /\ ~Has(posted, Begin)
  BY <1>1, <1>2, CallStack
<1>4. UNCHANGED <<loop, shutdown, quit, listeners, alive, dlgAbout, reader, frame>>
  BY DEF Quiet, mqVars
<1> QED
  BY <1>1, <1>3, <1>4, QuietKeeps

(* A handler, or a loop, that ends without touching the windows.           *)
LEMMA EndsKeeps ==
  ASSUME CastInv, ModalEnds \/ Finish \/ DialogCommand
  PROVE  CastInv'
<1>1. PICK kind \in {"modal", "broadcast", "window"} : Running(kind)
  BY DEF ModalEnds, Finish, DialogCommand
<1>2. /\ stack' = Tail(stack)
      /\ UNCHANGED <<loop, shutdown, quit, listeners, alive, dlgAbout, reader, frame, deadCalls>>
      /\ UNCHANGED posted \/ posted' = Append(posted, ToWindow("dialogClose"))
  BY DEF ModalEnds, Finish, DialogCommand, mqVars, Post
<1>3. stack # <<>> /\ loop = "handler" /\ Head(stack).kind = kind /\ ~Has(posted, Begin)
      /\ \A m : Runs(m) <=> m = Head(stack)
  BY <1>1, TopIs
<1>4. FALSE \notin deadCalls' /\ deadCalls' \subseteq BOOLEAN
  BY <1>2 DEF CastInv, BTypes, StackInv
<1>5. stack' \in Seq(Activities) /\ StackInv' /\ \A m \in Calm : ~Runs(m)'
  BY <1>2, <1>3, <1>4, PopStack
<1>6. Begin.kind = "job"
  BY DEF Begin, Job
<1>7. \A m \in Calm : m = Begin \/ m.kind = "suicide" => ~Runs(m) /\ ~Runs(m)'
  BY <1>3, <1>5, <1>6
<1>8. \/ UNCHANGED posted
      \/ \E e \in Messages \cup {ShutdownMsg} :
              /\ e # Begin /\ \A o \in Buttons : e # Suicide(o)
              /\ posted' = Append(posted, e)
  BY <1>2, PostedKinds
<1> QED
  BY <1>2, <1>3, <1>4, <1>5, <1>7, <1>8, QuietKeeps

(* Commands are broadcast, a database was opened, and the loop goes on     *)
(* between handlers.                                                       *)
LEMMA PostersKeep ==
  ASSUME CastInv, PostCommand \/ Opened \/ Returns \/ Loop
  PROVE  CastInv'
<1>1. /\ UNCHANGED <<listeners, alive, stack, dlgAbout, reader, frame, deadCalls, shutdown>>
      /\ loop' \in {"get", "handler", "check", "exited"}
      /\ UNCHANGED loop \/ stack = <<>>
  BY DEF PostCommand, Opened, Returns, Loop, HandlerReturns, CheckShutdown, LoopEnds, bVars,
         CastInv, BTypes
<1>2. \/ UNCHANGED posted
      \/ \E e \in Messages \cup {ShutdownMsg} :
              /\ e # Begin /\ \A o \in Buttons : e # Suicide(o)
              /\ posted' = Append(posted, e)
  <2>1. CASE PostCommand
    <3>1. PICK id \in Commands : posted' = Append(posted, Cast(id))
      BY <2>1 DEF PostCommand, Post
    <3>2. id \in CommandIds
      BY BroadcastAssumption
    <3> QED
      BY <3>1, <3>2, PostedKinds
  <2>2. CASE Opened
    BY <2>2, PostedKinds DEF Opened, Post
  <2>3. CASE Returns
    BY <2>3 DEF Returns, HandlerReturns
  <2>4. CASE Loop
    BY <2>4, PostedKinds DEF Loop, CheckShutdown, LoopEnds, Post
  <2> QED
    BY <2>1, <2>2, <2>3, <2>4
<1>3. /\ quit' \in BOOLEAN /\ (quit' => quit \/ shutdown)
      /\ loop' = "exited" => quit' /\ posted' = <<>>
  <2>1. CASE PostCommand
    BY <2>1 DEF PostCommand, CastInv, EndInv, BTypes
  <2>2. CASE Opened
    BY <2>2 DEF Opened, CastInv, EndInv, BTypes
  <2>3. CASE Returns
    BY <2>3 DEF Returns, HandlerReturns, CastInv, BTypes
  <2>4. CASE Loop
    BY <2>4 DEF Loop, CheckShutdown, LoopEnds, CastInv, BTypes
  <2> QED
    BY <2>1, <2>2, <2>3, <2>4
<1>4. \A m : Runs(m)' <=> Runs(m)
  BY <1>1 DEF Runs
<1>5. BTypes'
  <2>1. posted' \in Seq(Messages \cup {ShutdownMsg})
    BY <1>2, PostIs
  <2>2. loop' # "handler" => stack' = <<>>
    BY <1>1 DEF CastInv, BTypes
  <2> QED
    BY <1>1, <1>3, <2>1, <2>2 DEF CastInv, BTypes
<1>6. StackInv'
  <2>1. stack # <<>> => ((Fresh(stack[1]))' <=> Fresh(stack[1]))
    BY <1>1 DEF Fresh
  <2> QED
    BY <1>1, <2>1 DEF CastInv, StackInv
<1>7. RegisteredIsAlive'
  BY <1>1 DEF CastInv, RegisteredIsAlive, Registered
<1>8. FirstInv'
  <2>1. Youth' <=> Youth
    BY <1>1 DEF Youth, Registered
  <2> QED
    BY <1>1, <1>2, <1>4, <2>1, PostIs DEF CastInv, FirstInv
<1>9. PendingInv'
  BY <1>1, <1>2, <1>4, PostIs
<1>10. EndInv'
  BY <1>1, <1>3 DEF CastInv, EndInv
<1> QED
  BY <1>5, <1>6, <1>7, <1>8, <1>9, <1>10 DEF CastInv

(* Frame: a handler runs a modal loop, and its broadcast is nested.        *)
LEMMA FrameOpensKeeps ==
  ASSUME CastInv, FrameOpens
  PROVE  CastInv'
<1>1. CASE Loops < MaxLoops
  <2>1. PICK b \in Casting : b = Head(stack)
    BY TopIs, InCasting DEF FrameOpens, Calls
  <2>2. PICK t \in Seq(Activities) : t = Tail(stack)
    BY TopIs DEF FrameOpens, Calls
  <2>3. /\ Len(b.heard) < Len(b.clone) /\ Callee(b) = "frame"
        /\ deadCalls' = IF "frame" \in alive THEN deadCalls ELSE deadCalls \cup {b.nested}
        /\ b.clone \in Seq(Everyone) /\ b.nested \in BOOLEAN /\ b.kind = "broadcast"
        /\ b \in Activities
    BY <2>1 DEF FrameOpens, Calls, Audience, Casting, Activities
  <2>4. /\ stack # <<>> /\ stack \in Seq(Activities) /\ InTurn(b) /\ Fresh(b) /\ InOrder(t)
        /\ (t # <<>> => Waits(t[1])) /\ deadCalls \subseteq BOOLEAN /\ FALSE \notin deadCalls
        /\ loop = "handler" /\ ~Has(posted, Begin) /\ \A m : Runs(m) <=> m = b
        /\ LoopsOf(stack) < MaxLoops
    BY <1>1, <2>1, <2>2, TopIs, PopIs DEF FrameOpens, Calls, CastInv, BTypes, StackInv, Loops, LoopsOf
  <2>5. PICK d : d = [Called(b) EXCEPT !.nested = TRUE]
    OBVIOUS
  <2>6. d \in Casting /\ InTurn(d) /\ d.nested = TRUE /\ "frame" \in ToSet(b.clone)
    BY <2>3, <2>4, <2>5, CalledIs
  <2>7. d \in Activities /\ d.kind = "broadcast" /\ ModalLoop \in Activities /\ Waits(d)
        /\ ModalLoop.kind = "modal"
    BY <2>6, Shapes DEF Activities, Casting, Waits
  <2>8. PICK u \in Seq(Activities) : u = <<d>> \o t
    BY <2>7, PushIs
  <2>9. /\ u # <<>> /\ u[1] = d /\ InOrder(u)
    BY <2>4, <2>6, <2>7, <2>8, PushIs
  <2>10. InTurn(ModalLoop) /\ (Fresh(ModalLoop))'
    BY <2>7 DEF InTurn, Fresh
  <2>11. stack' = <<ModalLoop>> \o u
    <3>1. stack' = <<ModalLoop, d>> \o t
      BY <1>1, <2>1, <2>2, <2>5 DEF FrameOpens
    <3>2. <<ModalLoop>> \in Seq(Activities) /\ <<d>> \in Seq(Activities)
      <4>1. \A x \in Activities : <<x>> \in Seq(Activities)
        OBVIOUS
      <4> QED
        BY <2>7, <4>1
    <3>3. <<ModalLoop>> \o (<<d>> \o t) = (<<ModalLoop>> \o <<d>>) \o t
      BY <2>2, <3>2, ConcatAssociative
    <3>4. <<ModalLoop>> \o <<d>> = <<ModalLoop, d>>
      <4>1. PICK q \in Seq(Activities) : q = <<ModalLoop>>
        BY <3>2
      <4>2. PICK r \in Seq(Activities) : r = <<d>>
        BY <3>2
      <4>3. Len(q) = 1 /\ Len(r) = 1 /\ q[1] = ModalLoop /\ r[1] = d
        BY <4>1, <4>2
      <4>4. /\ q \o r \in Seq(Activities) /\ Len(q \o r) = Len(q) + Len(r)
            /\ \A i \in 1..(Len(q) + Len(r)) :
                 (q \o r)[i] = IF i <= Len(q) THEN q[i] ELSE r[i - Len(q)]
        BY ConcatProperties
      <4>5. Len(q \o r) = 2 /\ (q \o r)[1] = ModalLoop /\ (q \o r)[2] = d
        BY <4>3, <4>4
      <4>6. q \o r = <<ModalLoop, d>>
        <5>1. PICK p : p = <<ModalLoop, d>>
          OBVIOUS
        <5>2. p \in Seq(Activities) /\ Len(p) = 2 /\ p[1] = ModalLoop /\ p[2] = d
          BY <2>7, <5>1
        <5>3. \A i \in 1..2 : i = 1 \/ i = 2
          OBVIOUS
        <5>4. \A i \in 1..Len(p) : (q \o r)[i] = p[i]
          BY <4>5, <5>2, <5>3
        <5>5. p = q \o r
          BY <4>4, <4>5, <5>2, <5>4, SeqEqual
        <5> QED
          BY <5>1, <5>5
      <4> QED
        BY <4>1, <4>2, <4>6
    <3> QED
      BY <2>8, <3>1, <3>3, <3>4
  <2>12. stack' \in Seq(Activities) /\ stack' # <<>> /\ stack'[1] = ModalLoop /\ InOrder(stack')
    BY <2>7, <2>8, <2>9, <2>10, <2>11, PushIs
  <2>13. LoopsOf(stack') <= MaxLoops
    <3>1. LoopsOf(stack) = LoopsOf(t) + (IF b.kind = "modal" THEN 1 ELSE 0) /\ LoopsOf(t) \in Nat
      BY <2>1, <2>2, <2>4, PopIs
    <3>2. LoopsOf(u) = LoopsOf(t) + (IF d.kind = "modal" THEN 1 ELSE 0) /\ LoopsOf(u) \in Nat
      <4>1. LoopsOf(u) = LoopsOf(t) + (IF d.kind = "modal" THEN 1 ELSE 0)
        BY <2>7, <2>8, LoopsOfPush
      <4> QED
        BY <2>8, <2>7, <4>1, LoopsOfPush
    <3>3. LoopsOf(stack') = LoopsOf(u) + (IF ModalLoop.kind = "modal" THEN 1 ELSE 0)
      BY <2>7, <2>8, <2>11, LoopsOfPush
    <3>4. LoopsOf(stack') = LoopsOf(stack) + 1 /\ LoopsOf(stack) \in Nat
      BY <2>3, <2>7, <3>1, <3>2, <3>3
    <3> QED
      BY <2>4, <3>4, BroadcastAssumption
  <2>14. "frame" \in alive \/ b.nested
    BY <2>3, <2>4, <2>6 DEF Fresh
  <2>15. deadCalls' \subseteq BOOLEAN /\ FALSE \notin deadCalls'
    BY <2>3, <2>4, <2>14
  <2>16. StackInv'
    BY <2>10, <2>12, <2>13, <2>15 DEF StackInv
  <2>17. \A m \in Calm : ~Runs(m) /\ ~Runs(m)'
    BY <2>3, <2>4, <2>7, <2>12, InCasting DEF Runs, Calm
  <2>18. UNCHANGED <<posted, loop, shutdown, quit, listeners, alive, dlgAbout, reader, frame>>
    BY DEF FrameOpens, mqVars
  <2> QED
    BY <2>4, <2>12, <2>15, <2>16, <2>17, <2>18, QuietKeeps
<1>2. CASE ~(Loops < MaxLoops)
  <2>1. Calls("frame", {"open", "new"}) /\ HandlerDone /\ alive \subseteq alive'
    BY <1>2 DEF FrameOpens
  <2>2. /\ stack' \in Seq(Activities) /\ StackInv'
        /\ deadCalls' \subseteq BOOLEAN
        /\ \A m \in Calm : ~Runs(m) /\ ~Runs(m)'
        /\ loop = "handler" /\ ~Has(posted, Begin)
    BY <2>1, CallStack
  <2>3. UNCHANGED <<posted, loop, shutdown, quit, listeners, alive, dlgAbout, reader, frame>>
    BY DEF FrameOpens, mqVars
  <2> QED
    BY <2>2, <2>3, QuietKeeps
<1> QED
  BY <1>1, <1>2

(* A listener registers at the end of the list.                            *)
LEMMA AppendIs ==
  ASSUME NEW s \in Seq(Everyone), IsInjective(s), NEW e \in Everyone, e \notin ToSet(s)
  PROVE  /\ Append(s, e) \in Seq(Everyone) /\ IsInjective(Append(s, e))
         /\ ToSet(Append(s, e)) = ToSet(s) \cup {e}
<1>1. PICK t : t = Append(s, e)
  OBVIOUS
<1>2. /\ t \in Seq(Everyone) /\ DOMAIN t = 1..(Len(s) + 1) /\ t[Len(s) + 1] = e
      /\ \A i \in 1..Len(s) : t[i] = s[i]
      /\ Len(s) \in Nat /\ DOMAIN s = 1..Len(s)
  BY <1>1, AppendProperties
<1>3. \A i \in DOMAIN t : \/ i \in DOMAIN s /\ t[i] = s[i]
                          \/ i = Len(s) + 1 /\ t[i] = e
  BY <1>2
<1>4. \A i \in DOMAIN s : i \in DOMAIN t /\ t[i] = s[i]
  BY <1>2
<1>5. Len(s) + 1 \in DOMAIN t /\ t[Len(s) + 1] = e
  BY <1>2
<1>6. IsInjective(t)
  BY <1>3 DEF IsInjective, ToSet
<1>7. ToSet(t) = ToSet(s) \cup {e}
  BY <1>3, <1>4, <1>5 DEF ToSet
<1> QED
  BY <1>1, <1>2, <1>6, <1>7

LEMMA JoinIs ==
  ASSUME NEW s \in Seq(Everyone), IsInjective(s), NEW t \in Seq(Everyone), IsInjective(t),
         ToSet(s) \cap ToSet(t) = {}
  PROVE  /\ s \o t \in Seq(Everyone) /\ IsInjective(s \o t)
         /\ ToSet(s \o t) = ToSet(s) \cup ToSet(t)
<1>1. PICK c : c = s \o t
  OBVIOUS
<1>2. /\ c \in Seq(Everyone) /\ Len(c) = Len(s) + Len(t)
      /\ DOMAIN c = 1..Len(c) /\ Len(s) \in Nat /\ Len(t) \in Nat
      /\ DOMAIN s = 1..Len(s) /\ DOMAIN t = 1..Len(t)
      /\ \A i \in 1..(Len(s) + Len(t)) : c[i] = IF i <= Len(s) THEN s[i] ELSE t[i - Len(s)]
  BY <1>1, ConcatProperties
<1>3. \A i \in DOMAIN c : \/ i \in DOMAIN s /\ c[i] = s[i]
                          \/ i - Len(s) \in DOMAIN t /\ c[i] = t[i - Len(s)]
  <2>1. TAKE i \in DOMAIN c
  <2>2. CASE i <= Len(s)
    BY <1>2, <2>2
  <2>3. CASE ~(i <= Len(s))
    <3>1. i - Len(s) \in 1..Len(t)
      BY <1>2, <2>3
    <3> QED
      BY <1>2, <2>3, <3>1
  <2> QED
    BY <2>2, <2>3
<1>4. \A i \in DOMAIN s : i \in DOMAIN c /\ c[i] = s[i]
  BY <1>2
<1>5. \A i \in DOMAIN t : i + Len(s) \in DOMAIN c /\ c[i + Len(s)] = t[i]
  <2>1. TAKE i \in DOMAIN t
  <2>2. /\ i + Len(s) \in 1..(Len(s) + Len(t)) /\ ~(i + Len(s) <= Len(s))
        /\ (i + Len(s)) - Len(s) = i
    BY <1>2
  <2> QED
    BY <1>2, <2>2
<1>6. IsInjective(c)
  <2>1. ASSUME NEW i \in DOMAIN c, NEW j \in DOMAIN c, c[i] = c[j]
        PROVE  i = j
    <3>1. CASE i \in DOMAIN s /\ c[i] = s[i] /\ j \in DOMAIN s /\ c[j] = s[j]
      BY <2>1, <3>1 DEF IsInjective
    <3>2. CASE /\ i - Len(s) \in DOMAIN t /\ c[i] = t[i - Len(s)]
               /\ j - Len(s) \in DOMAIN t /\ c[j] = t[j - Len(s)]
      <4>1. i - Len(s) = j - Len(s)
        BY <2>1, <3>2 DEF IsInjective
      <4> QED
        BY <1>2, <4>1
    <3> QED
      BY <1>3, <2>1, <3>1, <3>2 DEF ToSet
  <2> QED
    BY <2>1 DEF IsInjective
<1>7. ToSet(c) = ToSet(s) \cup ToSet(t)
  BY <1>3, <1>4, <1>5 DEF ToSet
<1> QED
  BY <1>1, <1>2, <1>6, <1>7

(* Objects of different kinds are different.                               *)
LEMMA Apart ==
  /\ Buttons \subseteq Everyone /\ ToolButtons \subseteq ToSet(Children)
  /\ ToolButtons \cap Panes = {} /\ Buttons \cap Panes = {}
  /\ Buttons \cap Readers = {} /\ Buttons \cap Elders = {} /\ Readers \cap Panes = {}
  /\ ToolButtons \cap DialogButtons = {} /\ None \notin Everyone
  /\ "frame" \in Elders /\ Readers \cap Elders = {} /\ DialogButtons \cap ToSet(Children) = {}
  /\ DialogButtons \cap Readers = {} /\ ToSet(Children) \cap Readers = {}
  /\ Panes \subseteq ToSet(Children) /\ ToSet(Children) \cap Elders = {}
  /\ ToSet(Children) \subseteq Everyone /\ Children \in Seq(Everyone) /\ IsInjective(Children)
<1>1. Children \in Seq(ToSet(Children)) /\ ToSet(Children) \subseteq Everyone
  BY BroadcastAssumption DEF Everyone
<1>2. Children \in Seq(Everyone)
  BY <1>1, SeqMonotonic
<1> QED
  BY <1>1, <1>2, BroadcastAssumption DEF Buttons, ToolButtons, Everyone, Elders

(* createChildren() is the first job: none of the children exists.         *)
LEMMA CreateChildrenKeeps ==
  ASSUME CastInv, CreateChildren
  PROVE  CastInv'
<1>1. /\ Running("job") /\ Head(stack).id = "createChildren" /\ stack' = Tail(stack)
      /\ listeners' = listeners \o Children /\ alive' = alive \cup ToSet(Children)
      /\ UNCHANGED <<posted, loop, shutdown, quit, dlgAbout, reader, frame, deadCalls>>
  BY DEF CreateChildren, mqVars
<1>2. /\ stack # <<>> /\ loop = "handler" /\ Head(stack) \in Activities /\ Head(stack).kind = "job"
      /\ ~Has(posted, Begin) /\ \A m : Runs(m) <=> m = Head(stack)
  BY <1>1, TopIs
<1>3. Head(stack) = Begin
  <2>1. Head(stack) \in Messages
    BY <1>2, InCasting DEF Calm
  <2> QED
    BY <1>1, <1>2, <2>1, Kinds DEF Begin
<1>4. stack' = <<>> /\ Youth
  BY <1>1, <1>2, <1>3 DEF CastInv, FirstInv
<1>5. /\ listeners' \in Seq(Everyone) /\ IsInjective(listeners')
      /\ Registered' = Registered \cup ToSet(Children)
  <2>1. listeners \in Seq(Everyone) /\ IsInjective(listeners)
        /\ ToSet(listeners) \cap ToSet(Children) = {}
    BY <1>4 DEF CastInv, BTypes, Youth, Registered
  <2> QED
    BY <1>1, <2>1, Apart, JoinIs DEF Registered
<1>6. BTypes'
  BY <1>1, <1>2, <1>4, <1>5, Apart DEF CastInv, BTypes
<1>7. StackInv'
  <2>1. FALSE \notin deadCalls'
    BY <1>1 DEF CastInv, StackInv
  <2> QED
    BY <1>1, <1>2, <2>1, PopStack
<1>8. RegisteredIsAlive'
  BY <1>1, <1>5 DEF CastInv, RegisteredIsAlive
<1>9. ~Runs(Begin)' /\ \A o \in Buttons : ~Runs(Suicide(o)) /\ ~Runs(Suicide(o))'
  BY <1>2, <1>4, Shapes DEF Runs
<1>10. FirstInv'
  BY <1>1, <1>2, <1>9 DEF CastInv, FirstInv
<1>11. PendingInv'
  <2>1. Zombies' = Zombies
    BY <1>1, <1>4, <1>5 DEF Zombies, Youth
  <2>2. Registered' \cap DialogButtons = Registered \cap DialogButtons
    BY <1>5, Apart
  <2>3. ToolButtons \cap alive' \subseteq Registered' \/ frame' # "open"
    BY <1>1, <1>5, Apart DEF CastInv, PendingInv
  <2> QED
    BY <1>1, <1>9, <2>1, <2>2, <2>3 DEF CastInv, PendingInv
<1>12. EndInv'
  BY <1>1, <1>2, <1>4 DEF CastInv, EndInv, Youth
<1> QED
  BY <1>6, <1>7, <1>8, <1>10, <1>11, <1>12 DEF CastInv

(* The button has no window and is not registered: only its job knew it.   *)
LEMMA RunSuicideKeeps ==
  ASSUME CastInv, RunSuicide
  PROVE  CastInv'
<1>1. /\ Running("suicide") /\ stack' = Tail(stack) /\ alive' = alive \ {Head(stack).of}
      /\ UNCHANGED <<posted, loop, shutdown, quit, listeners, dlgAbout, reader, frame, deadCalls>>
  BY DEF RunSuicide, mqVars
<1>2. /\ stack # <<>> /\ loop = "handler" /\ Head(stack) \in Activities /\ Head(stack).kind = "suicide"
      /\ ~Has(posted, Begin) /\ \A m : Runs(m) <=> m = Head(stack)
  BY <1>1, TopIs
<1>3. PICK o \in Buttons : Head(stack) = Suicide(o) /\ Head(stack).of = o
  <2>1. Head(stack) \in Messages
    BY <1>2, InCasting DEF Calm
  <2> QED
    BY <1>2, <2>1, Kinds
<1>4. /\ o \in alive /\ o \notin Registered /\ ~Has(posted, Suicide(o))
      /\ \A p \in Buttons : Runs(Suicide(p)) <=> p = o
  <2>1. \A p \in Buttons : Runs(Suicide(p)) <=> p = o
    BY <1>2, <1>3, Shapes
  <2>2. o \in Zombies /\ ~Has(posted, Suicide(o))
    BY <2>1 DEF CastInv, PendingInv
  <2> QED
    BY <2>1, <2>2 DEF Zombies
<1>5. stack' \in Seq(Activities) /\ StackInv' /\ \A m \in Calm : ~Runs(m)'
  <2>1. FALSE \notin deadCalls'
    BY <1>1 DEF CastInv, StackInv
  <2> QED
    BY <1>1, <1>2, <2>1, PopStack
<1>6. alive' = alive \ {o} /\ Registered' = Registered
  BY <1>1, <1>3 DEF Registered
<1>7. BTypes'
  BY <1>1, <1>2, <1>5, <1>6 DEF CastInv, BTypes
<1>8. RegisteredIsAlive'
  BY <1>1, <1>4, <1>6 DEF CastInv, RegisteredIsAlive
<1>9. FirstInv'
  BY <1>1, <1>2, <1>5, Kinds DEF CastInv, FirstInv
<1>10. PendingInv'
  <2>1. \A p \in Buttons : ~Runs(Suicide(p))'
    BY <1>5, Kinds
  <2>2. Zombies' = Zombies \ {o}
    BY <1>6 DEF Zombies
  <2>3. \A p \in Buttons : Has(posted, Suicide(p)) <=> p \in Zombies'
    BY <1>4, <2>2 DEF CastInv, PendingInv
  <2> QED
    BY <1>1, <1>6, <2>1, <2>3 DEF CastInv, PendingInv
<1>11. EndInv'
  BY <1>1, <1>2, <1>6 DEF CastInv, EndInv
<1> QED
  BY <1>5, <1>7, <1>8, <1>9, <1>10, <1>11 DEF CastInv

(* The old reader leaves and is deleted, the new one registers.            *)
LEMMA SetDatabaseKeeps ==
  ASSUME CastInv, SetDatabase
  PROVE  CastInv'
<1>1. PICK r \in Readers \ (alive \ {reader}) :
        /\ Running("job") /\ Head(stack).id = "setDatabase" /\ stack' = Tail(stack)
        /\ reader' = r /\ listeners' = Append(Without(listeners, {reader}), r)
        /\ alive' = (alive \ {reader}) \cup {r}
        /\ posted' = Append(posted, Cast("databaseChanged"))
        /\ UNCHANGED <<loop, shutdown, quit, dlgAbout, frame, deadCalls>>
  BY DEF SetDatabase, Post
<1>2. /\ stack # <<>> /\ loop = "handler" /\ Head(stack).kind = "job"
      /\ ~Has(posted, Begin) /\ \A m : Runs(m) <=> m = Head(stack)
  BY <1>1, TopIs
<1>3. stack' \in Seq(Activities) /\ StackInv' /\ \A m \in Calm : ~Runs(m)'
  <2>1. FALSE \notin deadCalls'
    BY <1>1 DEF CastInv, StackInv
  <2> QED
    BY <1>1, <1>2, <2>1, PopStack
<1>4. /\ posted' \in Seq(Messages \cup {ShutdownMsg}) /\ FirstOnly(posted') /\ Single(posted')
      /\ ~Has(posted', Begin)
      /\ \A o \in Buttons : Has(posted', Suicide(o)) <=> Has(posted, Suicide(o))
  <2>1. \E e \in Messages \cup {ShutdownMsg} :
              /\ e # Begin /\ \A o \in Buttons : e # Suicide(o)
              /\ posted' = Append(posted, e)
    BY <1>1, PostedKinds
  <2> QED
    BY <1>2, <2>1, PostIs
<1>5. /\ reader \in Readers \cup {None} /\ r \in Everyone /\ r \in Readers
      /\ Registered \subseteq alive
  BY <1>1 DEF CastInv, BTypes, Everyone, RegisteredIsAlive
<1>6. PICK w : w = Without(listeners, {reader})
  OBVIOUS
<1>7. w \in Seq(Everyone) /\ IsInjective(w) /\ ToSet(w) = Registered \ {reader}
  BY <1>6, WithoutIs DEF CastInv, BTypes, Registered
<1>8. r \notin ToSet(w)
  BY <1>1, <1>5, <1>7
<1>9. /\ listeners' \in Seq(Everyone) /\ IsInjective(listeners')
      /\ Registered' = (Registered \ {reader}) \cup {r}
  BY <1>1, <1>5, <1>6, <1>7, <1>8, AppendIs DEF Registered
<1>10. BTypes'
  BY <1>1, <1>2, <1>3, <1>4, <1>5, <1>9 DEF CastInv, BTypes
<1>11. RegisteredIsAlive'
  <2>1. Registered' \subseteq alive'
    BY <1>1, <1>5, <1>9
  <2>2. dlgAbout # None => dlgAbout \in Registered'
    BY <1>5, <1>9, Apart DEF CastInv, BTypes, RegisteredIsAlive
  <2> QED
    BY <1>1, <1>9, <2>1, <2>2 DEF RegisteredIsAlive
<1>12. FirstInv'
  BY <1>3, <1>4, Kinds DEF FirstInv
<1>13. PendingInv'
  <2>1. \A o \in Buttons : ~Runs(Suicide(o)) /\ ~Runs(Suicide(o))'
    BY <1>2, <1>3, Kinds, Shapes
  <2>2. reader \notin Buttons /\ r \notin Buttons
    BY <1>5, Apart
  <2>3. Zombies' = Zombies
    BY <1>1, <1>9, <2>2 DEF Zombies
  <2>4. Registered' \cap DialogButtons = Registered \cap DialogButtons
    BY <1>5, <1>9, <2>2 DEF Buttons
  <2>5. frame' = "open" => ToolButtons \cap alive' \subseteq Registered'
    BY <1>1, <1>9, <2>2 DEF CastInv, PendingInv, Buttons
  <2> QED
    BY <1>1, <1>4, <2>1, <2>3, <2>4, <2>5 DEF CastInv, PendingInv
<1>14. EndInv'
  BY <1>1, <1>2, <1>5, Apart DEF CastInv, EndInv
<1> QED
  BY <1>3, <1>10, <1>11, <1>12, <1>13, <1>14 DEF CastInv

(* Help makes a dialog whose button registers.                             *)
LEMMA HelpAboutKeeps ==
  ASSUME CastInv, HelpAbout
  PROVE  CastInv'
<1>1. /\ Calls("help", {"about"}) /\ HandlerDone
      /\ UNCHANGED <<posted, loop, shutdown, quit, reader, frame>>
  BY DEF HelpAbout, mqVars
<1>2. alive \subseteq alive'
  BY DEF HelpAbout
<1>3. /\ stack' \in Seq(Activities) /\ StackInv'
      /\ deadCalls' \subseteq BOOLEAN
      /\ \A m \in Calm : ~Runs(m) /\ ~Runs(m)'
      /\ loop = "handler" /\ ~Has(posted, Begin)
  BY <1>1, <1>2, CallStack
<1>4. CASE dlgAbout # None
  <2>1. UNCHANGED <<dlgAbout, listeners, alive>>
    BY <1>4 DEF HelpAbout
  <2> QED
    BY <1>1, <1>3, <2>1, QuietKeeps
<1>5. CASE dlgAbout = None
  <2>1. PICK o \in DialogButtons \ alive :
          dlgAbout' = o /\ listeners' = Append(listeners, o) /\ alive' = alive \cup {o}
    BY <1>5 DEF HelpAbout
  <2>2. /\ listeners' \in Seq(Everyone) /\ IsInjective(listeners')
        /\ Registered' = Registered \cup {o}
    <3>1. o \in Everyone /\ listeners \in Seq(Everyone) /\ IsInjective(listeners)
          /\ o \notin ToSet(listeners)
      BY <2>1 DEF CastInv, BTypes, RegisteredIsAlive, Registered, Everyone
    <3> QED
      BY <2>1, <3>1, AppendIs DEF Registered
  <2>3. BTypes'
    BY <1>1, <1>3, <2>1, <2>2 DEF CastInv, BTypes, Everyone
  <2>4. RegisteredIsAlive'
    BY <1>1, <2>1, <2>2 DEF CastInv, RegisteredIsAlive
  <2>5. FirstInv'
    BY <1>1, <1>3, Kinds DEF CastInv, FirstInv
  <2>6. PendingInv'
    <3>1. \A p \in Buttons : ~Runs(Suicide(p)) /\ ~Runs(Suicide(p))'
      BY <1>3, Kinds
    <3>2. Zombies' = Zombies
      BY <2>1, <2>2 DEF Zombies
    <3>3. Registered' \cap DialogButtons = {dlgAbout'} \ {None}
      BY <1>5, <2>1, <2>2, Apart DEF CastInv, PendingInv, Everyone
    <3>4. frame' = "open" => ToolButtons \cap alive' \subseteq Registered'
      BY <1>1, <2>1, <2>2 DEF CastInv, PendingInv
    <3> QED
      BY <1>1, <3>1, <3>2, <3>3, <3>4 DEF CastInv, PendingInv
  <2>7. EndInv'
    BY <1>1, <1>3, <2>1, Apart DEF CastInv, EndInv
  <2> QED
    BY <1>3, <2>3, <2>4, <2>5, <2>6, <2>7 DEF CastInv
<1> QED
  BY <1>4, <1>5

(* The dialog goes, and its button with it: it leaves the listeners and    *)
(* posts its suicide.                                                      *)
LEMMA DialogCloseKeeps ==
  ASSUME CastInv, DialogClose
  PROVE  CastInv'
<1>1. /\ Running("window") /\ stack' = Tail(stack) /\ dlgAbout' = None
      /\ listeners' = Without(listeners, DialogButton)
      /\ posted' = posted \o LastWords(DialogButton)
      /\ UNCHANGED <<loop, shutdown, quit, alive, reader, frame, deadCalls>>
  BY DEF DialogClose
<1>2. /\ stack # <<>> /\ loop = "handler" /\ Head(stack).kind = "window"
      /\ ~Has(posted, Begin) /\ \A m : Runs(m) <=> m = Head(stack)
  BY <1>1, TopIs
<1>3. stack' \in Seq(Activities) /\ StackInv' /\ \A m \in Calm : ~Runs(m)'
  <2>1. FALSE \notin deadCalls'
    BY <1>1 DEF CastInv, StackInv
  <2> QED
    BY <1>1, <1>2, <2>1, PopStack
<1>4. PICK D : D = DialogButton
  OBVIOUS
<1>5. /\ D = {dlgAbout} \ {None} /\ D \subseteq DialogButtons /\ D \subseteq Buttons
      /\ D \subseteq Registered /\ D \subseteq alive /\ D \cap Zombies = {}
  BY <1>4 DEF DialogButton, CastInv, BTypes, Buttons, RegisteredIsAlive, Zombies
<1>6. IsFiniteSet(D)
  <2>1. IsFiniteSet({dlgAbout})
    BY FS_Singleton
  <2> QED
    BY <1>5, <2>1, FS_Subset
<1>7. PICK w : w = LastWords(D)
  OBVIOUS
<1>8. w \in Seq(Messages) /\ Single(w) /\ \A m : Has(w, m) <=> \E o \in D : m = Suicide(o)
  BY <1>5, <1>6, <1>7, LastWordsAre
<1>9. /\ posted \in Seq(Messages \cup {ShutdownMsg}) /\ w \in Seq(Messages \cup {ShutdownMsg})
      /\ FirstOnly(posted) /\ Single(posted)
  BY <1>8, SeqMonotonic DEF CastInv, BTypes, FirstInv, PendingInv
<1>10. \A o \in Buttons : Runs(Suicide(o)) \/ Runs(Suicide(o))' => FALSE
  BY <1>2, <1>3, Kinds, Shapes
<1>11. \A o \in Buttons : (Has(w, Suicide(o)) <=> o \in D) /\ Suicide(o) # Begin
  <2>1. Begin.kind = "job"
    BY DEF Begin, Job
  <2> QED
    BY <1>8, <2>1, Shapes
<1>12. \A o \in Buttons : ~(Has(posted, Suicide(o)) /\ Has(w, Suicide(o)))
  BY <1>5, <1>10, <1>11 DEF CastInv, PendingInv
<1>13. ~Has(w, Begin)
  BY <1>5, <1>8, <1>11
<1>14. posted' = posted \o w
  BY <1>1, <1>4, <1>7
<1>15. /\ posted' \in Seq(Messages \cup {ShutdownMsg}) /\ FirstOnly(posted') /\ Single(posted')
       /\ \A m : Has(posted', m) <=> Has(posted, m) \/ Has(w, m)
  <2> DEFINE M == Messages \cup {ShutdownMsg}
  <2>1. posted \in Seq(M) /\ w \in Seq(M)
    BY <1>9
  <2>2. posted' \in Seq(M)
    BY <1>14, <2>1, JoinHas
  <2> HIDE DEF M
  <2>3. \A m : Has(posted \o w, m) <=> Has(posted, m) \/ Has(w, m)
    BY <2>1, JoinHas
  <2>4. FirstOnly(posted \o w) /\ Single(posted \o w)
    BY <1>8, <1>9, <1>12, <1>13, <2>1, JoinHas
  <2> QED
    BY <1>14, <2>2, <2>3, <2>4 DEF M
<1>16. /\ listeners' \in Seq(Everyone) /\ IsInjective(listeners')
       /\ Registered' = Registered \ D
  BY <1>1, <1>4, WithoutIs DEF CastInv, BTypes, Registered
<1>17. BTypes'
  BY <1>1, <1>2, <1>3, <1>15, <1>16 DEF CastInv, BTypes
<1>18. RegisteredIsAlive'
  BY <1>1, <1>5, <1>16, Apart DEF CastInv, RegisteredIsAlive, BTypes
<1>19. FirstInv'
  BY <1>2, <1>3, <1>13, <1>15, Kinds DEF FirstInv
<1>20. PendingInv'
  <2>1. Zombies' = Zombies \cup D
    BY <1>1, <1>5, <1>16 DEF Zombies
  <2>2. \A o \in Buttons : Has(posted', Suicide(o)) <=> o \in Zombies'
    BY <1>10, <1>11, <1>15, <2>1 DEF CastInv, PendingInv
  <2>3. Registered' \cap DialogButtons = {dlgAbout'} \ {None}
    BY <1>1, <1>5, <1>16 DEF CastInv, PendingInv
  <2>4. frame' = "open" => ToolButtons \cap alive' \subseteq Registered'
    BY <1>1, <1>5, <1>16, Apart DEF CastInv, PendingInv
  <2> QED
    BY <1>10, <1>15, <2>2, <2>3, <2>4 DEF PendingInv
<1>21. EndInv'
  BY <1>1, <1>2 DEF CastInv, EndInv
<1> QED
  BY <1>3, <1>17, <1>18, <1>19, <1>20, <1>21 DEF CastInv

(* The frame goes: the panes are deleted, and every button that exists     *)
(* leaves the listeners and posts its suicide.                             *)
LEMMA DestroyFrameKeeps ==
  ASSUME CastInv, Running("window"), stack' = Tail(stack), frame = "open", DestroyFrame
  PROVE  CastInv'
<1> DEFINE Gone == {"frame"} \cup Panes \cup Buttons
<1>1. /\ frame' = "destroyed" /\ shutdown' = TRUE /\ dlgAbout' = None
      /\ listeners' = Without(listeners, Gone) /\ alive' = alive \ Panes
      /\ posted' = (posted \o <<ShutdownMsg>>) \o LastWords(DialogButton \cup (ToolButtons \cap alive))
      /\ UNCHANGED <<loop, quit, reader, deadCalls>>
  BY DEF DestroyFrame
<1>2. /\ stack # <<>> /\ loop = "handler" /\ Head(stack).kind = "window"
      /\ ~Has(posted, Begin) /\ \A m : Runs(m) <=> m = Head(stack)
  BY TopIs
<1>3. stack' \in Seq(Activities) /\ StackInv' /\ \A m \in Calm : ~Runs(m)'
  <2>1. FALSE \notin deadCalls'
    BY <1>1 DEF CastInv, StackInv
  <2> QED
    BY <1>2, <2>1, PopStack
<1>4. PICK D : D = DialogButton \cup (ToolButtons \cap alive)
  OBVIOUS
<1>5. /\ D = ({dlgAbout} \ {None}) \cup (ToolButtons \cap alive)
      /\ D \subseteq Buttons /\ D \subseteq Registered /\ D \subseteq alive /\ D \cap Zombies = {}
  BY <1>4 DEF DialogButton, CastInv, BTypes, Buttons, RegisteredIsAlive, PendingInv, Zombies
<1>6. IsFiniteSet(D)
  <2>1. IsFiniteSet({dlgAbout})
    BY FS_Singleton
  <2>2. PICK n \in Nat : n = Len(Children) /\ DOMAIN Children = 1..n
    BY Apart
  <2>3. IsFiniteSet(1..n)
    BY <2>2, FS_Interval
  <2>4. Children \in Surjection(1..n, ToSet(Children))
    BY <2>2, BroadcastAssumption DEF Surjection, ToSet
  <2>5. IsFiniteSet(ToSet(Children))
    BY <2>3, <2>4, FS_Surjection
  <2>6. IsFiniteSet({dlgAbout} \cup ToSet(Children))
    BY <2>1, <2>5, FS_Union
  <2>7. D \in SUBSET ({dlgAbout} \cup ToSet(Children))
    BY <1>5, Apart
  <2> QED
    BY <2>6, <2>7, FS_Subset
<1>7. PICK w : w = LastWords(D)
  OBVIOUS
<1>8. w \in Seq(Messages) /\ Single(w) /\ \A m : Has(w, m) <=> \E o \in D : m = Suicide(o)
  <2>1. D \in SUBSET Buttons
    BY <1>5
  <2>2. LastWords(D) \in Seq(Messages) /\ Single(LastWords(D))
    BY <1>6, <2>1, LastWordsAre
  <2>3. \A m : Has(LastWords(D), m) <=> \E o \in D : m = Suicide(o)
    BY <1>6, <2>1, LastWordsAre
  <2> QED
    BY <1>7, <2>2, <2>3
<1> DEFINE M == Messages \cup {ShutdownMsg}
<1>9. posted \in Seq(M) /\ w \in Seq(M) /\ FirstOnly(posted) /\ Single(posted)
  BY <1>8, SeqMonotonic DEF CastInv, BTypes, FirstInv, PendingInv
<1>10. \A o \in Buttons : ~Runs(Suicide(o)) /\ ~Runs(Suicide(o))'
  BY <1>2, <1>3, Kinds, Shapes
<1>11. \A o \in Buttons : (Has(w, Suicide(o)) <=> o \in D) /\ Suicide(o) # Begin
  <2>1. Begin.kind = "job"
    BY DEF Begin, Job
  <2> QED
    BY <1>8, <2>1, Shapes
<1>12. \A o \in Buttons : ~(Has(posted, Suicide(o)) /\ Has(w, Suicide(o)))
  BY <1>5, <1>10, <1>11 DEF CastInv, PendingInv
<1>13. ~Has(w, Begin)
  BY <1>5, <1>8, <1>11
<1>14. PICK p : p = posted \o <<ShutdownMsg>>
  OBVIOUS
<1>15. /\ p \in Seq(M) /\ FirstOnly(p) /\ Single(p) /\ ~Has(p, Begin)
       /\ \A o \in Buttons : Has(p, Suicide(o)) <=> Has(posted, Suicide(o))
  <2>1. ShutdownMsg # Begin /\ \A o \in Buttons : ShutdownMsg # Suicide(o)
    BY PostedKinds
  <2>2. ShutdownMsg \in M
    OBVIOUS
  <2> HIDE DEF M
  <2>3. p = Append(posted, ShutdownMsg) /\ p \in Seq(M)
    BY <1>9, <1>14, <2>2, AppendHas
  <2>4. \A m : Has(Append(posted, ShutdownMsg), m) <=> Has(posted, m) \/ m = ShutdownMsg
    BY <1>9, <2>2, AppendHas
  <2>5. FirstOnly(Append(posted, ShutdownMsg)) /\ Single(Append(posted, ShutdownMsg))
    BY <1>9, <2>1, <2>2, AppendHas
  <2> QED
    BY <1>2, <2>1, <2>3, <2>4, <2>5
<1>16. posted' = p \o w
  BY <1>1, <1>4, <1>7, <1>14
<1>17. /\ posted' \in Seq(M) /\ FirstOnly(posted') /\ Single(posted')
       /\ \A m : Has(posted', m) <=> Has(p, m) \/ Has(w, m)
  <2> HIDE DEF M
  <2>1. p \o w \in Seq(M)
    BY <1>9, <1>15, JoinHas
  <2>2. \A m : Has(p \o w, m) <=> Has(p, m) \/ Has(w, m)
    BY <1>9, <1>15, JoinHas
  <2>3. FirstOnly(p \o w) /\ Single(p \o w)
    BY <1>8, <1>9, <1>12, <1>13, <1>15, JoinHas
  <2> QED
    BY <1>16, <2>1, <2>2, <2>3
<1>18. /\ listeners' \in Seq(Everyone) /\ IsInjective(listeners')
       /\ Registered' = Registered \ Gone
  BY <1>1, WithoutIs DEF CastInv, BTypes, Registered
<1>19. BTypes'
  BY <1>1, <1>2, <1>3, <1>17, <1>18 DEF CastInv, BTypes
<1>20. RegisteredIsAlive'
  BY <1>1, <1>18, Apart DEF CastInv, RegisteredIsAlive, BTypes
<1>21. FirstInv'
  BY <1>3, <1>13, <1>15, <1>17, Kinds DEF FirstInv
<1>22. PendingInv'
  <2>1. Zombies' = Zombies \cup D
    <3>1. Zombies' = alive \cap Buttons
      BY <1>1, <1>18, Apart DEF Zombies
    <3>2. alive \cap Registered \cap Buttons = D
      BY <1>5 DEF CastInv, PendingInv, Buttons
    <3> QED
      BY <3>1, <3>2 DEF Zombies
  <2>2. \A o \in Buttons : Has(posted', Suicide(o)) <=> o \in Zombies'
    BY <1>10, <1>11, <1>15, <1>17, <2>1 DEF CastInv, PendingInv
  <2>3. Registered' \cap DialogButtons = {dlgAbout'} \ {None}
    BY <1>1, <1>18 DEF Buttons
  <2> QED
    BY <1>1, <1>10, <1>17, <2>2, <2>3 DEF PendingInv
<1>23. EndInv'
  BY <1>1, <1>2 DEF CastInv, EndInv
<1> QED
  BY <1>3, <1>19, <1>20, <1>21, <1>22, <1>23 DEF CastInv

LEMMA CloseFrameKeeps ==
  ASSUME CastInv, CloseFrame
  PROVE  CastInv'
<1>1. Running("window") /\ stack' = Tail(stack)
  BY DEF CloseFrame
<1>2. CASE frame = "open"
  <2>1. DestroyFrame
    BY <1>2 DEF CloseFrame
  <2> QED
    BY <1>1, <1>2, <2>1, DestroyFrameKeeps
<1>3. CASE frame # "open"
  <2>1. UNCHANGED <<posted, loop, shutdown, quit, listeners, alive, dlgAbout, reader, frame,
                    deadCalls>>
    BY <1>3 DEF CloseFrame, mqVars
  <2>2. /\ stack # <<>> /\ loop = "handler" /\ Head(stack).kind = "window"
        /\ ~Has(posted, Begin) /\ \A m : Runs(m) <=> m = Head(stack)
    BY <1>1, TopIs
  <2>3. FALSE \notin deadCalls' /\ deadCalls' \subseteq BOOLEAN
    BY <2>1 DEF CastInv, BTypes, StackInv
  <2>4. stack' \in Seq(Activities) /\ StackInv' /\ \A m \in Calm : ~Runs(m)'
    BY <1>1, <2>2, <2>3, PopStack
  <2>5. Begin.kind = "job"
    BY DEF Begin, Job
  <2>6. \A m \in Calm : m = Begin \/ m.kind = "suicide" => ~Runs(m) /\ ~Runs(m)'
    BY <2>2, <2>4, <2>5
  <2> QED
    BY <2>1, <2>2, <2>3, <2>4, <2>6, QuietKeeps
<1> QED
  BY <1>2, <1>3

---------------------------------------------------------------------------
LEMMA CastBegins == CastInit => CastInv
<1> SUFFICES ASSUME CastInit
             PROVE  CastInv
  OBVIOUS
<1>1. /\ posted = <<Begin>> /\ loop = "handler" /\ shutdown = FALSE /\ quit = FALSE
      /\ listeners = <<"skin", "help", "frame">> /\ alive = ToSet(listeners)
      /\ stack = <<>> /\ dlgAbout = None /\ reader = None /\ frame = "open" /\ deadCalls = {}
  BY DEF CastInit, Begin
<1>2. Begin \in Messages /\ Begin.kind = "job"
  BY Kinds DEF Calm, Begin, Job
<1>3. listeners \in Seq(Everyone) /\ IsInjective(listeners) /\ Registered = Elders
  <2>1. "skin" \in Everyone /\ "help" \in Everyone /\ "frame" \in Everyone
    BY DEF Everyone, Elders
  <2>2. listeners \in Seq(Everyone)
    BY <1>1, <2>1
  <2>3. DOMAIN listeners = {1, 2, 3} /\ listeners[1] = "skin" /\ listeners[2] = "help"
        /\ listeners[3] = "frame"
    BY <1>1
  <2> QED
    BY <2>2, <2>3 DEF IsInjective, Registered, ToSet, Elders
<1>4. BTypes
  <2>1. \A m \in Messages \cup {ShutdownMsg} : <<m>> \in Seq(Messages \cup {ShutdownMsg})
    OBVIOUS
  <2>2. posted \in Seq(Messages \cup {ShutdownMsg})
    BY <1>1, <1>2, <2>1
  <2>3. alive \subseteq Everyone
    BY <1>1, <1>3 DEF Registered, Everyone
  <2>4. stack \in Seq(Activities)
    BY <1>1
  <2>5. /\ loop \in {"get", "handler", "check", "exited"} /\ shutdown \in BOOLEAN
        /\ quit \in BOOLEAN /\ frame \in {"open", "destroyed"} /\ deadCalls \subseteq BOOLEAN
        /\ dlgAbout \in DialogButtons \cup {None} /\ reader \in Readers \cup {None}
    BY <1>1
  <2> QED
    BY <1>1, <1>3, <2>2, <2>3, <2>4, <2>5 DEF BTypes
<1>5. StackInv
  <2>1. DOMAIN stack = {}
    BY <1>1
  <2>2. LoopsOf(stack) = 0
    BY <2>1, FS_EmptySet DEF LoopsOf
  <2> QED
    BY <1>1, <2>1, <2>2, BroadcastAssumption DEF StackInv, InOrder
<1>6. RegisteredIsAlive
  BY <1>1 DEF RegisteredIsAlive, Registered
<1>7. FirstInv
  <2>1. Registered = Elders /\ alive = Elders
    BY <1>1, <1>3 DEF Registered
  <2>2. Youth
    BY <1>1, <2>1, Apart DEF Youth
  <2>3. DOMAIN posted = {1}
    BY <1>1
  <2> QED
    BY <1>1, <2>2, <2>3 DEF FirstInv, FirstOnly, Runs
<1>8. PendingInv
  <2>1. DOMAIN posted = {1} /\ posted[1] = Begin
    BY <1>1
  <2>2. \A o \in Buttons : ~Has(posted, Suicide(o)) /\ ~Runs(Suicide(o))
    BY <1>1, <1>2, <2>1, Shapes DEF Has, Runs
  <2>3. Single(posted)
    BY <2>1 DEF Single
  <2>4. Zombies = {} /\ Registered = Elders /\ alive = Elders
    BY <1>1, <1>3 DEF Zombies, Registered
  <2>5. Registered \cap DialogButtons = {}
    BY <2>4, Apart DEF Buttons
  <2> QED
    BY <1>1, <2>2, <2>3, <2>4, <2>5 DEF PendingInv
<1>9. EndInv
  BY <1>1 DEF EndInv
<1> QED
  BY <1>4, <1>5, <1>6, <1>7, <1>8, <1>9 DEF CastInv

LEMMA CastSteps == CastInv /\ [CastNext]_castVars => CastInv'
<1> SUFFICES ASSUME CastInv, [CastNext]_castVars
             PROVE  CastInv'
  OBVIOUS
<1>1. CASE Get \/ ModalGet
  BY <1>1, TakeKeeps
<1>2. CASE ModalEnds \/ Finish \/ DialogCommand
  BY <1>2, EndsKeeps
<1>3. CASE PostCommand \/ Opened \/ Returns \/ Loop
  BY <1>3, PostersKeep
<1>4. CASE CreateChildren \/ SetDatabase \/ RunSuicide
  BY <1>4, CreateChildrenKeeps, SetDatabaseKeeps, RunSuicideKeeps
<1>5. CASE CloseFrame \/ DialogClose
  BY <1>5, CloseFrameKeeps, DialogCloseKeeps
<1>6. CASE FrameOpens \/ FrameExits \/ HelpAbout \/ HelpOK \/ Quiet
  BY <1>6, FrameOpensKeeps, FrameExitsKeeps, HelpAboutKeeps, HelpOKKeeps, QuietStep
<1>7. CASE UNCHANGED castVars
  <2>1. UNCHANGED <<posted, loop, shutdown, quit, listeners, alive, stack, dlgAbout, reader,
                    frame, deadCalls>>
    BY <1>7 DEF castVars, bVars, mqVars
  <2>2. (\A m : Runs(m)' <=> Runs(m)) /\ Zombies' = Zombies /\ Registered' = Registered
        /\ (Youth' <=> Youth)
    BY <2>1 DEF Runs, Zombies, Registered, Youth
  <2>3. stack # <<>> => ((Fresh(stack[1]))' <=> Fresh(stack[1]))
    BY <2>1 DEF Fresh
  <2>4. BTypes' /\ StackInv'
    BY <2>1, <2>3 DEF CastInv, BTypes, StackInv
  <2>5. RegisteredIsAlive' /\ FirstInv' /\ PendingInv' /\ EndInv'
    BY <2>1, <2>2 DEF CastInv, RegisteredIsAlive, FirstInv, PendingInv, EndInv
  <2> QED
    BY <2>4, <2>5 DEF CastInv
<1> QED
  BY <1>1, <1>2, <1>3, <1>4, <1>5, <1>6, <1>7 DEF CastNext, Dispatch

---------------------------------------------------------------------------
(* Whoever is registered or known to Help and Application exists, a        *)
(* deleted listener is called only by a broadcast one of whose handlers    *)
(* ran a modal loop, and nothing is left when the application ends: for    *)
(* any panes and buttons, any commands and any depth of modal loops.       *)
THEOREM WhoListensLives == CastSpec => []ListenersLive
<1>1. CastInv => ListenersLive
  <2> SUFFICES ASSUME CastInv
               PROVE  ListenersLive
    OBVIOUS
  <2>1. Loops = LoopsOf(stack)
    BY DEF Loops, LoopsOf
  <2>2. BroadcastTypeOK
    BY <2>1 DEF CastInv, BTypes, StackInv, BroadcastTypeOK, Everyone
  <2>3. RegisteredIsAlive /\ DeadCallsAreNested
    BY DEF CastInv, StackInv, DeadCallsAreNested
  <2>4. QuitLeavesNoZombie
    <3>1. SUFFICES ASSUME loop = "exited"
                   PROVE  posted = <<>> /\ Zombies = {} /\ Panes \cap alive = {}
      BY DEF QuitLeavesNoZombie
    <3>2. posted = <<>> /\ stack = <<>> /\ Panes \cap alive = {}
      BY <3>1 DEF CastInv, EndInv, BTypes
    <3>3. DOMAIN posted = {}
      BY <3>2
    <3>4. \A o \in Buttons : o \notin Zombies
      BY <3>2, <3>3 DEF CastInv, PendingInv, Has, Runs
    <3> QED
      BY <3>2, <3>4 DEF Zombies
  <2> QED
    BY <2>2, <2>3, <2>4 DEF ListenersLive
<1> QED
  BY <1>1, CastBegins, CastSteps, PTL DEF CastSpec

(* A step that leaves the stack without its head ends the broadcast.       *)
LEMMA OnlyFinishEnds ==
  ASSUME CastInv, [CastNext]_castVars, Running("broadcast"), stack' = Tail(stack)
  PROVE  Finish
<1>1. /\ stack # <<>> /\ loop = "handler" /\ Head(stack).kind = "broadcast"
      /\ Head(stack) \in Activities /\ Tail(stack) \in Seq(Activities)
      /\ Head(stack) = stack[1] /\ InTurn(Head(stack))
  BY TopIs
<1>2. PICK b \in Casting : b = Head(stack)
  BY <1>1, InCasting
<1>3. PICK t \in Seq(Activities) : t = Tail(stack)
  BY <1>1
<1>4. stack' # stack
  <2>1. Len(Tail(stack)) = Len(stack) - 1 /\ Len(stack) \in Nat
    BY <1>1, HeadTailProperties DEF CastInv, BTypes
  <2> QED
    BY <2>1
<1>5. \A x \in Seq(Activities) : x # <<>> => x \o t # t
  BY ConcatEqualIffEmpty
<1>6. \A a \in Activities : <<a>> \o t # t
  <2>1. \A a \in Activities : <<a>> \in Seq(Activities) /\ <<a>> # <<>>
    OBVIOUS
  <2> QED
    BY <1>5, <2>1
<1>7. \A o, ids : Calls(o, ids) => ~HandlerDone
  <2>1. SUFFICES ASSUME NEW o, NEW ids, Calls(o, ids), HandlerDone
                 PROVE  FALSE
    OBVIOUS
  <2>2. Len(b.heard) < Len(b.clone) /\ InTurn(b)
    BY <1>1, <1>2, <2>1 DEF Calls, Audience
  <2>3. Called(b) \in Activities
    BY <2>2, CalledIs DEF Activities
  <2>4. stack' = <<Called(b)>> \o t
    BY <1>2, <1>3, <2>1 DEF HandlerDone
  <2> QED
    BY <1>3, <1>6, <2>3, <2>4
<1>8. ~FrameOpens
  <2>1. SUFFICES ASSUME FrameOpens
                 PROVE  FALSE
    OBVIOUS
  <2>2. Len(b.heard) < Len(b.clone) /\ InTurn(b)
    BY <1>1, <1>2, <2>1 DEF FrameOpens, Calls, Audience
  <2>3. PICK d \in Activities : d = [Called(b) EXCEPT !.nested = TRUE]
    BY <2>2, CalledIs DEF Activities
  <2>4. stack' = <<ModalLoop, d>> \o t
    BY <1>2, <1>3, <1>7, <2>1, <2>3 DEF FrameOpens
  <2>5. PICK x : x = <<ModalLoop, d>>
    OBVIOUS
  <2>6. ModalLoop \in Activities
    BY DEF Activities
  <2>7. x \in Seq(Activities) /\ x # <<>>
    BY <2>5, <2>6
  <2> QED
    BY <1>3, <1>5, <2>4, <2>5, <2>7
<1>9. ~FrameExits /\ ~HelpAbout /\ ~HelpOK /\ ~Quiet
  BY <1>7 DEF FrameExits, HelpAbout, HelpOK, Quiet
<1>10. \A kind : Running(kind) => kind = "broadcast"
  BY <1>1 DEF Running
<1>11. /\ ~CreateChildren /\ ~SetDatabase /\ ~RunSuicide /\ ~CloseFrame /\ ~DialogCommand
       /\ ~DialogClose /\ ~ModalGet /\ ~ModalEnds
  BY <1>10 DEF CreateChildren, SetDatabase, RunSuicide, CloseFrame, DialogCommand, DialogClose,
               ModalGet, ModalEnds
<1>12. ~Get /\ ~Returns /\ ~Loop
  BY <1>1 DEF Get, GetMessage, Returns, Loop, CheckShutdown, LoopEnds
<1>13. ~PostCommand /\ ~Opened /\ ~UNCHANGED castVars
  BY <1>4 DEF PostCommand, Opened, castVars, bVars
<1> QED
  BY <1>8, <1>9, <1>11, <1>12, <1>13 DEF CastNext, Dispatch

(* A broadcast that ends has called, exactly once, everyone who was        *)
(* registered when it began and still is, though handlers register and     *)
(* delete listeners and modal loops dispatch other broadcasts inside it.   *)
THEOREM NobodyIsMissed == CastSpec => EveryoneHears
<1>1. CastInv /\ [CastNext]_castVars =>
        [(Running("broadcast") /\ stack' = Tail(stack)) => HeardOnce(Head(stack))]_castVars
  <2> SUFFICES ASSUME CastInv, [CastNext]_castVars, Running("broadcast"), stack' = Tail(stack)
               PROVE  HeardOnce(Head(stack))
    OBVIOUS
  <2>1. PICK b \in Casting : b = Head(stack)
    BY TopIs, InCasting
  <2>2. /\ InTurn(b) /\ Len(b.heard) >= Len(b.clone)
        /\ b.clone \in Seq(Everyone) /\ b.heard \in Seq(Everyone) /\ b.kind = "broadcast"
    BY <2>1, TopIs, OnlyFinishEnds DEF Finish, Audience, Casting
  <2>3. /\ Len(b.heard) = Len(b.clone) /\ IsInjective(b.clone)
        /\ \A k \in DOMAIN b.heard : b.heard[k] = b.clone[k]
    BY <2>2 DEF InTurn
  <2>4. DOMAIN b.heard = DOMAIN b.clone
    BY <2>2, <2>3
  <2>5. ASSUME NEW o \in ToSet(b.clone)
        PROVE  Cardinality({i \in DOMAIN b.heard : b.heard[i] = o}) = 1
    <3>1. PICK k \in DOMAIN b.clone : b.clone[k] = o
      BY <2>5 DEF ToSet
    <3>2. {i \in DOMAIN b.heard : b.heard[i] = o} = {k}
      BY <2>3, <2>4, <3>1 DEF IsInjective
    <3> QED
      BY <3>2, FS_Singleton
  <2> QED
    BY <2>1, <2>5 DEF HeardOnce
<1> QED
  BY <1>1, CastBegins, CastSteps, PTL DEF CastSpec, EveryoneHears

-----------------------------------------------------------------------------
(***************************************************************************)
(* The main window: no message reaches an object that is deleted, one      *)
(* dialog at most disables the frame, and its panels cover it.             *)
(***************************************************************************)
(* What can be in the queue of the frame.                                  *)
Jobs == {Thread(m) : m \in {"createFrame", "createChildren"} \union FrameCommands}
Asked == {To(w, m) : w \in {"frame"} \union Range(Dialogs), m \in WindowMessages}
Goodbyes == {To(b, "suicide") : b \in ButtonPanels}
FrameMessages == Jobs \union Asked \union Goodbyes
Members(s) == {s[i] : i \in 1..Len(s)}
Queued == Members(queue)

(* The dialogs that there have been, and the panels of the frame.          *)
HadOpened == {Dialogs[i] : i \in 1..opened}
Known == {"frame", "button"} \union Panels \union HadOpened

FrameTypes ==
  /\ mainWindow \in {"none", "open", "gone"} /\ enabled \in BOOLEAN
  /\ queue \in Seq(FrameMessages)
  /\ opened \in 0..Len(Dialogs)
  /\ size \in Sizes

ChildrenFirst(q) ==
  /\ q[1] = Thread("createChildren")
  /\ \A i \in 2..Len(q) : q[i] # Thread("createChildren")

(* The two jobs at the beginning come once, and nothing overtakes them.    *)
Beginning ==
  /\ mainWindow = "none" =>
       /\ queue = <<Thread("createFrame")>>
       /\ opened = 0 /\ objects = {} /\ enabled
  /\ Thread("createFrame") \in Queued => mainWindow = "none"
  /\ Thread("createChildren") \in Queued =>
       /\ mainWindow = "open" /\ ChildrenFirst(queue)
       /\ bound \union panelListeners \subseteq {"frame"} /\ opened = 0

(* A button that is to be deleted was bound once and is so no longer.      *)
Goodbye ==
  \A b \in ButtonPanels : To(b, "suicide") \in Queued =>
    /\ b \notin bound \union panelListeners
    /\ b = "button" \/ b \in HadOpened
    /\ Thread("createChildren") \notin Queued

FrameInv ==
  /\ FrameTypes /\ Beginning /\ Goodbye
  /\ OnlyLiveObjects /\ ModalAbout
  /\ bound \union panelListeners \subseteq Known
  /\ helpDialog \in HadOpened \union {NoDialog}
  /\ DOMAIN rects = {} \/ rects = Layout(size, Preferred)

LEMMA FrameNames ==
  /\ {"frame", "button", "toolbar", "statusbar", "views", NoDialog} \intersect Range(Dialogs) = {}
  /\ Dialogs \in Seq(Range(Dialogs)) /\ Len(Dialogs) \in Nat
  /\ \A i \in 1..Len(Dialogs) : Dialogs[i] \in Range(Dialogs)
  /\ \A i, j \in 1..Len(Dialogs) : Dialogs[i] = Dialogs[j] => i = j
  /\ \A m, n : Thread(m) = Thread(n) => m = n
  /\ \A v, w, m, n : To(v, m) = To(w, n) => v = w /\ m = n
  /\ \A w, m, n : Thread(m) = To(w, n) => m = n
<1>1. Dialogs \in Seq(Range(Dialogs)) /\ IsInjective(Dialogs)
  BY FrameWindowAssumption
<1>2. Len(Dialogs) \in Nat /\ DOMAIN Dialogs = 1..Len(Dialogs)
  BY <1>1
<1>3. \A i \in 1..Len(Dialogs) : Dialogs[i] \in Range(Dialogs)
  BY <1>2 DEF Range
<1>4. \A i, j \in 1..Len(Dialogs) : Dialogs[i] = Dialogs[j] => i = j
  BY <1>1, <1>2 DEF IsInjective
<1>5. {"frame", "button", "toolbar", "statusbar", "views", NoDialog} \intersect Range(Dialogs) = {}
  BY FrameWindowAssumption
<1> QED
  BY <1>1, <1>2, <1>3, <1>4, <1>5 DEF Thread, To

LEMMA HeadAndTail ==
  ASSUME NEW S, NEW s \in Seq(S), s # <<>>
  PROVE  /\ Head(s) = s[1] /\ s[1] \in Members(s) /\ Tail(s) \in Seq(S)
         /\ Members(Tail(s)) \subseteq Members(s)
         /\ \A i \in 1..Len(Tail(s)) : Tail(s)[i] = s[i + 1]
         /\ Len(Tail(s)) = Len(s) - 1 /\ Len(s) \in Nat \ {0}
<1>1. /\ Len(s) \in Nat \ {0} /\ Len(Tail(s)) = Len(s) - 1 /\ Tail(s) \in Seq(S)
      /\ \A i \in 1..Len(Tail(s)) : Tail(s)[i] = s[i + 1] /\ i + 1 \in 1..Len(s)
  OBVIOUS
<1> QED
  BY <1>1 DEF Members

LEMMA MembersAppended ==
  ASSUME NEW S, NEW s \in Seq(S), NEW x \in S
  PROVE  /\ Append(s, x) \in Seq(S) /\ Members(Append(s, x)) = Members(s) \union {x}
<1>0. Len(s) \in Nat
  OBVIOUS
<1>1. /\ Append(s, x) \in Seq(S) /\ Len(Append(s, x)) = Len(s) + 1
      /\ \A i \in 1..Len(s) : Append(s, x)[i] = s[i]
      /\ Append(s, x)[Len(s) + 1] = x
  OBVIOUS
<1>2. Members(Append(s, x)) = Members(s) \union {x}
  <2> DEFINE r == Append(s, x)
  <2>1. \A i \in 1..(Len(s) + 1) : i \in 1..Len(s) \/ i = Len(s) + 1
    BY <1>0
  <2>2. \A i \in 1..Len(s) : i \in 1..(Len(s) + 1)
    BY <1>0
  <2>3. Len(s) + 1 \in 1..(Len(s) + 1)
    BY <1>0
  <2> HIDE DEF r
  <2>4. Members(r) = {r[i] : i \in 1..(Len(s) + 1)}
    BY <1>1 DEF Members, r
  <2> QED
    BY <1>1, <2>1, <2>2, <2>3, <2>4 DEF Members, r
<1> QED
  BY <1>1, <1>2

LEMMA MembersOfOne ==
  ASSUME NEW S, NEW x \in S PROVE <<x>> \in Seq(S) /\ Members(<<x>>) = {x}
<1>1. Len(<<x>>) = 1 /\ <<x>>[1] = x /\ 1..1 = {1}
  OBVIOUS
<1> QED
  BY <1>1 DEF Members

LEMMA MembersJoined ==
  ASSUME NEW S, NEW s \in Seq(S), NEW t \in Seq(S)
  PROVE  /\ s \o t \in Seq(S) /\ Members(s \o t) = Members(s) \union Members(t)
         /\ Members(<<>>) = {}
<1>1. /\ s \o t \in Seq(S) /\ Len(s \o t) = Len(s) + Len(t) /\ Len(s) \in Nat /\ Len(t) \in Nat
      /\ \A i \in 1..Len(s) : (s \o t)[i] = s[i] /\ i \in 1..(Len(s) + Len(t))
      /\ \A i \in 1..Len(t) : (s \o t)[Len(s) + i] = t[i] /\ Len(s) + i \in 1..(Len(s) + Len(t))
  OBVIOUS
<1>2. \A i \in 1..(Len(s) + Len(t)) :
        i \in 1..Len(s) \/ (i - Len(s) \in 1..Len(t) /\ Len(s) + (i - Len(s)) = i)
  BY <1>1
<1>3. Members(s \o t) = Members(s) \union Members(t)
  <2> DEFINE st == s \o t
  <2>1. ASSUME NEW i \in 1..Len(st) PROVE st[i] \in Members(s) \union Members(t)
    <3>1. CASE i \in 1..Len(s)
      BY <1>1, <3>1 DEF Members
    <3>2. CASE i \notin 1..Len(s)
      <4>1. PICK k \in 1..Len(t) : i = Len(s) + k
        BY <1>1, <1>2, <3>2
      <4> QED
        BY <1>1, <4>1 DEF Members
    <3> QED
      BY <3>1, <3>2
  <2>2. ASSUME NEW i \in 1..Len(s) PROVE s[i] \in Members(st)
    BY <1>1 DEF Members
  <2>3. ASSUME NEW i \in 1..Len(t) PROVE t[i] \in Members(st)
    BY <1>1 DEF Members
  <2> QED
    BY <2>1, <2>2, <2>3 DEF Members
<1>4. Members(<<>>) = {}
  BY DEF Members
<1> QED
  BY <1>1, <1>3, <1>4

(* What the head of the queue excludes, and what is left without it.       *)
LEMMA WithoutHead ==
  ASSUME FrameInv, NEW m, IsNext(m)
  PROVE  /\ m \in FrameMessages /\ m \in Queued /\ Tail(queue) \in Seq(FrameMessages)
         /\ Members(Tail(queue)) \subseteq Queued
         /\ m # Thread("createFrame") =>
              mainWindow # "none" /\ Thread("createFrame") \notin Queued
         /\ m # Thread("createChildren") => Thread("createChildren") \notin Queued
         /\ Thread("createChildren") \notin Members(Tail(queue))
<1> USE DEF FrameInv, FrameTypes, Beginning, Queued
<1>1. queue \in Seq(FrameMessages) /\ queue # <<>> /\ Head(queue) = m
  BY DEF IsNext
<1>2. /\ queue[1] = m /\ m \in Members(queue) /\ Tail(queue) \in Seq(FrameMessages)
      /\ Members(Tail(queue)) \subseteq Members(queue)
      /\ \A i \in 1..Len(Tail(queue)) : Tail(queue)[i] = queue[i + 1]
      /\ Len(Tail(queue)) = Len(queue) - 1 /\ Len(queue) \in Nat \ {0}
  BY <1>1, HeadAndTail
<1>3. m \in FrameMessages
  BY <1>1, <1>2
<1>4. m # Thread("createFrame") => mainWindow # "none"
  <2>1. ASSUME mainWindow = "none" PROVE m = Thread("createFrame")
    <3>1. queue = <<Thread("createFrame")>>
      BY <2>1
    <3> QED
      BY <1>2, <3>1
  <2> QED
    BY <2>1
<1>5. m # Thread("createChildren") => Thread("createChildren") \notin Members(queue)
  BY <1>2 DEF ChildrenFirst
<1>6. Thread("createChildren") \notin Members(Tail(queue))
  <2>1. ASSUME NEW i \in 1..Len(Tail(queue)), Tail(queue)[i] = Thread("createChildren")
        PROVE  FALSE
    <3>1. i + 1 \in 2..Len(queue) /\ queue[i + 1] = Thread("createChildren")
      BY <1>2, <2>1
    <3>2. i + 1 \in 1..Len(queue)
      BY <3>1, <1>2
    <3>3. Thread("createChildren") \in Queued
      BY <3>1, <3>2 DEF Members
    <3> QED
      BY <3>1, <3>3 DEF ChildrenFirst
  <2> QED
    BY <2>1 DEF Members
<1> QED
  BY <1>2, <1>3, <1>4, <1>5, <1>6

(* A step that only posts and takes messages of the kinds that say nothing *)
(* about the beginning or the end of anything.                             *)
Plain == {Thread(m) : m \in FrameCommands} \union Asked

LEMMA PlainOnes ==
  /\ Plain \subseteq FrameMessages
  /\ Thread("createFrame") \notin Plain /\ Thread("createChildren") \notin Plain
  /\ \A b : To(b, "suicide") \notin Plain
  /\ \A b : To(b, "suicide") # Thread("createChildren") /\ To(b, "suicide") # Thread("createFrame")
  /\ Thread("createFrame") # Thread("createChildren")
<1> USE DEF Plain, FrameCommands, WindowMessages
<1>1. Plain \subseteq FrameMessages
  BY DEF FrameMessages, Jobs
<1>2. /\ \A m \in FrameCommands : m # "createFrame" /\ m # "createChildren" /\ m # "suicide"
      /\ \A m \in WindowMessages : m # "createFrame" /\ m # "createChildren" /\ m # "suicide"
      /\ "suicide" # "createChildren" /\ "suicide" # "createFrame"
      /\ "createFrame" # "createChildren"
  OBVIOUS
<1>3. \A x \in Plain : (\E m \in FrameCommands : x = Thread(m))
                       \/ (\E w, m : m \in WindowMessages /\ x = To(w, m))
  BY DEF Asked
<1> HIDE DEF Plain, FrameCommands, WindowMessages
<1> QED
  BY <1>1, <1>2, <1>3, FrameNames

LEMMA FrameQuiet ==
  ASSUME FrameInv, mainWindow # "none", UNCHANGED <<windowVars, objectVars>>,
         queue' \in Seq(FrameMessages), Queued' \subseteq Queued \union Plain,
         Thread("createChildren") \in Queued' => ChildrenFirst(queue')
  PROVE  FrameInv'
<1> USE DEF FrameInv
<1>1. UNCHANGED <<mainWindow, enabled, helpDialog, opened, dialogs, size, rects,
                  objects, bound, panelListeners>>
  BY DEF windowVars, objectVars
<1>2. FrameTypes'
  BY <1>1 DEF FrameTypes
<1>3. Beginning'
  BY <1>1, PlainOnes DEF Beginning
<1>4. Goodbye'
  <2> SUFFICES ASSUME NEW b \in ButtonPanels, To(b, "suicide") \in Queued'
               PROVE  /\ b \notin (bound \union panelListeners)'
                      /\ b = "button" \/ b \in HadOpened'
                      /\ Thread("createChildren") \notin Queued'
    BY DEF Goodbye, ButtonPanels
  <2>1. To(b, "suicide") \in Queued
    BY PlainOnes
  <2> QED
    BY <1>1, <2>1, PlainOnes DEF Goodbye, HadOpened
<1> QED
  BY <1>1, <1>2, <1>3, <1>4 DEF OnlyLiveObjects, ModalAbout, Known, HadOpened

LEMMA QueueJoins ==
  ASSUME FrameInv, NEW m, IsNext(m), m # Thread("createFrame"), m # Thread("createChildren"),
         NEW t \in Seq(FrameMessages), queue' = Tail(queue) \o t,
         Members(t) \subseteq Plain, UNCHANGED <<windowVars, objectVars>>
  PROVE  FrameInv'
<1>1. /\ Tail(queue) \in Seq(FrameMessages) /\ mainWindow # "none"
      /\ Members(Tail(queue)) \subseteq Queued /\ Thread("createChildren") \notin Queued
  BY WithoutHead
<1>2. queue' \in Seq(FrameMessages) /\ Queued' = Members(Tail(queue)) \union Members(t)
  <2>1. PICK r : r = Tail(queue)
    OBVIOUS
  <2>2. PICK n : n = queue'
    OBVIOUS
  <2>3. r \in Seq(FrameMessages) /\ n = r \o t
    BY <1>1, <2>1, <2>2
  <2>4. n \in Seq(FrameMessages) /\ Members(n) = Members(r) \union Members(t)
    BY <2>3, MembersJoined
  <2>5. Queued' = Members(n)
    BY <2>2 DEF Queued
  <2> QED
    BY <2>1, <2>2, <2>4, <2>5
<1>3. Thread("createChildren") \notin Queued'
  BY <1>1, <1>2, PlainOnes
<1> QED
  BY <1>1, <1>2, <1>3, FrameQuiet

LEMMA ShortQueues ==
  /\ <<>> \in Seq(FrameMessages) /\ Members(<<>>) = {}
  /\ \A x \in FrameMessages : <<x>> \in Seq(FrameMessages) /\ Members(<<x>>) = {x}
<1>1. <<>> \in Seq(FrameMessages)
  OBVIOUS
<1> QED
  BY <1>1, MembersOfOne, MembersJoined

LEMMA AskedOnes ==
  /\ \A w \in {"frame"} \union Range(Dialogs) : To(w, "WM_CLOSE") \in Plain /\ To(w, "IDOK") \in Plain
  /\ \A cmd \in FrameCommands : Thread(cmd) \in Plain
BY DEF Plain, Asked, WindowMessages

LEMMA OpenedAre ==
  ASSUME FrameTypes
  PROVE  /\ HadOpened \subseteq Range(Dialogs)
         /\ opened < Len(Dialogs) => Dialogs[opened + 1] \in Range(Dialogs) \ HadOpened
         /\ opened = 0 => HadOpened = {}
<1>1. opened \in Nat /\ opened <= Len(Dialogs) /\ Len(Dialogs) \in Nat
  BY FrameNames DEF FrameTypes
<1>2. \A i \in 1..opened : i \in 1..Len(Dialogs) /\ i # opened + 1
  BY <1>1
<1>3. opened < Len(Dialogs) => opened + 1 \in 1..Len(Dialogs)
  BY <1>1
<1> QED
  BY <1>1, <1>2, <1>3, FrameNames DEF HadOpened

LEMMA PostKeeps ==
  ASSUME FrameInv, NEW m \in Plain, mainWindow # "none", PostToFrame(m)
  PROVE  FrameInv'
<1>1. queue \in Seq(FrameMessages)
  BY DEF FrameInv, FrameTypes
<1>2. /\ queue' \in Seq(FrameMessages) /\ Queued' = Queued \union {m}
      /\ UNCHANGED <<windowVars, objectVars>> /\ queue' = Append(queue, m)
  <2>1. PICK r : r = queue
    OBVIOUS
  <2>2. PICK n : n = queue'
    OBVIOUS
  <2>3. /\ r \in Seq(FrameMessages) /\ n = Append(r, m) /\ m \in FrameMessages
        /\ UNCHANGED <<windowVars, objectVars>>
    BY <1>1, <2>1, <2>2, PlainOnes DEF PostToFrame
  <2>4. n \in Seq(FrameMessages) /\ Members(n) = Members(r) \union {m}
    BY <2>3, MembersAppended
  <2>5. Queued' = Members(n) /\ Queued = Members(r)
    BY <2>1, <2>2 DEF Queued
  <2> QED
    BY <2>1, <2>2, <2>3, <2>4, <2>5
<1>3. ASSUME Thread("createChildren") \in Queued' PROVE ChildrenFirst(queue')
  <2>1. Thread("createChildren") \in Queued /\ ChildrenFirst(queue)
    BY <1>2, <1>3, PlainOnes DEF FrameInv, Beginning
  <2>2. PICK k \in 1..Len(queue) : TRUE
    BY <2>1 DEF Queued, Members
  <2>3. /\ Len(queue') = Len(queue) + 1 /\ Len(queue) \in Nat /\ 1 \in 1..Len(queue)
        /\ \A i \in 1..Len(queue) : queue'[i] = queue[i]
        /\ queue'[Len(queue) + 1] = m
    BY <1>1, <1>2, <2>2
  <2>4. \A i \in 2..Len(queue') : i \in 2..Len(queue) \/ i = Len(queue) + 1
    BY <2>3
  <2>5. \A i \in 2..Len(queue) : i \in 1..Len(queue)
    BY <2>3
  <2> QED
    BY <2>1, <2>3, <2>4, <2>5, PlainOnes DEF ChildrenFirst
<1> QED
  BY <1>2, <1>3, FrameQuiet

LEMMA CommandKeeps == ASSUME FrameInv, NEW cmd \in FrameCommands, Command(cmd) PROVE FrameInv'
BY PostKeeps, AskedOnes DEF Command

LEMMA CrossKeeps ==
  ASSUME FrameInv, NEW w \in {"frame"} \union Range(Dialogs), Cross(w) PROVE FrameInv'
<1>1. mainWindow # "none"
  <2> SUFFICES ASSUME mainWindow = "none" PROVE FALSE
    OBVIOUS
  <2>1. w \in dialogs
    BY DEF Cross, Exists
  <2>2. dialogs = {helpDialog} /\ helpDialog \in HadOpened /\ opened = 0 /\ FrameTypes
    BY <2>1 DEF FrameInv, ModalAbout, Beginning
  <2> QED
    BY <2>2, OpenedAre
<1> QED
  BY <1>1, PostKeeps, AskedOnes DEF Cross

LEMMA BroadcastExitKeeps == ASSUME FrameInv, BroadcastExit PROVE FrameInv'
<1> DEFINE m == Thread("commandFileExit")
           t == IF "frame" \in panelListeners THEN <<To("frame", "WM_CLOSE")>> ELSE <<>>
<1>1. /\ IsNext(m) /\ queue' = Tail(queue) \o t /\ UNCHANGED <<windowVars, objectVars>>
  BY DEF BroadcastExit
<1>2. m # Thread("createFrame") /\ m # Thread("createChildren")
  BY PlainOnes, AskedOnes DEF FrameCommands
<1>3. t \in Seq(FrameMessages) /\ Members(t) \subseteq Plain
  BY AskedOnes, ShortQueues, PlainOnes
<1> HIDE DEF t, m
<1> QED
  BY <1>1, <1>2, <1>3, QueueJoins

LEMMA BroadcastAboutIgnoredKeeps == ASSUME FrameInv, BroadcastAboutIgnored PROVE FrameInv'
<1> DEFINE m == Thread("commandHelpAbout")
<1>1. /\ IsNext(m) /\ queue' = Tail(queue) /\ UNCHANGED <<windowVars, objectVars>>
  BY DEF BroadcastAboutIgnored
<1>2. m # Thread("createFrame") /\ m # Thread("createChildren")
  BY PlainOnes, AskedOnes DEF FrameCommands
<1> HIDE DEF m
<1>3. mainWindow # "none" /\ queue' \in Seq(FrameMessages) /\ Queued' \subseteq Queued
      /\ Thread("createChildren") \notin Queued'
  BY <1>1, <1>2, WithoutHead DEF Queued
<1> QED
  BY <1>1, <1>3, FrameQuiet

LEMMA BroadcastOKKeeps == ASSUME FrameInv, BroadcastOK PROVE FrameInv'
<1> DEFINE m == Thread("commandButtonOK")
           t == IF helpDialog = NoDialog THEN <<>> ELSE <<To(helpDialog, "IDOK")>>
<1>1. /\ IsNext(m) /\ queue' = Tail(queue) \o t /\ UNCHANGED <<windowVars, objectVars>>
  BY DEF BroadcastOK
<1>2. m # Thread("createFrame") /\ m # Thread("createChildren")
  BY PlainOnes, AskedOnes DEF FrameCommands
<1>3. helpDialog # NoDialog => helpDialog \in Range(Dialogs)
  BY OpenedAre DEF FrameInv
<1>4. t \in Seq(FrameMessages) /\ Members(t) \subseteq Plain
  <2>1. CASE helpDialog = NoDialog
    BY <2>1, ShortQueues
  <2>2. CASE helpDialog # NoDialog
    <3>1. PICK x \in Plain : x = To(helpDialog, "IDOK")
      BY <1>3, <2>2, AskedOnes
    <3>2. t = <<x>> /\ x \in FrameMessages
      BY <2>2, <3>1, PlainOnes
    <3> HIDE DEF t
    <3> QED
      BY <3>2, ShortQueues
  <2> QED
    BY <2>1, <2>2
<1> HIDE DEF t, m
<1> QED
  BY <1>1, <1>2, <1>4, QueueJoins

LEMMA IdOkKeeps == ASSUME FrameInv, NEW d \in Range(Dialogs), IdOk(d) PROVE FrameInv'
<1> DEFINE m == To(d, "IDOK")  t == <<To(d, "WM_CLOSE")>>
<1>1. /\ IsNext(m) /\ queue' = Append(Tail(queue), To(d, "WM_CLOSE"))
      /\ UNCHANGED <<windowVars, objectVars>>
  BY DEF IdOk
<1>2. m \in Plain /\ t \in Seq(FrameMessages) /\ Members(t) \subseteq Plain
      /\ To(d, "WM_CLOSE") \in FrameMessages
  <2>1. m \in Plain
    BY AskedOnes
  <2>2. PICK x \in Plain : x = To(d, "WM_CLOSE")
    BY AskedOnes
  <2>3. t = <<x>> /\ x \in FrameMessages
    BY <2>2, PlainOnes
  <2> HIDE DEF t, m
  <2> QED
    BY <2>1, <2>2, <2>3, ShortQueues
<1>3. m # Thread("createFrame") /\ m # Thread("createChildren")
  BY <1>2, PlainOnes
<1>4. Tail(queue) \in Seq(FrameMessages)
  BY <1>1, WithoutHead
<1>5. queue' = Tail(queue) \o t
  BY <1>1, <1>2, <1>4
<1> HIDE DEF t, m
<1> QED
  BY <1>1, <1>2, <1>3, <1>5, QueueJoins

LEMMA DropKeeps == ASSUME FrameInv, Drop PROVE FrameInv'
<1> DEFINE m == Head(queue)
<1>1. /\ IsNext(m) /\ queue' = Tail(queue) /\ UNCHANGED <<windowVars, objectVars>>
      /\ m.msg \in WindowMessages
  BY DEF Drop, IsNext
<1>2. m # Thread("createFrame") /\ m # Thread("createChildren")
  <2>1. Thread("createFrame").msg = "createFrame" /\ Thread("createChildren").msg = "createChildren"
    BY DEF Thread
  <2> QED
    BY <1>1, <2>1 DEF WindowMessages
<1> HIDE DEF m
<1>3. mainWindow # "none" /\ queue' \in Seq(FrameMessages) /\ Queued' \subseteq Queued
      /\ Thread("createChildren") \notin Queued'
  BY <1>1, <1>2, WithoutHead DEF Queued
<1> QED
  BY <1>1, <1>3, FrameQuiet

LEMMA ResizeKeeps == ASSUME FrameInv, NEW s \in Sizes, Resize(s) PROVE FrameInv'
<1> USE DEF FrameInv
<1>1. /\ UNCHANGED <<mainWindow, enabled, queue, helpDialog, opened, dialogs,
                     objects, bound, panelListeners>>
      /\ size' = s /\ ((rects' = rects /\ DOMAIN rects = {}) \/ rects' = Layout(s, Preferred))
  BY DEF Resize, objectVars
<1>2. FrameTypes' /\ Beginning' /\ Goodbye'
  BY <1>1 DEF FrameTypes, Beginning, Goodbye, Queued, HadOpened, ChildrenFirst
<1>3. OnlyLiveObjects' /\ ModalAbout' /\ UNCHANGED <<Known, HadOpened>>
  BY <1>1 DEF OnlyLiveObjects, ModalAbout, Known, HadOpened
<1>4. (DOMAIN rects = {} \/ rects = Layout(size, Preferred))'
  BY <1>1
<1> QED
  BY <1>1, <1>2, <1>3, <1>4

LEMMA CreateFrameKeeps == ASSUME FrameInv, CreateFrame PROVE FrameInv'
<1> USE DEF FrameInv
<1> DEFINE m == Thread("createFrame")
<1>1. /\ IsNext(m) /\ mainWindow' = "open" /\ New({"frame"})
      /\ queue' = Append(Tail(queue), Thread("createChildren"))
      /\ UNCHANGED <<enabled, helpDialog, opened, dialogs, size, rects>>
  BY DEF CreateFrame
<1>2. mainWindow = "none" /\ opened = 0 /\ enabled = TRUE /\ objects = {}
      /\ queue = <<Thread("createFrame")>>
  BY <1>1, WithoutHead DEF Beginning, FrameTypes
<1>3. queue' = <<Thread("createChildren")>>
  BY <1>1, <1>2
<1>4. HadOpened = {} /\ HadOpened' = {}
  BY <1>1, <1>2, OpenedAre DEF HadOpened
<1>5. bound = {} /\ panelListeners = {} /\ helpDialog = NoDialog /\ dialogs = {}
  BY <1>2, <1>4 DEF OnlyLiveObjects, ModalAbout
<1>6. bound' = {"frame"} /\ panelListeners' = {"frame"} /\ objects' = {"frame"}
  BY <1>1, <1>2, <1>5 DEF New
<1>7. /\ Thread("createChildren") \in FrameMessages
      /\ Len(queue') = 1 /\ queue'[1] = Thread("createChildren")
  BY <1>3 DEF FrameMessages, Jobs
<1>8. Queued' = {Thread("createChildren")} /\ queue' \in Seq(FrameMessages)
  BY <1>3, <1>7 DEF Queued, Members
<1>9. FrameTypes'
  BY <1>1, <1>8 DEF FrameTypes
<1>10. Beginning'
  BY <1>1, <1>2, <1>6, <1>7, <1>8, PlainOnes DEF Beginning, ChildrenFirst
<1>11. Goodbye'
  BY <1>8, PlainOnes DEF Goodbye
<1>12. (/\ OnlyLiveObjects /\ ModalAbout
        /\ bound \union panelListeners \subseteq Known
        /\ helpDialog \in HadOpened \union {NoDialog}
        /\ DOMAIN rects = {} \/ rects = Layout(size, Preferred))'
  BY <1>1, <1>2, <1>4, <1>5, <1>6 DEF OnlyLiveObjects, ModalAbout, Known
<1> QED
  BY <1>9, <1>10, <1>11, <1>12

LEMMA CreatePanelsKeeps == ASSUME FrameInv, CreatePanels PROVE FrameInv'
<1> USE DEF FrameInv
<1>1. /\ IsNext(Thread("createChildren")) /\ mainWindow = "open"
      /\ New(Panels \union {"button"}) /\ queue' = Tail(queue)
      /\ rects' = Layout(size, Preferred)
      /\ UNCHANGED <<mainWindow, enabled, helpDialog, opened, dialogs, size>>
  BY DEF CreatePanels
<1>2. /\ Thread("createChildren") \in Queued /\ queue' \in Seq(FrameMessages)
      /\ Queued' \subseteq Queued /\ Thread("createChildren") \notin Queued'
      /\ Thread("createFrame") \notin Queued
  BY <1>1, WithoutHead, PlainOnes DEF Queued
<1>3. bound \union panelListeners \subseteq {"frame"} /\ opened = 0
  BY <1>2 DEF Beginning
<1>4. \A b \in ButtonPanels : To(b, "suicide") \notin Queued'
  BY <1>2 DEF Goodbye
<1>5. FrameTypes' /\ Beginning' /\ Goodbye'
  BY <1>1, <1>2, <1>4 DEF FrameTypes, Beginning, Goodbye, ButtonPanels
<1>6. OnlyLiveObjects' /\ ModalAbout' /\ HadOpened' = HadOpened
  BY <1>1 DEF OnlyLiveObjects, ModalAbout, New, HadOpened
<1>7. (bound \union panelListeners \subseteq Known)'
  BY <1>1, <1>6 DEF New, Known
<1> QED
  BY <1>1, <1>5, <1>6, <1>7

LEMMA BroadcastAboutKeeps == ASSUME FrameInv, BroadcastAbout PROVE FrameInv'
<1> USE DEF FrameInv
<1> DEFINE m == Thread("commandHelpAbout")  d == Dialogs[opened + 1]
<1>1. /\ IsNext(m) /\ queue' = Tail(queue) /\ helpDialog = NoDialog /\ opened < Len(Dialogs)
      /\ helpDialog' = d /\ dialogs' = dialogs \union {d} /\ New({d})
      /\ opened' = opened + 1 /\ enabled' = (enabled /\ mainWindow # "open")
      /\ UNCHANGED <<mainWindow, size, rects>>
  BY DEF BroadcastAbout
<1>2. m # Thread("createFrame") /\ m # Thread("createChildren")
  BY PlainOnes, AskedOnes DEF FrameCommands
<1>3. /\ queue' \in Seq(FrameMessages) /\ Queued' \subseteq Queued
      /\ Thread("createChildren") \notin Queued /\ Thread("createFrame") \notin Queued
      /\ mainWindow # "none"
  BY <1>1, <1>2, WithoutHead DEF Queued
<1>4. d \in Range(Dialogs) \ HadOpened /\ d # NoDialog
  BY <1>1, OpenedAre, FrameNames
<1>5. HadOpened' = HadOpened \union {d} /\ opened' \in 0..Len(Dialogs)
  <2>1. opened \in Nat /\ opened + 1 <= Len(Dialogs) /\ Len(Dialogs) \in Nat
    BY <1>1, FrameNames DEF FrameTypes
  <2>2. 1..opened + 1 = (1..opened) \union {opened + 1}
    BY <2>1
  <2>3. HadOpened' = {Dialogs[i] : i \in 1..opened + 1}
    BY <1>1 DEF HadOpened
  <2> QED
    BY <1>1, <2>1, <2>2, <2>3 DEF HadOpened
<1> HIDE DEF d, m
<1>6. FrameTypes' /\ Beginning'
  BY <1>1, <1>3, <1>5 DEF FrameTypes, Beginning
<1>7. Goodbye'
  <2> SUFFICES ASSUME NEW b \in ButtonPanels, To(b, "suicide") \in Queued'
               PROVE  /\ b \notin (bound \union panelListeners)'
                      /\ b = "button" \/ b \in HadOpened'
                      /\ Thread("createChildren") \notin Queued'
    BY DEF Goodbye, ButtonPanels
  <2>1. b \notin bound \union panelListeners /\ (b = "button" \/ b \in HadOpened)
    BY <1>3 DEF Goodbye
  <2>2. b # d
    BY <1>4, <2>1, FrameNames
  <2> QED
    BY <1>1, <1>3, <1>5, <2>1, <2>2 DEF New
<1>8. dialogs = {} /\ dialogs' = {d}
  BY <1>1 DEF ModalAbout
<1>9. (/\ OnlyLiveObjects /\ ModalAbout
       /\ bound \union panelListeners \subseteq Known
       /\ helpDialog \in HadOpened \union {NoDialog})'
  BY <1>1, <1>4, <1>5, <1>8 DEF OnlyLiveObjects, ModalAbout, Known, New
<1> QED
  BY <1>1, <1>6, <1>7, <1>9

LEMMA DeleteButtonKeeps == ASSUME FrameInv, NEW b \in ButtonPanels, DeleteButton(b) PROVE FrameInv'
<1> USE DEF FrameInv
<1> DEFINE m == To(b, "suicide")
<1>1. /\ IsNext(m) /\ objects' = objects \ {b} /\ queue' = Tail(queue)
      /\ UNCHANGED <<mainWindow, enabled, helpDialog, opened, dialogs, size, rects,
                     bound, panelListeners>>
  BY DEF DeleteButton, windowVars
<1>2. m # Thread("createFrame") /\ m # Thread("createChildren")
  BY PlainOnes
<1>3. /\ queue' \in Seq(FrameMessages) /\ Queued' \subseteq Queued /\ m \in Queued
      /\ Thread("createChildren") \notin Queued /\ Thread("createFrame") \notin Queued
      /\ mainWindow # "none"
  BY <1>1, <1>2, WithoutHead DEF Queued
<1>4. b \notin bound \union panelListeners
  BY <1>3 DEF Goodbye
<1>5. FrameTypes' /\ Beginning' /\ HadOpened' = HadOpened
  BY <1>1, <1>3 DEF FrameTypes, Beginning, HadOpened
<1>6. Goodbye'
  BY <1>1, <1>3, <1>5 DEF Goodbye, ButtonPanels
<1>7. (/\ OnlyLiveObjects /\ ModalAbout
       /\ bound \union panelListeners \subseteq Known
       /\ helpDialog \in HadOpened \union {NoDialog})'
  BY <1>1, <1>4, <1>5 DEF OnlyLiveObjects, ModalAbout, Known
<1> QED
  BY <1>1, <1>5, <1>6, <1>7

(* The jobs that the buttons post when their windows go.                   *)
LEMMA SuicidesAre ==
  ASSUME NEW n \in Nat, NEW f \in [1..n -> ButtonPanels]
  PROVE  /\ Suicides(f) \in Seq(FrameMessages)
         /\ \A x \in Members(Suicides(f)) : \E b \in {f[i] : i \in 1..n} : x = To(b, "suicide")
<1> DEFINE g == [i \in 1..n |-> To(f[i], "suicide")]
<1>1. Suicides(f) = g
  BY DEF Suicides
<1>2. \A i \in 1..n : g[i] = To(f[i], "suicide") /\ g[i] \in FrameMessages
  BY DEF FrameMessages, Goodbyes
<1>3. g \in [1..n -> FrameMessages]
  BY <1>2
<1> HIDE DEF g
<1>4. g \in Seq(FrameMessages) /\ Len(g) = n
  BY <1>3
<1>5. \A x \in Members(g) : \E b \in {f[i] : i \in 1..n} : x = To(b, "suicide")
  BY <1>2, <1>4 DEF Members
<1> QED
  BY <1>1, <1>4, <1>5

LEMMA SetToSeqIs ==
  ASSUME NEW S, IsFiniteSet(S)
  PROVE  \E n \in Nat : SetToSeq(S) \in [1..n -> S]
<1>1. Cardinality(S) \in Nat /\ ExistsBijection(1..Cardinality(S), S)
  BY FS_CardinalityType
<1>2. \E f \in [1..Cardinality(S) -> S] : IsInjective(f)
  BY <1>1 DEF ExistsBijection, Bijection, Injection
<1>3. SetToSeq(S) \in [1..Cardinality(S) -> S]
  BY <1>2 DEF SetToSeq
<1> QED
  BY <1>1, <1>3

(* The windows of the buttons in gone are destroyed: they are no longer    *)
(* bound, and what is posted is a suicide of some that were.               *)
LEMMA GoodbyeKeeps ==
  ASSUME FrameInv, NEW m \in Plain, IsNext(m), NEW t \in Seq(FrameMessages),
         queue' = Tail(queue) \o t, NEW gone, opened' = opened,
         bound' = bound \ gone, panelListeners' = panelListeners \ gone,
         \A x \in Members(t) : \E b \in gone \intersect ButtonPanels :
           x = To(b, "suicide") /\ (b = "button" \/ b \in HadOpened)
  PROVE  /\ queue' \in Seq(FrameMessages) /\ Goodbye' /\ mainWindow # "none"
         /\ Thread("createFrame") \notin Queued' /\ Thread("createChildren") \notin Queued'
<1>1. m # Thread("createFrame") /\ m # Thread("createChildren")
  BY PlainOnes
<1>2. /\ Tail(queue) \in Seq(FrameMessages) /\ Members(Tail(queue)) \subseteq Queued
      /\ Thread("createChildren") \notin Queued /\ Thread("createFrame") \notin Queued
      /\ mainWindow # "none"
  BY <1>1, WithoutHead
<1>3. queue' \in Seq(FrameMessages) /\ Queued' = Members(Tail(queue)) \union Members(t)
  <2>1. PICK r : r = Tail(queue)
    OBVIOUS
  <2>2. PICK n : n = queue'
    OBVIOUS
  <2>3. r \in Seq(FrameMessages) /\ n = r \o t
    BY <1>2, <2>1, <2>2
  <2>4. n \in Seq(FrameMessages) /\ Members(n) = Members(r) \union Members(t)
    BY <2>3, MembersJoined
  <2>5. Queued' = Members(n)
    BY <2>2 DEF Queued
  <2> QED
    BY <2>1, <2>2, <2>4, <2>5
<1>4. Thread("createFrame") \notin Queued' /\ Thread("createChildren") \notin Queued'
  BY <1>2, <1>3, PlainOnes
<1>5. Goodbye'
  <2> SUFFICES ASSUME NEW b \in ButtonPanels, To(b, "suicide") \in Queued'
               PROVE  /\ b \notin (bound \union panelListeners)'
                      /\ b = "button" \/ b \in HadOpened'
    BY <1>4 DEF Goodbye, ButtonPanels
  <2>1. HadOpened' = HadOpened
    BY DEF HadOpened
  <2>2. CASE To(b, "suicide") \in Queued
    BY <2>1, <2>2 DEF FrameInv, Goodbye
  <2>3. CASE To(b, "suicide") \in Members(t)
    BY <2>1, <2>3, FrameNames
  <2> QED
    BY <1>2, <1>3, <2>2, <2>3
<1> QED
  BY <1>2, <1>3, <1>4, <1>5

LEMMA CloseDialogKeeps == ASSUME FrameInv, NEW d \in Range(Dialogs), CloseDialog(d) PROVE FrameInv'
<1> USE DEF FrameInv
<1>1. /\ IsNext(To(d, "WM_CLOSE")) /\ Exists(d) /\ queue' = Tail(queue) \o Suicides(<<d>>)
      /\ dialogs' = dialogs \ {d} /\ helpDialog' = NoDialog /\ enabled' = TRUE
      /\ bound' = bound \ {d} /\ panelListeners' = panelListeners \ {d}
      /\ UNCHANGED <<mainWindow, opened, objects, size, rects>>
  BY DEF CloseDialog, Destroyed
<1>2. To(d, "WM_CLOSE") \in Plain /\ d \in ButtonPanels /\ d # "frame"
  BY AskedOnes, FrameNames DEF ButtonPanels
<1>3. dialogs = {d} /\ d \in HadOpened
  BY <1>1, <1>2 DEF Exists, ModalAbout
<1>4. /\ Suicides(<<d>>) \in Seq(FrameMessages)
      /\ \A x \in Members(Suicides(<<d>>)) : x = To(d, "suicide")
  <2>1. PICK f : f = <<d>>
    OBVIOUS
  <2>2. f \in [1..1 -> ButtonPanels] /\ f[1] = d
    BY <1>2, <2>1
  <2>3. PICK n \in Nat : n = 1
    OBVIOUS
  <2>4. f \in [1..n -> ButtonPanels]
    BY <2>2, <2>3
  <2>5. /\ Suicides(f) \in Seq(FrameMessages)
        /\ \A x \in Members(Suicides(f)) : \E b \in {f[i] : i \in 1..n} : x = To(b, "suicide")
    BY <2>4, SuicidesAre
  <2>6. ASSUME NEW x \in Members(Suicides(f)) PROVE x = To(d, "suicide")
    <3>1. PICK b \in {f[i] : i \in 1..n} : x = To(b, "suicide")
      BY <2>5
    <3> QED
      BY <2>2, <2>3, <3>1
  <2> QED
    BY <2>1, <2>5, <2>6
<1>5. PICK t : t = Suicides(<<d>>)
  OBVIOUS
<1>6. /\ queue' \in Seq(FrameMessages) /\ Goodbye' /\ mainWindow # "none"
      /\ Thread("createFrame") \notin Queued' /\ Thread("createChildren") \notin Queued'
  <2>1. t \in Seq(FrameMessages) /\ queue' = Tail(queue) \o t
    BY <1>1, <1>4, <1>5
  <2>2. \A x \in Members(t) : \E b \in {d} \intersect ButtonPanels :
          x = To(b, "suicide") /\ (b = "button" \/ b \in HadOpened)
    BY <1>2, <1>3, <1>4, <1>5
  <2> QED
    BY <1>1, <1>2, <2>1, <2>2, GoodbyeKeeps
<1>7. FrameTypes' /\ Beginning' /\ HadOpened' = HadOpened
  BY <1>1, <1>6 DEF FrameTypes, Beginning, HadOpened
<1>8. (/\ OnlyLiveObjects /\ ModalAbout
       /\ bound \union panelListeners \subseteq Known
       /\ helpDialog \in HadOpened \union {NoDialog})'
  BY <1>1, <1>3, <1>7 DEF OnlyLiveObjects, ModalAbout, Known
<1> QED
  BY <1>1, <1>6, <1>7, <1>8

LEMMA CloseMainWindowKeeps == ASSUME FrameInv, CloseMainWindow PROVE FrameInv'
<1> USE DEF FrameInv
<1> DEFINE gone == {"frame"} \union Panels \union ButtonPanels
           Owners == bound \intersect ButtonPanels
<1>1. /\ IsNext(To("frame", "WM_CLOSE"))
      /\ queue' = Tail(queue) \o Suicides(SetToSeq(Owners))
      /\ mainWindow' = "gone" /\ enabled' = TRUE /\ dialogs' = {} /\ helpDialog' = NoDialog
      /\ objects' = objects \ Panels
      /\ bound' = bound \ gone /\ panelListeners' = panelListeners \ gone
      /\ UNCHANGED <<opened, size, rects>>
  BY DEF CloseMainWindow, Destroyed
<1>2. IsFiniteSet(Owners)
  <2>1. opened \in Nat
    BY FrameNames DEF FrameTypes
  <2>2. IsFiniteSet(1..opened)
    BY <2>1, FS_Interval
  <2>3. [i \in 1..opened |-> Dialogs[i]] \in Surjection(1..opened, HadOpened)
    BY DEF Surjection, HadOpened
  <2>4. IsFiniteSet(HadOpened)
    BY <2>2, <2>3, FS_Surjection
  <2>5. IsFiniteSet(HadOpened \union {"button"})
    BY <2>4, FS_AddElement
  <2>6. Owners \subseteq HadOpened \union {"button"}
    BY FrameNames DEF Known, ButtonPanels, Panels
  <2> QED
    BY <2>5, <2>6, FS_Subset
<1>3. Owners \subseteq ButtonPanels /\ \A b \in Owners : b = "button" \/ b \in HadOpened
  BY FrameNames DEF Known, ButtonPanels, Panels
<1>4. PICK n \in Nat : SetToSeq(Owners) \in [1..n -> Owners]
  BY <1>2, SetToSeqIs
<1>5. PICK t : t = Suicides(SetToSeq(Owners))
  OBVIOUS
<1>6. t \in Seq(FrameMessages) /\ \A x \in Members(t) : \E b \in Owners : x = To(b, "suicide")
  <2>1. PICK f : f = SetToSeq(Owners)
    OBVIOUS
  <2>2. f \in [1..n -> ButtonPanels] /\ {f[i] : i \in 1..n} \subseteq Owners
    BY <1>3, <1>4, <2>1
  <2>3. /\ Suicides(f) \in Seq(FrameMessages)
        /\ \A x \in Members(Suicides(f)) : \E b \in {f[i] : i \in 1..n} : x = To(b, "suicide")
    BY <2>2, SuicidesAre
  <2> QED
    BY <1>5, <2>1, <2>2, <2>3
<1>7. /\ queue' \in Seq(FrameMessages) /\ Goodbye' /\ mainWindow # "none"
      /\ Thread("createFrame") \notin Queued' /\ Thread("createChildren") \notin Queued'
  <2>1. queue' = Tail(queue) \o t
    BY <1>1, <1>5
  <2>2. \A x \in Members(t) : \E b \in gone \intersect ButtonPanels :
          x = To(b, "suicide") /\ (b = "button" \/ b \in HadOpened)
    BY <1>3, <1>6
  <2>3. To("frame", "WM_CLOSE") \in Plain
    BY AskedOnes
  <2> HIDE DEF gone
  <2> QED
    BY <1>1, <1>6, <2>1, <2>2, <2>3, GoodbyeKeeps
<1>8. FrameTypes' /\ Beginning' /\ HadOpened' = HadOpened
  BY <1>1, <1>7 DEF FrameTypes, Beginning, HadOpened
<1>9. bound' \union panelListeners' \subseteq objects'
  BY <1>1 DEF OnlyLiveObjects
<1>10. (/\ OnlyLiveObjects /\ ModalAbout
        /\ bound \union panelListeners \subseteq Known
        /\ helpDialog \in HadOpened \union {NoDialog})'
  <2> HIDE DEF gone
  <2> QED
    BY <1>1, <1>8, <1>9 DEF OnlyLiveObjects, ModalAbout, Known
<1> QED
  BY <1>1, <1>7, <1>8, <1>10

LEMMA FrameBegins == FrameInit => FrameInv
<1> SUFFICES ASSUME FrameInit PROVE FrameInv
  OBVIOUS
<1>1. /\ mainWindow = "none" /\ enabled = TRUE /\ queue = <<Thread("createFrame")>>
      /\ helpDialog = NoDialog /\ opened = 0 /\ dialogs = {}
      /\ objects = {} /\ bound = {} /\ panelListeners = {}
      /\ size \in Sizes /\ rects = [s \in {} |-> 0]
  BY DEF FrameInit
<1>2. Thread("createFrame") \in FrameMessages
  BY DEF FrameMessages, Jobs
<1>3. queue \in Seq(FrameMessages) /\ Queued = {Thread("createFrame")}
  <2>1. PICK x \in FrameMessages : x = Thread("createFrame")
    BY <1>2
  <2>2. queue = <<x>>
    BY <1>1, <2>1
  <2> QED
    BY <2>1, <2>2, MembersOfOne DEF Queued
<1>4. FrameTypes /\ Beginning /\ Goodbye
  BY <1>1, <1>3, FrameNames, PlainOnes DEF FrameTypes, Beginning, Goodbye
<1>5. DOMAIN rects = {}
  BY <1>1
<1> QED
  BY <1>1, <1>4, <1>5 DEF FrameInv, OnlyLiveObjects, ModalAbout, Known

LEMMA FrameSteps == FrameInv /\ [FrameNext]_frameVars => FrameInv'
<1> SUFFICES ASSUME FrameInv, [FrameNext]_frameVars PROVE FrameInv'
  OBVIOUS
<1>1. CASE UNCHANGED frameVars
  BY <1>1 DEF frameVars, FrameInv, FrameTypes, Beginning, Goodbye, OnlyLiveObjects, ModalAbout,
              Known, HadOpened, Queued, ChildrenFirst
<1>2. CASE FrameDispatch
  BY <1>2, CreateFrameKeeps, CreatePanelsKeeps, BroadcastExitKeeps, BroadcastAboutKeeps,
     BroadcastAboutIgnoredKeeps, BroadcastOKKeeps, IdOkKeeps, CloseDialogKeeps,
     CloseMainWindowKeeps, DeleteButtonKeeps, DropKeeps DEF FrameDispatch
<1>3. ASSUME NEW cmd \in FrameCommands, Command(cmd) PROVE FrameInv'
  BY <1>3, CommandKeeps
<1>4. ASSUME NEW w \in {"frame"} \union Range(Dialogs), Cross(w) PROVE FrameInv'
  BY <1>4, CrossKeeps
<1>5. ASSUME NEW s \in Sizes, Resize(s) PROVE FrameInv'
  BY <1>5, ResizeKeeps
<1> QED
  BY <1>1, <1>2, <1>3, <1>4, <1>5 DEF FrameNext

(* The layout of any panel (BorderLayout::doLayout): whatever the          *)
(* preferred sizes at the sides are, if there is a center and the sides    *)
(* fit, every point of the client area is in exactly one child.            *)
THEOREM LayoutTiles ==
  ASSUME NEW s, s.x \in Nat, s.y \in Nat,
         NEW preferred, DOMAIN preferred \subseteq Sides, "center" \in DOMAIN preferred,
         \A side \in DOMAIN preferred : preferred[side].x \in Nat /\ preferred[side].y \in Nat,
         Fits(s, preferred)
  PROVE  IsTiled(s, Layout(s, preferred))
<1> DEFINE west == Taken(preferred, "west")    east == Taken(preferred, "east")
           north == Taken(preferred, "north")  south == Taken(preferred, "south")
           r == Layout(s, preferred)
           D == DOMAIN preferred
<1>1. /\ west \in Nat /\ east \in Nat /\ north \in Nat /\ south \in Nat
      /\ "west" \notin D => west = 0
      /\ "east" \notin D => east = 0
      /\ "north" \notin D => north = 0
      /\ "south" \notin D => south = 0
  BY DEF Taken
<1>2. s.x > west + east /\ s.y > north + south
  BY DEF Fits
<1> DEFINE width == s.x - west - east  height == s.y - north - south
<1>3. width \in Nat /\ height \in Nat /\ width > 0 /\ height > 0
  BY <1>1, <1>2
<1> HIDE DEF west, east, north, south, r
<1>4. CASE \E side \in Sides : D = {side}
  <2>1. D = {"center"}
    BY <1>4
  <2>2. r = [side \in D |-> Rectangle(0, 0, s.x, s.y)]
    BY <1>4 DEF Layout, r
  <2>3. DOMAIN r = {"center"} /\ r["center"] = Rectangle(0, 0, s.x, s.y)
    BY <2>1, <2>2
  <2>4. Points(r["center"]) = (0..s.x - 1) \X (0..s.y - 1)
    BY <2>3, <1>1, <1>2 DEF Points, Rectangle
  <2> QED
    BY <2>3, <2>4 DEF IsTiled, r
<1>5. CASE ~\E side \in Sides : D = {side}
  <2>1. /\ DOMAIN r = D
        /\ "west" \in D => r["west"] = Rectangle(0, 0, west, s.y)
        /\ "east" \in D => r["east"] = Rectangle(s.x - east, 0, east, s.y)
        /\ "north" \in D => r["north"] = Rectangle(west, 0, width, north)
        /\ "south" \in D => r["south"] = Rectangle(west, s.y - south, width, south)
        /\ r["center"] = Rectangle(west, north, width, height)
    BY <1>5 DEF Layout, r, west, east, north, south
  <2> DEFINE In(side, px, py) ==
        /\ side = "west" => px < west
        /\ side = "east" => px >= s.x - east
        /\ side = "north" => west <= px /\ px < s.x - east /\ py < north
        /\ side = "south" => west <= px /\ px < s.x - east /\ py >= s.y - south
        /\ side = "center" => west <= px /\ px < s.x - east /\ north <= py /\ py < s.y - south
  <2>2. ASSUME NEW px \in 0..s.x - 1, NEW py \in 0..s.y - 1, NEW side \in D
        PROVE  <<px, py>> \in Points(r[side]) <=> In(side, px, py)
    <3>1. CASE side = "west"
      BY <3>1, <2>1, <1>1, <1>2, <1>3 DEF Points, Rectangle
    <3>2. CASE side = "east"
      BY <3>2, <2>1, <1>1, <1>2, <1>3 DEF Points, Rectangle
    <3>3. CASE side = "north"
      BY <3>3, <2>1, <1>1, <1>2, <1>3 DEF Points, Rectangle
    <3>4. CASE side = "south"
      BY <3>4, <2>1, <1>1, <1>2, <1>3 DEF Points, Rectangle
    <3>5. CASE side = "center"
      BY <3>5, <2>1, <1>1, <1>2, <1>3 DEF Points, Rectangle
    <3> QED
      BY <3>1, <3>2, <3>3, <3>4, <3>5 DEF Sides
  <2>3. ASSUME NEW px \in 0..s.x - 1, NEW py \in 0..s.y - 1
        PROVE  \E side \in D : In(side, px, py) /\ \A other \in D \ {side} : ~In(other, px, py)
    <3>1. px \in Nat /\ py \in Nat /\ px < s.x /\ py < s.y
      BY <1>1
    <3>2. CASE px < west
      <4>1. "west" \in D
        BY <1>1, <3>1, <3>2
      <4>2. \A other \in D \ {"west"} : ~In(other, px, py)
        BY <1>1, <1>2, <3>1, <3>2 DEF Sides
      <4> QED
        BY <4>1, <4>2, <3>2
    <3>3. CASE px >= s.x - east
      <4>1. "east" \in D
        BY <1>1, <3>1, <3>3
      <4>2. \A other \in D \ {"east"} : ~In(other, px, py)
        BY <1>1, <1>2, <3>1, <3>3 DEF Sides
      <4> QED
        BY <4>1, <4>2, <3>3
    <3>4. CASE ~(px < west) /\ ~(px >= s.x - east)
      <4>1. west <= px /\ px < s.x - east
        BY <1>1, <3>1, <3>4
      <4>2. CASE py < north
        <5>1. "north" \in D
          BY <1>1, <3>1, <4>2
        <5>2. \A other \in D \ {"north"} : ~In(other, px, py)
          BY <1>1, <1>2, <3>1, <4>1, <4>2 DEF Sides
        <5> QED
          BY <5>1, <5>2, <4>1, <4>2
      <4>3. CASE py >= s.y - south
        <5>1. "south" \in D
          BY <1>1, <3>1, <4>3
        <5>2. \A other \in D \ {"south"} : ~In(other, px, py)
          BY <1>1, <1>2, <3>1, <4>1, <4>3 DEF Sides
        <5> QED
          BY <5>1, <5>2, <4>1, <4>3
      <4>4. CASE ~(py < north) /\ ~(py >= s.y - south)
        <5>1. north <= py /\ py < s.y - south
          BY <1>1, <3>1, <4>4
        <5>2. \A other \in D \ {"center"} : ~In(other, px, py)
          BY <1>1, <1>2, <3>1, <4>1, <5>1 DEF Sides
        <5> QED
          BY <5>1, <5>2, <4>1
      <4> QED
        BY <4>2, <4>3, <4>4
    <3> QED
      BY <3>2, <3>3, <3>4
  <2> HIDE DEF In
  <2>4. ASSUME NEW p \in (0..s.x - 1) \X (0..s.y - 1)
        PROVE  \E side \in DOMAIN r :
                 p \in Points(r[side]) /\ \A other \in DOMAIN r \ {side} : p \notin Points(r[other])
    <3>1. PICK px \in 0..s.x - 1, py \in 0..s.y - 1 : p = <<px, py>>
      OBVIOUS
    <3>2. PICK side \in D : In(side, px, py) /\ \A other \in D \ {side} : ~In(other, px, py)
      BY <2>3
    <3> QED
      BY <3>1, <3>2, <2>1, <2>2
  <2> QED
    BY <2>4 DEF IsTiled, r
<1> QED
  BY <1>4, <1>5

LEMMA FrameIsTiled ==
  ASSUME NEW s \in Sizes, Fits(s, Preferred)
  PROVE  IsTiled(s, Layout(s, Preferred))
<1>1. s.x \in Nat /\ s.y \in Nat
  BY FrameWindowAssumption
<1>2. /\ DOMAIN Preferred \subseteq Sides /\ "center" \in DOMAIN Preferred
      /\ \A side \in DOMAIN Preferred : Preferred[side].x \in Nat /\ Preferred[side].y \in Nat
  BY DEF Preferred, Sides
<1> QED
  BY <1>1, <1>2, LayoutTiles

(* The inductive invariant of the main window.                             *)
THEOREM FrameInvariant == FrameSpec => []FrameInv
<1>1. FrameInit => FrameInv
  BY FrameBegins
<1>2. FrameInv /\ [FrameNext]_frameVars => FrameInv'
  BY FrameSteps
<1> QED
  BY <1>1, <1>2, PTL DEF FrameSpec

(* Whoever closes the frame and its dialogs in whatever order: no message  *)
(* reaches an object that Frame::destroy() or a suicide has deleted, the   *)
(* frame takes input again when the dialog is gone (helpDlgProc), and the  *)
(* panels cover it after every sequence of sizes (BorderLayout::doLayout). *)
THEOREM FrameStaysInOrder == FrameSpec => []FrameIsInOrder
<1>1. FrameInv => FrameIsInOrder
  <2> SUFFICES ASSUME FrameInv PROVE FrameIsInOrder
    OBVIOUS
  <2>1. Tiles
    BY FrameIsTiled DEF FrameInv, FrameTypes, Tiles
  <2> QED
    BY <2>1 DEF FrameInv, FrameIsInOrder
<1> QED
  BY <1>1, FrameInvariant, PTL

-----------------------------------------------------------------------------
(***************************************************************************)
(* The window and its hook: where a message is that has not arrived, and   *)
(* who stands between it and the window's own procedure.                   *)
(***************************************************************************)
Procedures == Subclassers \cup {"class", "windowHook", "listener", "DestroyWindow"}
CallFrames ==
  [proc : Procedures, msg : HookKinds \cup {NoProc}, at : {"in", "notify", "nc", "out"},
   next : {"class", NoProc}, todo : SUBSET Listeners]
Farewells == {"destroy", "ncdestroy"}

HookTypes ==
  /\ life \in {"created", "destroying", "gone"}
  /\ wndproc \in Subclassers \cup {"windowHook", "class"}
  /\ found \in [Subclassers -> Subclassers \cup {"windowHook", NoProc}]
  /\ plan \in PlanOf
  /\ hooked \in BOOLEAN /\ system \in BOOLEAN /\ crashed \in BOOLEAN
  /\ chain \in {"class", NoProc}
  /\ attached \subseteq Listeners
  /\ calling \in Seq(CallFrames)
  /\ sent \in [HookKinds -> Nat] /\ seen \in [HookKinds -> Nat]

(* Who is entered has found a procedure.                                   *)
Follows ==
  \A s \in Subclassers :
    \/ wndproc = s
    \/ \E t \in Subclassers : found[t] = s
    \/ \E i \in 1..Len(calling) : calling[i].proc = s
    => found[s] # NoProc

(* The calls under way, by their procedures.                               *)
Shape(i) ==
  /\ calling[i].proc \in Subclassers =>
       calling[i].msg \in HookKinds /\ calling[i].at \in {"in", "out"}
  /\ calling[i].proc = "class" => calling[i].msg \in HookKinds /\ calling[i].at = "in"
  /\ calling[i].proc = "windowHook" =>
       /\ calling[i].msg \in HookKinds /\ calling[i].at \in {"in", "notify", "out"}
       /\ calling[i].at = "notify" => calling[i].next = "class"
  /\ calling[i].proc = "listener" =>
       /\ calling[i].msg \in HookKinds /\ calling[i].at = "in" /\ i > 1
       /\ calling[i - 1].proc = "windowHook" /\ calling[i - 1].at = "notify"
       /\ calling[i - 1].msg = calling[i].msg
  /\ calling[i].proc = "DestroyWindow" =>
       calling[i].msg = NoProc /\ calling[i].at \in {"in", "nc", "out"}

(* The message has not arrived yet; it has not come back from the hook.    *)
Carries(f) ==
  \/ f.proc = "class"
  \/ f.proc = "windowHook" /\ f.at \in {"in", "notify"}
  \/ f.proc \in Subclassers /\ f.at = "in"
InHook(f) == f.proc = "windowHook" \/ (f.proc \in Subclassers /\ f.at = "in")

Arriving(k) == \E i \in 1..Len(calling) : calling[i].msg = k /\ Carries(calling[i])
OnTheirWay ==
  /\ \A i, j \in 1..Len(calling) :
       Carries(calling[i]) /\ Carries(calling[j]) /\ calling[i].msg = calling[j].msg => i = j
  /\ \A k \in HookKinds : sent[k] = seen[k] + (IF Arriving(k) THEN 1 ELSE 0)

(* Of the last two messages nothing is called on top of a handler.         *)
AtTop ==
  \A i \in 1..Len(calling) :
    /\ calling[i].msg \in Farewells /\ (Carries(calling[i]) \/ InHook(calling[i])) =>
         \/ i = Len(calling)
         \/ i = Len(calling) - 1 /\ Top.proc \in {"listener", "class"}
    /\ calling[i].msg \in Farewells /\ calling[i].proc = "listener" => i = Len(calling)
    /\ calling[i].msg = "other" /\ InHook(calling[i]) /\ calling[i].at = "in" =>
         i = Len(calling) /\ life = "created"

(* DestroyWindow() stands between the ordinary messages and its own.       *)
Nesting ==
  /\ \A i \in 1..Len(calling) : calling[i].proc = "DestroyWindow" =>
       /\ \A j \in 1..(i - 1) : calling[j].msg = "other"
       /\ \A j \in (i + 1)..Len(calling) :
            calling[j].msg = IF calling[i].at = "nc" THEN "destroy" ELSE "ncdestroy"
       /\ calling[i].at = "in" => i = Len(calling) /\ sent["destroy"] = 0
       /\ calling[i].at = "out" <=> sent["ncdestroy"] # 0
  /\ \A i \in 1..Len(calling) : calling[i].msg # "other" => life = "destroying"
  /\ life = "destroying" => \E i \in 1..Len(calling) : calling[i].proc = "DestroyWindow"

(* The chain is there as long as it is needed; who cut the hook off put    *)
(* the window's own procedure in its place.                                *)
Restoring(order) == \E s \in Subclassers : plan[s] = [at |-> "destroy", order |-> order]
ChainOK ==
  /\ life = "created" => chain = "class" /\ sent["destroy"] = 0 /\ sent["ncdestroy"] = 0
  /\ \A i \in 1..Len(calling) :
       calling[i].msg \in Farewells /\ InHook(calling[i]) => chain = "class"
  /\ sent["ncdestroy"] = 0 => (chain = NoProc <=> wndproc = "class")
  /\ sent["ncdestroy"] # 0 =>
       \/ chain = NoProc
       \/ \E i \in 1..Len(calling) : calling[i].msg = "ncdestroy" /\ InHook(calling[i])
  /\ chain = NoProc => ~hooked /\ ~system
  /\ life = "gone" => chain = NoProc

(* If somebody puts back what he found after passing WM_DESTROY on, the    *)
(* hook does not take itself out below him.                                *)
NotBelow ==
  sent["ncdestroy"] = 0 /\ Restoring("after") =>
    \A i \in 1..Len(calling) :
      calling[i].proc \in Subclassers /\ calling[i].msg = "destroy" =>
        /\ chain = "class"
        /\ \A j \in 1..Len(calling) :
             calling[j].msg = "destroy" /\ InHook(calling[j]) => wndproc \in Subclassers

HookInv ==
  /\ HookTypes /\ Follows /\ \A i \in 1..Len(calling) : Shape(i)
  /\ OnTheirWay /\ AtTop /\ Nesting /\ ChainOK /\ NotBelow

LEMMA HookNames ==
  /\ Subclassers \cap {"class", "windowHook", "listener", "DestroyWindow"} = {}
  /\ NoProc \notin Subclassers /\ NoProc \notin Plans /\ NoProc \notin HookKinds
  /\ NoProc # "class" /\ NoProc # "windowHook"
  /\ PlanOf \subseteq [Subclassers -> Plans \cup {NoProc}]
BY HookAssumption

LEMMA HookTop ==
  ASSUME HookTypes, calling # <<>>
  PROVE  /\ Len(calling) \in Nat /\ Len(calling) > 0
         /\ Top = calling[Len(calling)] /\ Top \in CallFrames
         /\ Below \in Seq(CallFrames) /\ Len(Below) = Len(calling) - 1
         /\ \A i \in 1..(Len(calling) - 1) : Below[i] = calling[i]
<1>1. calling \in Seq(CallFrames) /\ Len(calling) \in Nat /\ Len(calling) > 0
  BY DEF HookTypes
<1>2. Top \in CallFrames
  BY <1>1 DEF Top
<1>3. PICK m \in Nat : m = Len(calling) /\ m > 0
  BY <1>1
<1>4. Below = SubSeq(calling, 1, m - 1) /\ m - 1 \in Nat /\ m - 1 <= Len(calling)
  BY <1>3 DEF Below
<1>5. Below \in Seq(CallFrames) /\ Len(Below) = m - 1
  BY <1>1, <1>3, <1>4
<1>6. \A i \in 1..(m - 1) : Below[i] = calling[i]
  BY <1>1, <1>3, <1>4
<1> QED
  BY <1>1, <1>2, <1>3, <1>5, <1>6 DEF Top

(* A call returns that carries no message: what is left stays in order.    *)
LEMMA PopKeeps ==
  ASSUME HookInv, calling # <<>>, calling' = Below, UNCHANGED <<sent, life>>,
         Top.proc # "DestroyWindow"
  PROVE  /\ (\A i \in 1..Len(calling) : Shape(i))' /\ AtTop' /\ Nesting'
         /\ UNCHANGED seen /\ ~Carries(Top) => OnTheirWay'
<1>1. /\ HookTypes /\ \A i \in 1..Len(calling) : Shape(i)
      /\ OnTheirWay /\ AtTop /\ Nesting
  BY DEF HookInv
<1>2. PICK m \in Nat : m = Len(calling) /\ m > 0
  BY <1>1, HookTop
<1>3. PICK c : c = calling'
  OBVIOUS
<1>4. /\ Len(c) = m - 1 /\ \A i \in 1..(m - 1) : c[i] = calling[i]
      /\ Top = calling[m]
  BY <1>1, <1>2, <1>3, HookTop
<1>5. ASSUME NEW i \in 1..(m - 1) PROVE Shape(i)'
  <2>1. i \in 1..m /\ Shape(i) /\ (i > 1 => i - 1 \in 1..(m - 1))
    BY <1>1, <1>2
  <2>2. c[i] = calling[i] /\ (i > 1 => c[i - 1] = calling[i - 1])
    BY <1>4, <2>1
  <2> QED
    BY <1>3, <2>1, <2>2 DEF Shape
<1>6. ASSUME UNCHANGED seen, ~Carries(Top) PROVE OnTheirWay'
  <2>1. \A k : (\E i \in 1..(m - 1) : c[i].msg = k /\ Carries(c[i])) <=> Arriving(k)
    BY <1>2, <1>4, <1>6 DEF Arriving
  <2>2. \A k : Arriving(k)' <=> Arriving(k)
    BY <2>1, <1>3, <1>4 DEF Arriving, Carries
  <2>3. \A i, j \in 1..(m - 1) : Carries(c[i]) /\ Carries(c[j]) /\ c[i].msg = c[j].msg => i = j
    BY <1>1, <1>2, <1>4 DEF OnTheirWay
  <2>4. \A k \in HookKinds : sent'[k] = seen'[k] + (IF Arriving(k)' THEN 1 ELSE 0)
    BY <1>1, <1>6, <2>2 DEF OnTheirWay
  <2> QED
    BY <2>3, <2>4, <1>3, <1>4 DEF OnTheirWay, Carries
<1>7. AtTop'
  <2>1. ASSUME NEW i \in 1..(m - 1)
        PROVE  /\ c[i].msg \in Farewells /\ (Carries(c[i]) \/ InHook(c[i])) => i = m - 1
               /\ ~(c[i].msg \in Farewells /\ c[i].proc = "listener")
               /\ ~(c[i].msg = "other" /\ InHook(c[i]) /\ c[i].at = "in")
    <3>1. i \in 1..m /\ i # m /\ c[i] = calling[i]
      BY <1>2, <1>4
    <3> QED
      BY <3>1, <1>1, <1>2 DEF AtTop
  <2> QED
    BY <2>1, <1>3, <1>4 DEF AtTop, Carries, InHook
<1>8. Nesting'
  <2>1. ASSUME NEW i \in 1..(m - 1), c[i].proc = "DestroyWindow"
        PROVE  /\ \A j \in 1..(i - 1) : c[j].msg = "other"
               /\ \A j \in (i + 1)..(m - 1) :
                    c[j].msg = IF c[i].at = "nc" THEN "destroy" ELSE "ncdestroy"
               /\ c[i].at # "in"
               /\ c[i].at = "out" <=> sent["ncdestroy"] # 0
    <3>1. i \in 1..m /\ i # m /\ c[i] = calling[i] /\ calling[i].proc = "DestroyWindow"
      BY <1>2, <1>4, <2>1
    <3>2. /\ \A j \in 1..(i - 1) : calling[j].msg = "other"
          /\ \A j \in (i + 1)..m :
               calling[j].msg = IF calling[i].at = "nc" THEN "destroy" ELSE "ncdestroy"
          /\ calling[i].at # "in"
          /\ calling[i].at = "out" <=> sent["ncdestroy"] # 0
      BY <3>1, <1>1, <1>2 DEF Nesting
    <3>3. /\ \A j \in 1..(i - 1) : j \in 1..(m - 1)
          /\ \A j \in (i + 1)..(m - 1) : j \in (i + 1)..m /\ j \in 1..(m - 1)
      BY <1>2
    <3> QED
      BY <3>1, <3>2, <3>3, <1>4
  <2>2. \A i \in 1..(m - 1) : c[i].msg # "other" => life = "destroying"
    BY <1>1, <1>2, <1>4 DEF Nesting
  <2>3. life = "destroying" => \E i \in 1..(m - 1) : c[i].proc = "DestroyWindow"
    BY <1>1, <1>2, <1>4 DEF Nesting
  <2> QED
    BY <2>1, <2>2, <2>3, <1>3, <1>4 DEF Nesting
<1> QED
  BY <1>3, <1>4, <1>5, <1>6, <1>7, <1>8

LEMMA LastCall ==
  ASSUME HookInv, calling # <<>>, Top.msg \in Farewells
  PROVE  /\ life = "destroying"
         /\ Top.msg = "ncdestroy" => sent["ncdestroy"] # 0
<1>1. /\ HookTypes /\ Nesting /\ \A i \in 1..Len(calling) : Shape(i)
  BY DEF HookInv
<1>2. PICK m \in Nat : m = Len(calling) /\ m > 0 /\ Top = calling[m]
  BY <1>1, HookTop
<1>3. Top.msg # "other" /\ m \in 1..m
  BY <1>2 DEF Farewells
<1>4. life = "destroying"
  BY <1>1, <1>2, <1>3 DEF Nesting
<1>5. PICK i \in 1..m : calling[i].proc = "DestroyWindow"
  BY <1>1, <1>2, <1>4 DEF Nesting
<1>6. i # m
  <2>1. calling[i].msg = NoProc /\ NoProc \notin Farewells
    BY <1>1, <1>2, <1>5, HookNames DEF Shape, Farewells, HookKinds
  <2> QED
    BY <2>1, <1>2
<1>7. /\ calling[m].msg = IF calling[i].at = "nc" THEN "destroy" ELSE "ncdestroy"
      /\ calling[i].at # "in" /\ (calling[i].at = "out" <=> sent["ncdestroy"] # 0)
  <2>1. m \in (i + 1)..m
    BY <1>6
  <2> QED
    BY <2>1, <1>1, <1>2, <1>5, <1>6 DEF Nesting
<1>8. calling[i].at \in {"in", "nc", "out"}
  BY <1>1, <1>2, <1>5 DEF Shape
<1> QED
  BY <1>2, <1>4, <1>7, <1>8

LEMMA PlainReturn ==
  ASSUME HookInv, calling # <<>>, Top.proc \in {"listener", "class"}, calling' = Below,
         UNCHANGED <<life, wndproc, found, plan, hooked, chain, system, attached, sent, crashed>>,
         seen' \in [HookKinds -> Nat], OnTheirWay'
  PROVE  HookInv'
<1>1. HookTypes /\ Follows /\ ChainOK /\ NotBelow
  BY DEF HookInv
<1>2. Top.proc # "DestroyWindow" /\ ~InHook(Top)
  BY HookNames DEF InHook
<1>3. (\A i \in 1..Len(calling) : Shape(i))' /\ AtTop' /\ Nesting'
  BY <1>2, PopKeeps
<1>4. PICK m \in Nat : m = Len(calling) /\ m > 0
  BY <1>1, HookTop
<1>5. PICK c : c = calling'
  OBVIOUS
<1>6. /\ c \in Seq(CallFrames) /\ Len(c) = m - 1 /\ \A i \in 1..(m - 1) : c[i] = calling[i]
      /\ Top = calling[m]
  BY <1>1, <1>4, <1>5, HookTop
<1>7. HookTypes'
  BY <1>1, <1>5, <1>6 DEF HookTypes
<1>8. Follows'
  BY <1>1, <1>4, <1>5, <1>6 DEF Follows
<1>9. ChainOK'
  <2>1. /\ \A i \in 1..(m - 1) : c[i].msg \in Farewells /\ InHook(c[i]) => chain = "class"
        /\ sent["ncdestroy"] # 0 =>
             chain = NoProc \/ \E i \in 1..(m - 1) : c[i].msg = "ncdestroy" /\ InHook(c[i])
    BY <1>1, <1>2, <1>4, <1>6 DEF ChainOK
  <2> QED
    BY <1>1, <1>5, <1>6, <2>1 DEF ChainOK, InHook
<1>10. NotBelow'
  <2>1. sent["ncdestroy"] = 0 /\ Restoring("after") =>
          \A i \in 1..(m - 1) : c[i].proc \in Subclassers /\ c[i].msg = "destroy" =>
            /\ chain = "class"
            /\ \A j \in 1..(m - 1) : c[j].msg = "destroy" /\ InHook(c[j]) => wndproc \in Subclassers
    BY <1>1, <1>4, <1>6 DEF NotBelow
  <2> QED
    BY <1>5, <1>6, <2>1 DEF NotBelow, InHook, Restoring
<1> QED
  BY <1>3, <1>7, <1>8, <1>9, <1>10 DEF HookInv

LEMMA ListenerReturnsKeeps == ASSUME HookInv, ListenerReturns PROVE HookInv'
<1>1. /\ calling # <<>> /\ Top.proc = "listener" /\ calling' = Below
      /\ UNCHANGED <<life, wndproc, found, plan, hooked, chain, system, attached, sent, seen,
                     calls, crashed>>
  BY DEF ListenerReturns, Within
<1>2. ~Carries(Top) /\ Top.proc # "DestroyWindow"
  BY <1>1, HookNames DEF Carries
<1>3. OnTheirWay'
  BY <1>1, <1>2, PopKeeps
<1>4. seen' \in [HookKinds -> Nat]
  BY <1>1 DEF HookInv, HookTypes
<1> QED
  BY <1>1, <1>3, <1>4, PlainReturn

(* The message has arrived.                                                *)
LEMMA ClassReturnsKeeps == ASSUME HookInv, ClassReturns PROVE HookInv'
<1>1. /\ calling # <<>> /\ Top.proc = "class" /\ calling' = Below
      /\ seen' = [seen EXCEPT ![Top.msg] = @ + 1]
      /\ UNCHANGED <<life, wndproc, found, plan, hooked, chain, system, attached, sent,
                     calls, crashed>>
  BY DEF ClassReturns, Within
<1>2. HookTypes /\ OnTheirWay /\ \A i \in 1..Len(calling) : Shape(i)
  BY DEF HookInv
<1>3. PICK m \in Nat : m = Len(calling) /\ m > 0
  BY <1>1, <1>2, HookTop
<1>4. PICK c : c = calling'
  OBVIOUS
<1>5. /\ Len(c) = m - 1 /\ \A i \in 1..(m - 1) : c[i] = calling[i]
      /\ Top = calling[m]
  BY <1>1, <1>2, <1>3, <1>4, HookTop
<1>6. PICK k : k = Top.msg
  OBVIOUS
<1>7. k \in HookKinds /\ Carries(calling[m]) /\ calling[m].msg = k
  BY <1>1, <1>2, <1>3, <1>5, <1>6 DEF Shape, Carries
<1>8. seen' \in [HookKinds -> Nat]
  BY <1>1, <1>2, <1>6, <1>7 DEF HookTypes
<1>9. \A i, j \in 1..(m - 1) : Carries(c[i]) /\ Carries(c[j]) /\ c[i].msg = c[j].msg => i = j
  BY <1>2, <1>3, <1>5 DEF OnTheirWay
<1>10. Arriving(k) /\ ~(\E i \in 1..(m - 1) : c[i].msg = k /\ Carries(c[i]))
  <2>1. Arriving(k)
    BY <1>3, <1>7 DEF Arriving
  <2>2. m \in 1..m /\ \A i \in 1..(m - 1) : i # m /\ i \in 1..m
    BY <1>3
  <2>3. \A i \in 1..m : Carries(calling[i]) /\ calling[i].msg = k => i = m
    BY <2>2, <1>2, <1>3, <1>7 DEF OnTheirWay
  <2> QED
    BY <2>1, <2>2, <2>3, <1>5
<1>11. \A h : h # k => ((\E i \in 1..(m - 1) : c[i].msg = h /\ Carries(c[i])) <=> Arriving(h))
  BY <1>3, <1>5, <1>7 DEF Arriving
<1>12. \A h : Arriving(h)' <=> \E i \in 1..(m - 1) : c[i].msg = h /\ Carries(c[i])
  BY <1>4, <1>5 DEF Arriving, Carries
<1>13. \A h \in HookKinds : sent'[h] = seen'[h] + (IF Arriving(h)' THEN 1 ELSE 0)
  <2> SUFFICES ASSUME NEW h \in HookKinds
               PROVE  sent'[h] = seen'[h] + (IF Arriving(h)' THEN 1 ELSE 0)
    OBVIOUS
  <2>1. sent[h] = seen[h] + (IF Arriving(h) THEN 1 ELSE 0) /\ seen[h] \in Nat /\ sent'[h] = sent[h]
    BY <1>1, <1>2 DEF OnTheirWay, HookTypes
  <2>2. CASE h = k
    <3>1. Arriving(h) /\ ~Arriving(h)'
      BY <2>2, <1>10, <1>12
    <3>2. seen'[h] = seen[h] + 1
      BY <2>2, <1>1, <1>2, <1>6, <1>7 DEF HookTypes
    <3> QED
      BY <2>1, <3>1, <3>2
  <2>3. CASE h # k
    <3>1. Arriving(h) <=> Arriving(h)'
      BY <2>3, <1>11, <1>12
    <3>2. seen'[h] = seen[h]
      BY <2>3, <1>1, <1>2, <1>6, <1>7 DEF HookTypes
    <3> QED
      BY <2>1, <3>1, <3>2
  <2> QED
    BY <2>2, <2>3
<1>14. OnTheirWay'
  BY <1>9, <1>13, <1>4, <1>5 DEF OnTheirWay, Carries
<1> QED
  BY <1>1, <1>8, <1>14, PlainReturn

(* Who puts his procedure back after WM_DESTROY finds the chain in place.  *)
LEMMA SubclasserReturnsKeeps ==
  ASSUME HookInv, NEW s \in Subclassers, SubclasserReturns(s) PROVE HookInv'
<1>1. /\ calling # <<>> /\ Top.proc = s /\ Top.at = "out" /\ calling' = Below
      /\ wndproc' = IF Restores(s, "after") THEN found[s] ELSE wndproc
      /\ UNCHANGED <<life, found, plan, hooked, chain, system, attached, sent, seen,
                     calls, crashed>>
  BY DEF SubclasserReturns, Within
<1>2. HookTypes /\ Follows /\ ChainOK /\ NotBelow /\ AtTop
  BY DEF HookInv
<1>3. ~Carries(Top) /\ Top.proc # "DestroyWindow" /\ ~InHook(Top)
      /\ Top.proc \notin {"listener", "class"}
  BY <1>1, HookNames DEF Carries, InHook
<1>4. (\A i \in 1..Len(calling) : Shape(i))' /\ OnTheirWay' /\ AtTop' /\ Nesting'
  BY <1>1, <1>3, PopKeeps
<1>5. PICK m \in Nat : m = Len(calling) /\ m > 0
  BY <1>1, <1>2, HookTop
<1>6. PICK c : c = calling'
  OBVIOUS
<1>7. /\ c \in Seq(CallFrames) /\ Len(c) = m - 1 /\ \A i \in 1..(m - 1) : c[i] = calling[i]
      /\ Top = calling[m]
  BY <1>1, <1>2, <1>5, <1>6, HookTop
<1>8. found[s] \in Subclassers \cup {"windowHook"}
  BY <1>1, <1>2, <1>5, <1>7 DEF Follows, HookTypes
<1>9. PICK w : w = wndproc'
  OBVIOUS
<1>10. w \in {wndproc, found[s]} /\ w \in Subclassers \cup {"windowHook", "class"}
  BY <1>1, <1>2, <1>8, <1>9 DEF HookTypes
<1>11. HookTypes'
  BY <1>1, <1>2, <1>6, <1>7, <1>9, <1>10 DEF HookTypes
<1>12. Follows'
  BY <1>1, <1>2, <1>5, <1>6, <1>7, <1>9, <1>10 DEF Follows
<1>13. \A i \in 1..m : ~(calling[i].msg \in Farewells /\ InHook(calling[i]))
  BY <1>2, <1>3, <1>5, <1>7 DEF AtTop
<1>14. ASSUME Restores(s, "after"), sent["ncdestroy"] = 0 PROVE chain = "class"
  <2>1. plan[s] = [at |-> Top.msg, order |-> "after"] /\ plan[s] \in Plans \cup {NoProc}
        /\ plan[s] # NoProc
    BY <1>2, <1>14, HookNames DEF Restores, HookTypes
  <2>2. Top.msg \in Farewells
    BY <2>1 DEF Plans, Farewells
  <2>3. Top.msg = "destroy"
    BY <2>2, <1>1, <1>14, LastCall DEF Farewells
  <2>4. Restoring("after")
    BY <2>1, <2>3 DEF Restoring
  <2> QED
    BY <2>3, <2>4, <1>1, <1>2, <1>5, <1>7, <1>14 DEF NotBelow
<1>15. ChainOK'
  <2>1. \A i \in 1..(m - 1) : ~(c[i].msg \in Farewells /\ InHook(c[i]))
    BY <1>5, <1>7, <1>13
  <2>2. sent["ncdestroy"] # 0 => chain = NoProc
    BY <1>2, <1>5, <1>13 DEF ChainOK, Farewells
  <2>3. sent["ncdestroy"] = 0 => (chain = NoProc <=> w = "class")
    <3>1. CASE Restores(s, "after")
      BY <3>1, <1>1, <1>8, <1>9, <1>14, HookNames
    <3>2. CASE ~Restores(s, "after")
      BY <3>2, <1>1, <1>2, <1>9 DEF ChainOK
    <3> QED
      BY <3>1, <3>2
  <2> QED
    BY <1>1, <1>2, <1>6, <1>7, <1>9, <2>1, <2>2, <2>3 DEF ChainOK, InHook
<1>16. NotBelow'
  <2>1. \A i \in 1..(m - 1) : ~(c[i].msg = "destroy" /\ InHook(c[i]))
    BY <1>5, <1>7, <1>13 DEF Farewells
  <2>2. sent["ncdestroy"] = 0 /\ Restoring("after") =>
          \A i \in 1..(m - 1) : c[i].proc \in Subclassers /\ c[i].msg = "destroy" => chain = "class"
    BY <1>2, <1>5, <1>7 DEF NotBelow
  <2> QED
    BY <1>1, <1>6, <1>7, <2>1, <2>2 DEF NotBelow, InHook, Restoring
<1> QED
  BY <1>4, <1>11, <1>12, <1>15, <1>16 DEF HookInv

(* The window is gone: nothing of it is under way.                         *)
LEMMA WindowDestroyedKeeps == ASSUME HookInv, WindowDestroyed PROVE HookInv'
<1>1. /\ calling # <<>> /\ Top.proc = "DestroyWindow" /\ Top.at = "out" /\ calling' = Below
      /\ life' = "gone"
      /\ UNCHANGED <<wndproc, found, plan, hooked, chain, system, attached, sent, seen,
                     calls, crashed>>
  BY DEF WindowDestroyed, Within
<1>2. HookTypes /\ Follows /\ OnTheirWay /\ AtTop /\ Nesting /\ ChainOK
  BY DEF HookInv
<1>3. PICK m \in Nat : m = Len(calling) /\ m > 0
  BY <1>1, <1>2, HookTop
<1>4. PICK c : c = calling'
  OBVIOUS
<1>5. /\ c \in Seq(CallFrames) /\ Len(c) = m - 1 /\ \A i \in 1..(m - 1) : c[i] = calling[i]
      /\ Top = calling[m]
  BY <1>1, <1>2, <1>3, <1>4, HookTop
<1>6. \A i \in 1..m : Shape(i)
  BY <1>3 DEF HookInv
<1>7. /\ calling[m].msg = NoProc /\ \A i \in 1..(m - 1) : calling[i].msg = "other"
      /\ sent["ncdestroy"] # 0
  BY <1>1, <1>2, <1>3, <1>5, <1>6 DEF Nesting, Shape
<1>8. NoProc # "other" /\ "other" \notin Farewells /\ NoProc \notin Farewells
  BY HookNames DEF Farewells, HookKinds
<1>9. \A i \in 1..(m - 1) : c[i].msg = "other"
  BY <1>5, <1>7
<1>10. chain = NoProc
  <2>1. \A i \in 1..m : calling[i].msg # "ncdestroy"
    BY <1>3, <1>7, HookNames DEF HookKinds
  <2> QED
    BY <2>1, <1>2, <1>3, <1>7 DEF ChainOK
<1>11. HookTypes'
  BY <1>1, <1>2, <1>4, <1>5 DEF HookTypes
<1>12. Follows'
  BY <1>1, <1>2, <1>3, <1>4, <1>5 DEF Follows
<1>13. ASSUME NEW i \in 1..(m - 1) PROVE Shape(i)'
  <2>1. i \in 1..m /\ Shape(i) /\ (i > 1 => i - 1 \in 1..(m - 1))
    BY <1>3, <1>6
  <2>2. c[i] = calling[i] /\ (i > 1 => c[i - 1] = calling[i - 1])
    BY <1>5, <2>1
  <2> QED
    BY <1>4, <2>1, <2>2 DEF Shape
<1>14. OnTheirWay'
  <2>1. ~Carries(calling[m])
    BY <1>1, <1>5, HookNames DEF Carries
  <2>2. \A k : (\E i \in 1..(m - 1) : c[i].msg = k /\ Carries(c[i])) <=> Arriving(k)
    BY <2>1, <1>3, <1>5 DEF Arriving
  <2>3. \A k : Arriving(k)' <=> Arriving(k)
    BY <2>2, <1>4, <1>5 DEF Arriving, Carries
  <2>4. \A i, j \in 1..(m - 1) : Carries(c[i]) /\ Carries(c[j]) /\ c[i].msg = c[j].msg => i = j
    BY <1>2, <1>3, <1>5 DEF OnTheirWay
  <2>5. \A k \in HookKinds : sent'[k] = seen'[k] + (IF Arriving(k)' THEN 1 ELSE 0)
    BY <1>1, <1>2, <2>3 DEF OnTheirWay
  <2> QED
    BY <2>4, <2>5, <1>4, <1>5 DEF OnTheirWay, Carries
<1>15. AtTop'
  <2>1. ASSUME NEW i \in 1..(m - 1)
        PROVE  c[i].msg \notin Farewells /\ ~(InHook(c[i]) /\ c[i].at = "in")
    <3>1. i \in 1..m /\ i # m /\ c[i] = calling[i] /\ c[i].msg = "other"
      BY <1>3, <1>5, <1>9
    <3> QED
      BY <3>1, <1>2, <1>3, <1>8 DEF AtTop
  <2> QED
    BY <2>1, <1>4, <1>5 DEF AtTop, Carries, InHook
<1>16. Nesting'
  <2>1. ASSUME NEW i \in 1..(m - 1) PROVE c[i].proc # "DestroyWindow"
    <3>1. i \in 1..m /\ Shape(i) /\ c[i] = calling[i] /\ c[i].msg = "other"
      BY <1>3, <1>5, <1>6, <1>9
    <3> QED
      BY <3>1, <1>8 DEF Shape
  <2> QED
    BY <2>1, <1>1, <1>4, <1>5, <1>9 DEF Nesting
<1>17. ChainOK'
  BY <1>1, <1>2, <1>4, <1>5, <1>7, <1>8, <1>9, <1>10 DEF ChainOK
<1>18. NotBelow'
  BY <1>1, <1>7 DEF NotBelow
<1> QED
  BY <1>4, <1>5, <1>11, <1>12, <1>13, <1>14, <1>15, <1>16, <1>17, <1>18 DEF HookInv

(* The hook has the chain when it takes itself out.                        *)
LEMMA HookReturnKeeps == ASSUME HookInv, HookReturn PROVE HookInv'
<1>1. /\ calling # <<>> /\ Top.proc = "windowHook" /\ Top.at = "out" /\ calling' = Below
      /\ UNCHANGED <<life, found, plan, sent, seen, calls>>
  BY DEF HookReturn, Within
<1>2. HookTypes /\ Follows /\ OnTheirWay /\ AtTop /\ Nesting /\ ChainOK /\ NotBelow
  BY DEF HookInv
<1>3. PICK m \in Nat : m = Len(calling) /\ m > 0
  BY <1>1, <1>2, HookTop
<1>4. PICK c : c = calling'
  OBVIOUS
<1>5. /\ c \in Seq(CallFrames) /\ Len(c) = m - 1 /\ \A i \in 1..(m - 1) : c[i] = calling[i]
      /\ Top = calling[m]
  BY <1>1, <1>2, <1>3, <1>4, HookTop
<1>6. ~Carries(Top) /\ Top.proc # "DestroyWindow" /\ InHook(Top)
      /\ Top.proc \notin {"listener", "class"}
  BY <1>1, HookNames DEF Carries, InHook
<1>7. (\A i \in 1..Len(calling) : Shape(i))' /\ OnTheirWay' /\ AtTop' /\ Nesting'
  BY <1>1, <1>6, PopKeeps
<1>8. Top.msg \in HookKinds
  BY <1>1, <1>3, <1>5 DEF HookInv, Shape
<1>9. \A i \in 1..(m - 1) : ~(c[i].msg \in Farewells /\ InHook(c[i]))
  BY <1>2, <1>3, <1>5, <1>6 DEF AtTop
<1>10. CASE Top.msg # "other" /\ wndproc = "windowHook" /\ HookReturn
            /\ wndproc' = chain /\ crashed' = (chain = NoProc) /\ hooked' = FALSE /\ NotifyDestroy
  <2>1. Top.msg \in Farewells
    BY <1>8, <1>10 DEF Farewells, HookKinds
  <2>2. chain = "class" /\ chain # NoProc
    BY <2>1, <1>2, <1>3, <1>5, <1>6, HookNames DEF ChainOK
  <2>3. wndproc' = "class" /\ crashed' = FALSE /\ hooked' = FALSE
        /\ chain' = NoProc /\ system' = FALSE /\ attached' = {}
    BY <2>2, <1>10 DEF NotifyDestroy
  <2>4. HookTypes'
    BY <2>3, <1>1, <1>2, <1>4, <1>5 DEF HookTypes
  <2>5. Follows'
    BY <2>3, <1>1, <1>2, <1>3, <1>4, <1>5, HookNames DEF Follows
  <2>6. life # "created" /\ (Top.msg = "ncdestroy" => sent["ncdestroy"] # 0)
    BY <2>1, <1>1, LastCall
  <2>7. ChainOK'
    BY <2>3, <2>6, <1>1, <1>4, <1>5, <1>9 DEF ChainOK, InHook
  <2>8. ASSUME sent["ncdestroy"] = 0, Restoring("after"), NEW i \in 1..(m - 1),
               c[i].proc \in Subclassers, c[i].msg = "destroy"
        PROVE  FALSE
    <3>1. Top.msg = "destroy"
      BY <2>1, <2>6, <2>8 DEF Farewells
    <3>2. i \in 1..m /\ m \in 1..m /\ calling[i] = c[i]
      BY <1>3, <1>5
    <3>3. wndproc \in Subclassers
      BY <2>8, <3>1, <3>2, <1>2, <1>3, <1>5, <1>6 DEF NotBelow
    <3> QED
      BY <3>3, <1>10, HookNames
  <2>9. NotBelow'
    BY <2>8, <1>1, <1>4, <1>5 DEF NotBelow, Restoring
  <2> QED
    BY <2>4, <2>5, <2>7, <2>9, <1>7 DEF HookInv
<1>11. CASE Top.msg = "ncdestroy" /\ wndproc # "windowHook" /\ hooked' = FALSE
            /\ NotifyDestroy /\ UNCHANGED <<wndproc, crashed>>
  <2>1. chain' = NoProc /\ system' = FALSE /\ attached' = {} /\ hooked' = FALSE
    BY <1>11 DEF NotifyDestroy
  <2>2. sent["ncdestroy"] # 0 /\ life # "created"
    BY <1>1, <1>11, LastCall DEF Farewells
  <2>3. HookTypes'
    BY <2>1, <1>1, <1>2, <1>4, <1>5, <1>11 DEF HookTypes
  <2>4. Follows'
    BY <1>1, <1>2, <1>3, <1>4, <1>5, <1>11 DEF Follows
  <2>5. ChainOK'
    BY <2>1, <2>2, <1>1, <1>4, <1>5, <1>9 DEF ChainOK, InHook
  <2>6. NotBelow'
    BY <2>2, <1>1 DEF NotBelow
  <2> QED
    BY <2>3, <2>4, <2>5, <2>6, <1>7 DEF HookInv
<1>12. CASE (Top.msg = "other" \/ (Top.msg = "destroy" /\ wndproc # "windowHook"))
            /\ UNCHANGED <<wndproc, hooked, chain, system, attached, crashed>>
  <2>1. HookTypes'
    BY <1>1, <1>2, <1>4, <1>5, <1>12 DEF HookTypes
  <2>2. Follows'
    BY <1>1, <1>2, <1>3, <1>4, <1>5, <1>12 DEF Follows
  <2>3. sent["ncdestroy"] # 0 => chain = NoProc
    <3>1. \A i \in 1..m : ~(calling[i].msg = "ncdestroy" /\ InHook(calling[i]))
      BY <1>3, <1>5, <1>9, <1>12 DEF Farewells
    <3> QED
      BY <3>1, <1>2, <1>3 DEF ChainOK
  <2>4. ChainOK'
    BY <2>3, <1>1, <1>2, <1>4, <1>5, <1>9, <1>12 DEF ChainOK, InHook
  <2>5. sent["ncdestroy"] = 0 /\ Restoring("after") =>
          \A i \in 1..(m - 1) : c[i].proc \in Subclassers /\ c[i].msg = "destroy" => chain = "class"
    BY <1>2, <1>3, <1>5 DEF NotBelow
  <2>6. \A i \in 1..(m - 1) : ~(c[i].msg = "destroy" /\ InHook(c[i]))
    BY <1>9 DEF Farewells
  <2>7. NotBelow'
    BY <2>5, <2>6, <1>1, <1>4, <1>5, <1>12 DEF NotBelow, InHook, Restoring
  <2> QED
    BY <2>1, <2>2, <2>4, <2>7, <1>7 DEF HookInv
<1> QED
  BY <1>10, <1>11, <1>12 DEF HookReturn

LEMMA PushTop ==
  ASSUME HookTypes, calling # <<>>, NEW f \in CallFrames, NEW g \in CallFrames,
         calling' = Append([calling EXCEPT ![Len(calling)] = f], g)
  PROVE  /\ calling' \in Seq(CallFrames) /\ Len(calling') = Len(calling) + 1
         /\ \A i \in 1..(Len(calling) - 1) : calling'[i] = calling[i]
         /\ calling'[Len(calling)] = f /\ calling'[Len(calling) + 1] = g
<1>1. calling \in Seq(CallFrames)
  BY DEF HookTypes
<1>2. PICK m \in Nat : m = Len(calling) /\ m > 0
  BY HookTop
<1>3. PICK b : b = [calling EXCEPT ![m] = f]
  OBVIOUS
<1>4. /\ b \in Seq(CallFrames) /\ Len(b) = m /\ b[m] = f
      /\ \A i \in 1..(m - 1) : b[i] = calling[i]
  BY <1>1, <1>2, <1>3
<1>5. calling' = Append(b, g)
  BY <1>2, <1>3
<1>6. /\ Append(b, g) \in Seq(CallFrames) /\ Len(Append(b, g)) = m + 1
      /\ \A i \in 1..m : Append(b, g)[i] = b[i]
      /\ Append(b, g)[m + 1] = g
  BY <1>2, <1>4
<1>7. m \in 1..m /\ \A i \in 1..(m - 1) : i \in 1..m
  BY <1>2
<1> QED
  BY <1>2, <1>4, <1>5, <1>6, <1>7

LEMMA TopType ==
  ASSUME HookTypes, calling # <<>>, NEW a \in {"in", "notify", "nc", "out"},
         NEW p \in Procedures, NEW k \in HookKinds
  PROVE  /\ [Top EXCEPT !.at = a] \in CallFrames
         /\ [Top EXCEPT !.at = a].proc = Top.proc /\ [Top EXCEPT !.at = a].msg = Top.msg
         /\ [Top EXCEPT !.at = a].next = Top.next /\ [Top EXCEPT !.at = a].at = a
         /\ Call(p, k) \in CallFrames /\ Call(p, k).proc = p /\ Call(p, k).msg = k
         /\ Call(p, k).at = "in"
<1>1. Top \in CallFrames
  BY HookTop
<1> QED
  BY <1>1 DEF CallFrames, Call

(* A message goes on from who carries it to the next procedure.            *)
LEMMA OnwardKeeps ==
  ASSUME HookInv, calling # <<>>, NEW f \in CallFrames, NEW g \in CallFrames,
         calling' = Append([calling EXCEPT ![Len(calling)] = f], g),
         UNCHANGED <<life, sent, seen>>,
         Carries(Top), Top.proc # "class", Top.msg \in HookKinds,
         f.proc = Top.proc, f.msg = Top.msg, ~Carries(f),
         ~(InHook(f) /\ f.at = "in"), InHook(f) => g.proc = "class",
         g.msg = Top.msg, Carries(g), g.at = "in",
         Top.msg = "other" /\ InHook(g) => life = "created"
  PROVE  OnTheirWay' /\ AtTop' /\ Nesting'
<1>1. HookTypes /\ OnTheirWay /\ AtTop /\ Nesting
  BY DEF HookInv
<1>2. PICK m \in Nat : m = Len(calling) /\ m > 0 /\ Top = calling[m]
  BY <1>1, HookTop
<1>3. PICK c : c = calling'
  OBVIOUS
<1>4. /\ Len(c) = m + 1 /\ c[m] = f /\ c[m + 1] = g
      /\ \A i \in 1..(m - 1) : c[i] = calling[i]
  BY <1>1, <1>2, <1>3, PushTop
<1>5. Top.proc \in Subclassers \cup {"windowHook"}
      /\ Top.proc # "listener" /\ Top.proc # "DestroyWindow"
      /\ g.proc # "listener" /\ g.proc # "DestroyWindow"
  BY HookNames DEF Carries
<1>6. PICK k : k = Top.msg
  OBVIOUS
<1>7. OnTheirWay'
  <2>1. m \in 1..m /\ \A i \in 1..(m - 1) : i # m /\ i \in 1..m
    BY <1>2
  <2>2. \A i \in 1..(m - 1) : ~(Carries(c[i]) /\ c[i].msg = k)
    BY <2>1, <1>1, <1>2, <1>4, <1>6 DEF OnTheirWay
  <2>3. \A i, j \in 1..(m - 1) : Carries(c[i]) /\ Carries(c[j]) /\ c[i].msg = c[j].msg => i = j
    <3>1. \A i, j \in 1..m : Carries(calling[i]) /\ Carries(calling[j])
                           /\ calling[i].msg = calling[j].msg => i = j
      BY <1>1, <1>2 DEF OnTheirWay
    <3> QED
      BY <3>1, <2>1, <1>4
  <2>4. \A i \in 1..(m + 1) : Carries(c[i]) => i = m + 1 \/ i \in 1..(m - 1)
    BY <1>2, <1>4
  <2>5. \A i, j \in 1..(m + 1) : Carries(c[i]) /\ Carries(c[j]) /\ c[i].msg = c[j].msg => i = j
    BY <2>2, <2>3, <2>4, <1>4, <1>6
  <2>6. Arriving(k) /\ \E i \in 1..(m + 1) : c[i].msg = k /\ Carries(c[i])
    <3>1. m \in 1..Len(calling) /\ calling[m].msg = k /\ Carries(calling[m])
      BY <2>1, <1>2, <1>6
    <3>2. m + 1 \in 1..(m + 1) /\ c[m + 1].msg = k /\ Carries(c[m + 1])
      BY <1>2, <1>4, <1>6
    <3> QED
      BY <3>1, <3>2 DEF Arriving
  <2>7. \A h : h # k =>
          ((\E i \in 1..(m + 1) : c[i].msg = h /\ Carries(c[i])) <=> Arriving(h))
    <3> SUFFICES ASSUME NEW h, h # k
                 PROVE  (\E i \in 1..(m + 1) : c[i].msg = h /\ Carries(c[i])) <=> Arriving(h)
      OBVIOUS
    <3>1. \A i \in 1..(m + 1) : c[i].msg = h /\ Carries(c[i]) =>
            i \in 1..m /\ calling[i].msg = h /\ Carries(calling[i])
      BY <2>1, <2>4, <1>4, <1>6
    <3>2. \A i \in 1..m : calling[i].msg = h /\ Carries(calling[i]) =>
            i \in 1..(m - 1) /\ i \in 1..(m + 1) /\ c[i] = calling[i]
      BY <1>2, <1>4, <1>6
    <3> QED
      BY <3>1, <3>2, <1>2 DEF Arriving
  <2>8. \A h : Arriving(h)' <=> \E i \in 1..(m + 1) : c[i].msg = h /\ Carries(c[i])
    BY <1>3, <1>4 DEF Arriving, Carries
  <2>9. \A h : Arriving(h)' <=> Arriving(h)
    BY <2>6, <2>7, <2>8
  <2>10. \A h \in HookKinds : sent'[h] = seen'[h] + (IF Arriving(h)' THEN 1 ELSE 0)
    BY <2>9, <1>1 DEF OnTheirWay
  <2> QED
    BY <2>5, <2>10, <1>3, <1>4 DEF OnTheirWay, Carries
<1>8. ASSUME NEW i \in 1..(m - 1)
      PROVE  /\ ~(c[i].msg \in Farewells /\ (Carries(c[i]) \/ InHook(c[i])))
             /\ ~(c[i].msg \in Farewells /\ c[i].proc = "listener")
             /\ ~(c[i].msg = "other" /\ InHook(c[i]) /\ c[i].at = "in")
  <2>1. i \in 1..m /\ i # m /\ c[i] = calling[i] /\ Top.proc \notin {"listener", "class"}
    BY <1>2, <1>4, <1>5
  <2> QED
    BY <2>1, <1>1, <1>2 DEF AtTop
<1>9. AtTop'
  <2>1. ASSUME NEW i \in 1..(m + 1)
        PROVE  /\ c[i].msg \in Farewells /\ (Carries(c[i]) \/ InHook(c[i])) =>
                    i = m + 1 \/ (i = m /\ c[m + 1].proc \in {"listener", "class"})
               /\ c[i].msg \in Farewells /\ c[i].proc = "listener" => i = m + 1
               /\ c[i].msg = "other" /\ InHook(c[i]) /\ c[i].at = "in" =>
                    i = m + 1 /\ life = "created"
    <3>1. CASE i \in 1..(m - 1)
      BY <3>1, <1>8
    <3>2. CASE i = m
      BY <3>2, <1>4, <1>5
    <3>3. CASE i = m + 1
      BY <3>3, <1>4
    <3> QED
      BY <3>1, <3>2, <3>3, <1>2
  <2>2. Top' = c[m + 1]
    BY <1>3, <1>4 DEF Top
  <2> QED
    BY <2>1, <2>2, <1>2, <1>3, <1>4 DEF AtTop, Carries, InHook
<1>10. Nesting'
  <2>1. ASSUME NEW i \in 1..(m + 1), c[i].proc = "DestroyWindow"
        PROVE  /\ \A j \in 1..(i - 1) : c[j].msg = "other"
               /\ \A j \in (i + 1)..(m + 1) :
                    c[j].msg = IF c[i].at = "nc" THEN "destroy" ELSE "ncdestroy"
               /\ c[i].at # "in"
               /\ c[i].at = "out" <=> sent["ncdestroy"] # 0
    <3>1. i \in 1..(m - 1)
      BY <2>1, <1>2, <1>4, <1>5
    <3>2. i \in 1..m /\ i # m /\ c[i] = calling[i]
      BY <3>1, <1>2, <1>4
    <3>3. /\ \A j \in 1..(i - 1) : calling[j].msg = "other"
          /\ \A j \in (i + 1)..m :
               calling[j].msg = IF calling[i].at = "nc" THEN "destroy" ELSE "ncdestroy"
          /\ calling[i].at # "in"
          /\ calling[i].at = "out" <=> sent["ncdestroy"] # 0
      BY <2>1, <3>2, <1>1, <1>2 DEF Nesting
    <3>4. /\ \A j \in 1..(i - 1) : j \in 1..(m - 1)
          /\ m \in (i + 1)..m
          /\ \A j \in (i + 1)..(m + 1) :
               (j \in (i + 1)..m /\ j \in 1..(m - 1)) \/ j = m \/ j = m + 1
      BY <3>1, <1>2
    <3> QED
      BY <3>2, <3>3, <3>4, <1>2, <1>4
  <2>2. \A i \in 1..(m + 1) : c[i].msg # "other" => life = "destroying"
    <3>1. m \in 1..m /\ \A i \in 1..(m + 1) : i \in 1..(m - 1) \/ i = m \/ i = m + 1
      BY <1>2
    <3>2. \A i \in 1..m : calling[i].msg # "other" => life = "destroying"
      BY <1>1, <1>2 DEF Nesting
    <3>3. \A i \in 1..(m - 1) : i \in 1..m
      BY <1>2
    <3> QED
      BY <3>1, <3>2, <3>3, <1>2, <1>4
  <2>3. life = "destroying" => \E i \in 1..(m + 1) : c[i].proc = "DestroyWindow"
    <3>1. \A i \in 1..m : i \in 1..(m + 1) /\ (i \in 1..(m - 1) \/ i = m)
      BY <1>2
    <3> QED
      BY <3>1, <1>1, <1>2, <1>4 DEF Nesting
  <2> QED
    BY <2>1, <2>2, <2>3, <1>2, <1>3, <1>4 DEF Nesting
<1> QED
  BY <1>7, <1>9, <1>10

LEMMA HookPassOnKeeps == ASSUME HookInv, HookPassOn PROVE HookInv'
<1>1. /\ calling # <<>> /\ Top.proc = "windowHook" /\ Top.at = "notify"
      /\ UNCHANGED <<life, wndproc, found, plan, hooked, chain, system, attached, sent, seen,
                     calls, crashed>>
  BY DEF HookPassOn, Within
<1>2. HookTypes /\ Follows /\ AtTop /\ ChainOK /\ NotBelow
  BY DEF HookInv
<1>3. PICK m \in Nat : m = Len(calling) /\ m > 0 /\ Top = calling[m]
  BY <1>1, <1>2, HookTop
<1>4. m \in 1..m /\ Shape(m)
  BY <1>3 DEF HookInv
<1>5. Top.msg \in HookKinds /\ Top.next = "class" /\ Top.next # NoProc
  BY <1>1, <1>3, <1>4, HookNames DEF Shape
<1>6. PICK f : f = [Top EXCEPT !.at = "out"]
  OBVIOUS
<1>7. PICK g : g = Call("class", Top.msg)
  OBVIOUS
<1>8. calling' = Append([calling EXCEPT ![Len(calling)] = f], g)
  BY <1>5, <1>6, <1>7 DEF HookPassOn, Top
<1>9. /\ f \in CallFrames /\ f.proc = "windowHook" /\ f.msg = Top.msg /\ f.at = "out"
      /\ g \in CallFrames /\ g.proc = "class" /\ g.msg = Top.msg /\ g.at = "in"
  <2>1. "class" \in Procedures /\ "out" \in {"in", "notify", "nc", "out"}
    BY DEF Procedures
  <2> QED
    BY <2>1, <1>1, <1>2, <1>5, <1>6, <1>7, TopType
<1>10. Carries(Top) /\ ~Carries(f) /\ Carries(g) /\ InHook(Top) /\ InHook(f) /\ ~InHook(g)
  BY <1>1, <1>9, HookNames DEF Carries, InHook
<1>11. OnTheirWay' /\ AtTop' /\ Nesting'
  BY <1>1, <1>5, <1>8, <1>9, <1>10, OnwardKeeps
<1>12. PICK c : c = calling'
  OBVIOUS
<1>13. /\ c \in Seq(CallFrames) /\ Len(c) = m + 1 /\ c[m] = f /\ c[m + 1] = g
       /\ \A i \in 1..(m - 1) : c[i] = calling[i]
  BY <1>1, <1>2, <1>3, <1>8, <1>9, <1>12, PushTop
<1>14. HookTypes'
  BY <1>1, <1>2, <1>12, <1>13 DEF HookTypes
<1>15. \A i \in 1..(m + 1) : i \in 1..m \/ i = m + 1
  BY <1>3
<1>16. \A i \in 1..m : c[i].proc = calling[i].proc /\ c[i].msg = calling[i].msg
                       /\ (InHook(c[i]) <=> InHook(calling[i]))
  BY <1>1, <1>3, <1>9, <1>10, <1>13
<1>17. Follows'
  <2>1. \A s \in Subclassers : ~(\E i \in 1..m : calling[i].proc = s) =>
          ~(\E i \in 1..(m + 1) : c[i].proc = s)
    BY <1>9, <1>13, <1>15, <1>16, HookNames
  <2> QED
    BY <2>1, <1>1, <1>2, <1>3, <1>12, <1>13 DEF Follows
<1>18. ASSUME NEW i \in 1..(m + 1) PROVE Shape(i)'
  <2>1. CASE i \in 1..(m - 1)
    <3>1. i \in 1..m /\ Shape(i) /\ (i > 1 => i - 1 \in 1..(m - 1))
      BY <2>1, <1>3 DEF HookInv
    <3>2. c[i] = calling[i] /\ (i > 1 => c[i - 1] = calling[i - 1])
      BY <1>13, <2>1, <3>1
    <3> QED
      BY <1>12, <3>1, <3>2 DEF Shape
  <2>2. CASE i = m
    BY <2>2, <1>5, <1>9, <1>12, <1>13, HookNames DEF Shape
  <2>3. CASE i = m + 1
    BY <2>3, <1>5, <1>9, <1>12, <1>13, HookNames DEF Shape
  <2> QED
    BY <2>1, <2>2, <2>3, <1>3
<1>19. ChainOK'
  <2>1. \A i \in 1..(m + 1) : c[i].msg \in Farewells /\ InHook(c[i]) => chain = "class"
    BY <1>2, <1>3, <1>10, <1>13, <1>15, <1>16 DEF ChainOK
  <2>2. sent["ncdestroy"] # 0 => chain = NoProc
          \/ \E i \in 1..(m + 1) : c[i].msg = "ncdestroy" /\ InHook(c[i])
    <3>1. \A i \in 1..m : i \in 1..(m + 1)
      BY <1>3
    <3> QED
      BY <3>1, <1>2, <1>3, <1>16 DEF ChainOK
  <2> QED
    BY <2>1, <2>2, <1>1, <1>2, <1>12, <1>13 DEF ChainOK, InHook
<1>20. NotBelow'
  <2>1. \A i \in 1..(m + 1) : c[i].proc \in Subclassers =>
          i \in 1..m /\ calling[i].proc = c[i].proc /\ calling[i].msg = c[i].msg
    BY <1>9, <1>13, <1>15, <1>16, HookNames
  <2>2. \A i \in 1..(m + 1) : InHook(c[i]) =>
          i \in 1..m /\ InHook(calling[i]) /\ calling[i].msg = c[i].msg
    BY <1>10, <1>13, <1>15, <1>16
  <2>3. sent["ncdestroy"] = 0 /\ Restoring("after") =>
          \A i \in 1..(m + 1) : c[i].proc \in Subclassers /\ c[i].msg = "destroy" =>
            /\ chain = "class"
            /\ \A j \in 1..(m + 1) : c[j].msg = "destroy" /\ InHook(c[j]) =>
                 wndproc \in Subclassers
    BY <2>1, <2>2, <1>2, <1>3 DEF NotBelow
  <2> QED
    BY <2>3, <1>1, <1>12, <1>13 DEF NotBelow, InHook, Restoring
<1> QED
  BY <1>11, <1>12, <1>13, <1>14, <1>17, <1>18, <1>19, <1>20 DEF HookInv

(* Who comes in has found the hook, or another above it.                   *)
LEMMA SubclasserEntersKeeps ==
  ASSUME HookInv, NEW s \in Subclassers, SubclasserEnters(s), OneOrder(plan)
  PROVE  HookInv'
<1>1. /\ calling # <<>> /\ Top.proc = s /\ Top.at = "in"
      /\ wndproc' = IF Restores(s, "before") THEN found[s] ELSE wndproc
      /\ UNCHANGED <<life, found, plan, hooked, chain, system, attached, sent, seen,
                     calls, crashed>>
  BY DEF SubclasserEnters, Within
<1>2. HookTypes /\ Follows /\ AtTop /\ ChainOK /\ NotBelow
  BY DEF HookInv
<1>3. PICK m \in Nat : m = Len(calling) /\ m > 0 /\ Top = calling[m]
  BY <1>1, <1>2, HookTop
<1>4. m \in 1..m /\ Shape(m)
  BY <1>3 DEF HookInv
<1>5. Top.msg \in HookKinds
  BY <1>1, <1>3, <1>4 DEF Shape
<1>6. found[s] \in Subclassers \cup {"windowHook"}
  BY <1>1, <1>2, <1>3, <1>4 DEF Follows, HookTypes
<1>7. PICK f : f = [Top EXCEPT !.at = "out"]
  OBVIOUS
<1>8. PICK g : g = Call(found[s], Top.msg)
  OBVIOUS
<1>9. calling' = Append([calling EXCEPT ![Len(calling)] = f], g)
  BY <1>7, <1>8 DEF SubclasserEnters, Top
<1>10. /\ f \in CallFrames /\ f.proc = s /\ f.msg = Top.msg /\ f.at = "out"
       /\ g \in CallFrames /\ g.proc = found[s] /\ g.msg = Top.msg /\ g.at = "in"
  <2>1. found[s] \in Procedures /\ "out" \in {"in", "notify", "nc", "out"}
    BY <1>6 DEF Procedures
  <2> QED
    BY <2>1, <1>1, <1>2, <1>5, <1>7, <1>8, TopType
<1>11. Carries(Top) /\ ~Carries(f) /\ Carries(g) /\ InHook(Top) /\ ~InHook(f) /\ InHook(g)
  BY <1>1, <1>6, <1>10, HookNames DEF Carries, InHook
<1>12. Top.proc \notin {"listener", "class"} /\ (Top.msg = "other" => life = "created")
  BY <1>1, <1>2, <1>3, <1>4, <1>11, HookNames DEF AtTop
<1>13. OnTheirWay' /\ AtTop' /\ Nesting'
  BY <1>1, <1>5, <1>9, <1>10, <1>11, <1>12, OnwardKeeps
<1>14. PICK c : c = calling'
  OBVIOUS
<1>15. /\ c \in Seq(CallFrames) /\ Len(c) = m + 1 /\ c[m] = f /\ c[m + 1] = g
       /\ \A i \in 1..(m - 1) : c[i] = calling[i]
  BY <1>1, <1>2, <1>3, <1>9, <1>10, <1>14, PushTop
<1>16. PICK w : w = wndproc'
  OBVIOUS
<1>17. w \in {wndproc, found[s]} /\ w \in Subclassers \cup {"windowHook", "class"}
  BY <1>1, <1>2, <1>6, <1>16 DEF HookTypes
<1>18. HookTypes'
  BY <1>1, <1>2, <1>14, <1>15, <1>16, <1>17 DEF HookTypes
<1>19. \A i \in 1..(m + 1) : i \in 1..m \/ i = m + 1
  BY <1>3
<1>20. \A i \in 1..m : c[i].proc = calling[i].proc /\ c[i].msg = calling[i].msg
  BY <1>1, <1>3, <1>10, <1>15
<1>21. Follows'
  <2>1. \A t \in Subclassers :
          (\E i \in 1..(m + 1) : c[i].proc = t) =>
            t = found[s] \/ \E i \in 1..m : calling[i].proc = t
    BY <1>10, <1>15, <1>19, <1>20
  <2> QED
    BY <2>1, <1>1, <1>2, <1>3, <1>14, <1>15, <1>16, <1>17 DEF Follows
<1>22. ASSUME NEW i \in 1..(m + 1) PROVE Shape(i)'
  <2>1. CASE i \in 1..(m - 1)
    <3>1. i \in 1..m /\ Shape(i) /\ (i > 1 => i - 1 \in 1..(m - 1))
      BY <2>1, <1>3 DEF HookInv
    <3>2. c[i] = calling[i] /\ (i > 1 => c[i - 1] = calling[i - 1])
      BY <1>15, <2>1, <3>1
    <3> QED
      BY <1>14, <3>1, <3>2 DEF Shape
  <2>2. CASE i = m
    BY <2>2, <1>5, <1>10, <1>14, <1>15, HookNames DEF Shape
  <2>3. CASE i = m + 1
    BY <2>3, <1>5, <1>6, <1>10, <1>14, <1>15, HookNames DEF Shape
  <2> QED
    BY <2>1, <2>2, <2>3, <1>3
<1>23. Top.msg \in Farewells => chain = "class"
  BY <1>2, <1>3, <1>4, <1>11 DEF ChainOK
<1>24. \A i \in 1..m : ~(c[i].msg \in Farewells /\ InHook(c[i]))
  <2>1. \A i \in 1..(m - 1) : i \in 1..m /\ i # m
    BY <1>3
  <2>2. \A i \in 1..m : i \in 1..(m - 1) \/ i = m
    BY <1>3
  <2> QED
    BY <2>1, <2>2, <1>2, <1>3, <1>11, <1>12, <1>15 DEF AtTop
<1>25. Restores(s, "before") => Top.msg \in Farewells /\ plan[s] = [at |-> Top.msg, order |-> "before"]
                                /\ plan[s] \in Plans
  BY <1>2, HookNames DEF Restores, HookTypes, Plans, Farewells
<1>26. ChainOK'
  <2>1. \A i \in 1..(m + 1) : c[i].msg \in Farewells /\ InHook(c[i]) => chain = "class"
    BY <1>10, <1>15, <1>19, <1>23, <1>24
  <2>2. sent["ncdestroy"] # 0 => chain = NoProc
          \/ \E i \in 1..(m + 1) : c[i].msg = "ncdestroy" /\ InHook(c[i])
    <3>1. \A i \in 1..m : calling[i].msg \in Farewells /\ InHook(calling[i]) => i = m
      BY <1>2, <1>3, <1>12 DEF AtTop
    <3>2. m + 1 \in 1..(m + 1)
      BY <1>3
    <3> QED
      BY <3>1, <3>2, <1>2, <1>3, <1>10, <1>11, <1>15 DEF ChainOK, Farewells
  <2>3. sent["ncdestroy"] = 0 => (chain = NoProc <=> w = "class")
    <3>1. CASE Restores(s, "before")
      BY <3>1, <1>1, <1>6, <1>16, <1>23, <1>25, HookNames
    <3>2. CASE ~Restores(s, "before")
      BY <3>2, <1>1, <1>2, <1>16 DEF ChainOK
    <3> QED
      BY <3>1, <3>2
  <2> QED
    BY <2>1, <2>2, <2>3, <1>1, <1>2, <1>14, <1>15, <1>16 DEF ChainOK, InHook
<1>27. NotBelow'
  <2> SUFFICES ASSUME sent["ncdestroy"] = 0, Restoring("after"),
                      NEW i \in 1..(m + 1), c[i].proc \in Subclassers, c[i].msg = "destroy"
               PROVE  /\ chain = "class"
                      /\ \A j \in 1..(m + 1) : c[j].msg = "destroy" /\ InHook(c[j]) =>
                           w \in Subclassers
    BY <1>1, <1>14, <1>15, <1>16 DEF NotBelow, InHook, Restoring
  <2>1. i \in 1..m => calling[i].proc \in Subclassers /\ calling[i].msg = "destroy"
    BY <1>20
  <2>2. i = m + 1 => Top.msg = "destroy"
    BY <1>10, <1>15
  <2>3. chain = "class"
    BY <2>1, <2>2, <1>2, <1>3, <1>19, <1>23 DEF NotBelow, Farewells
  <2>4. ASSUME NEW j \in 1..(m + 1), c[j].msg = "destroy", InHook(c[j])
        PROVE  w \in Subclassers
    <3>1. Top.msg = "destroy"
      BY <2>4, <1>10, <1>15, <1>19, <1>24 DEF Farewells
    <3>2. wndproc \in Subclassers
      BY <3>1, <1>1, <1>2, <1>3, <1>4, <1>11 DEF NotBelow
    <3>3. ~Restores(s, "before")
      <4> SUFFICES ASSUME Restores(s, "before") PROVE FALSE
        OBVIOUS
      <4>1. plan[s] = [at |-> "destroy", order |-> "before"] /\ plan[s] \in Plans
        BY <3>1, <1>25
      <4>2. PICK t \in Subclassers : plan[t] = [at |-> "destroy", order |-> "after"]
        BY DEF Restoring
      <4>3. plan[t] \in Plans
        BY <4>2 DEF Plans
      <4>4. plan[s].at = "destroy" /\ plan[s].order = "before"
            /\ plan[t].at = "destroy" /\ plan[t].order = "after"
        BY <4>1, <4>2
      <4> QED
        BY <4>1, <4>3, <4>4 DEF OneOrder
    <3> QED
      BY <3>2, <3>3, <1>1, <1>16
  <2> QED
    BY <2>3, <2>4
<1> QED
  BY <1>13, <1>14, <1>15, <1>18, <1>21, <1>22, <1>26, <1>27 DEF HookInv

(* The hook has read the chain, and the chain is there.                    *)
LEMMA HookEnterKeeps == ASSUME HookInv, HookEnter PROVE HookInv'
<1>1. /\ calling # <<>> /\ Top.proc = "windowHook" /\ Top.at = "in"
      /\ UNCHANGED <<life, wndproc, found, plan, hooked, chain, system, attached, sent, seen,
                     calls, crashed>>
  BY DEF HookEnter, Within
<1>2. HookTypes /\ Follows /\ OnTheirWay /\ AtTop /\ Nesting /\ ChainOK /\ NotBelow
  BY DEF HookInv
<1>3. PICK m \in Nat : m = Len(calling) /\ m > 0 /\ Top = calling[m]
  BY <1>1, <1>2, HookTop
<1>4. m \in 1..m /\ Shape(m) /\ calling \in Seq(CallFrames) /\ Top \in CallFrames
  BY <1>1, <1>2, <1>3, HookTop DEF HookInv, HookTypes
<1>5. Top.msg \in HookKinds
  BY <1>1, <1>3, <1>4 DEF Shape
<1>6. PICK todo : todo = (IF Top.msg # "ncdestroy" THEN attached ELSE {})
  OBVIOUS
<1>7. PICK c : c = calling'
  OBVIOUS
<1>8. todo \subseteq Listeners /\ chain \in {"class", NoProc}
  BY <1>2, <1>6 DEF HookTypes
<1>9. c = [calling EXCEPT ![m] = [calling[m] EXCEPT !.at = "notify", !.next = chain, !.todo = todo]]
  BY <1>3, <1>4, <1>6, <1>7 DEF HookEnter
<1>10. PICK f : f = [calling[m] EXCEPT !.at = "notify", !.next = chain, !.todo = todo]
  OBVIOUS
<1>11. f \in CallFrames /\ f.proc = "windowHook" /\ f.msg = Top.msg /\ f.at = "notify"
       /\ f.next = chain
  BY <1>1, <1>3, <1>4, <1>8, <1>10 DEF CallFrames
<1>12. /\ c \in Seq(CallFrames) /\ Len(c) = m /\ c[m] = f
       /\ \A i \in 1..m : i # m => c[i] = calling[i]
  <2>1. c = [calling EXCEPT ![m] = f]
    BY <1>9, <1>10
  <2> QED
    BY <2>1, <1>3, <1>4, <1>11
<1>13. Carries(Top) /\ InHook(Top) /\ Carries(f) /\ InHook(f)
  BY <1>1, <1>11 DEF Carries, InHook
<1>14. \A i \in 1..m : /\ c[i].proc = calling[i].proc /\ c[i].msg = calling[i].msg
                       /\ c[i].at = calling[i].at \/ i = m
                       /\ Carries(c[i]) <=> Carries(calling[i])
                       /\ InHook(c[i]) <=> InHook(calling[i])
  BY <1>1, <1>3, <1>11, <1>12, <1>13
<1>15. chain = "class"
  <2>1. CASE Top.msg = "other"
    BY <2>1, <1>1, <1>2, <1>3, <1>4, <1>13 DEF AtTop, ChainOK
  <2>2. CASE Top.msg # "other"
    BY <2>2, <1>2, <1>3, <1>4, <1>5, <1>13 DEF ChainOK, HookKinds, Farewells
  <2> QED
    BY <2>1, <2>2
<1>16. HookTypes'
  BY <1>1, <1>2, <1>7, <1>12 DEF HookTypes
<1>17. Follows'
  BY <1>1, <1>2, <1>3, <1>7, <1>12, <1>14 DEF Follows
<1>18. ASSUME NEW i \in 1..m PROVE Shape(i)'
  <2>1. CASE i # m
    <3>1. Shape(i) /\ (i > 1 => i - 1 \in 1..m /\ i - 1 # m)
      BY <2>1, <1>3 DEF HookInv
    <3>2. c[i] = calling[i] /\ (i > 1 => c[i - 1] = calling[i - 1])
      BY <1>12, <2>1, <3>1
    <3> QED
      BY <1>7, <3>1, <3>2 DEF Shape
  <2>2. CASE i = m
    BY <2>2, <1>5, <1>7, <1>11, <1>12, <1>15, HookNames DEF Shape
  <2> QED
    BY <2>1, <2>2
<1>19. OnTheirWay'
  <2>1. \A i, j \in 1..m : Carries(c[i]) /\ Carries(c[j]) /\ c[i].msg = c[j].msg => i = j
    BY <1>2, <1>3, <1>14 DEF OnTheirWay
  <2>2. \A h : Arriving(h) <=> \E i \in 1..m : c[i].msg = h /\ Carries(c[i])
    BY <1>3, <1>14 DEF Arriving
  <2>3. \A h : Arriving(h)' <=> \E i \in 1..m : c[i].msg = h /\ Carries(c[i])
    BY <1>7, <1>12 DEF Arriving, Carries
  <2>4. \A h \in HookKinds : sent'[h] = seen'[h] + (IF Arriving(h)' THEN 1 ELSE 0)
    BY <2>2, <2>3, <1>1, <1>2 DEF OnTheirWay
  <2> QED
    BY <2>1, <2>4, <1>7, <1>12 DEF OnTheirWay, Carries
<1>20. AtTop'
  <2>1. Top.proc \notin {"listener", "class"}
    BY <1>1
  <2>2. ASSUME NEW i \in 1..m
        PROVE  /\ c[i].msg \in Farewells /\ (Carries(c[i]) \/ InHook(c[i])) => i = m
               /\ c[i].msg \in Farewells /\ c[i].proc = "listener" => i = m
               /\ ~(c[i].msg = "other" /\ InHook(c[i]) /\ c[i].at = "in")
    BY <2>1, <1>2, <1>3, <1>11, <1>12, <1>14 DEF AtTop
  <2> QED
    BY <2>2, <1>7, <1>12 DEF AtTop, Carries, InHook
<1>21. Nesting'
  <2>1. ASSUME NEW i \in 1..m, c[i].proc = "DestroyWindow"
        PROVE  /\ \A j \in 1..(i - 1) : c[j].msg = "other"
               /\ \A j \in (i + 1)..m :
                    c[j].msg = IF c[i].at = "nc" THEN "destroy" ELSE "ncdestroy"
               /\ c[i].at # "in"
               /\ c[i].at = "out" <=> sent["ncdestroy"] # 0
    <3>1. i # m /\ c[i] = calling[i] /\ calling[i].proc = "DestroyWindow"
      BY <2>1, <1>11, <1>12
    <3>2. /\ \A j \in 1..(i - 1) : calling[j].msg = "other"
          /\ \A j \in (i + 1)..m :
               calling[j].msg = IF calling[i].at = "nc" THEN "destroy" ELSE "ncdestroy"
          /\ calling[i].at # "in"
          /\ calling[i].at = "out" <=> sent["ncdestroy"] # 0
      BY <3>1, <1>2, <1>3 DEF Nesting
    <3>3. /\ \A j \in 1..(i - 1) : j \in 1..m
          /\ \A j \in (i + 1)..m : j \in 1..m
      BY <1>3
    <3> QED
      BY <3>1, <3>2, <3>3, <1>14
  <2>2. \A i \in 1..m : c[i].msg # "other" => life = "destroying"
    BY <1>2, <1>3, <1>14 DEF Nesting
  <2>3. life = "destroying" => \E i \in 1..m : c[i].proc = "DestroyWindow"
    BY <1>2, <1>3, <1>14 DEF Nesting
  <2> QED
    BY <2>1, <2>2, <2>3, <1>1, <1>7, <1>12 DEF Nesting
<1>22. ChainOK'
  <2>1. /\ \A i \in 1..m : c[i].msg \in Farewells /\ InHook(c[i]) => chain = "class"
        /\ sent["ncdestroy"] # 0 => chain = NoProc
             \/ \E i \in 1..m : c[i].msg = "ncdestroy" /\ InHook(c[i])
    BY <1>2, <1>3, <1>14 DEF ChainOK
  <2> QED
    BY <2>1, <1>1, <1>2, <1>7, <1>12 DEF ChainOK, InHook
<1>23. NotBelow'
  <2>1. sent["ncdestroy"] = 0 /\ Restoring("after") =>
          \A i \in 1..m : c[i].proc \in Subclassers /\ c[i].msg = "destroy" =>
            /\ chain = "class"
            /\ \A j \in 1..m : c[j].msg = "destroy" /\ InHook(c[j]) => wndproc \in Subclassers
    BY <1>2, <1>3, <1>14 DEF NotBelow
  <2> QED
    BY <2>1, <1>1, <1>7, <1>12 DEF NotBelow, InHook, Restoring
<1> QED
  BY <1>7, <1>12, <1>16, <1>17, <1>18, <1>19, <1>20, <1>21, <1>22, <1>23 DEF HookInv

(* A listener is told of the message before it is passed on.               *)
LEMMA HookNotifyKeeps ==
  ASSUME HookInv, NEW l \in Listeners, HookNotify(l) PROVE HookInv'
<1>1. /\ calling # <<>> /\ Top.proc = "windowHook" /\ Top.at = "notify"
      /\ UNCHANGED <<life, wndproc, found, plan, hooked, chain, system, attached, sent, seen,
                     calls, crashed>>
  BY DEF HookNotify, Within
<1>2. HookTypes /\ Follows /\ OnTheirWay /\ AtTop /\ Nesting /\ ChainOK /\ NotBelow
  BY DEF HookInv
<1>3. PICK m \in Nat : m = Len(calling) /\ m > 0 /\ Top = calling[m]
  BY <1>1, <1>2, HookTop
<1>4. m \in 1..m /\ Shape(m) /\ Top \in CallFrames
  BY <1>1, <1>2, <1>3, HookTop DEF HookInv
<1>5. Top.msg \in HookKinds /\ Top.next = "class"
  BY <1>1, <1>3, <1>4 DEF Shape
<1>6. PICK f : f = [Top EXCEPT !.todo = @ \ {l}]
  OBVIOUS
<1>7. PICK g : g = Call("listener", Top.msg)
  OBVIOUS
<1>8. calling' = Append([calling EXCEPT ![Len(calling)] = f], g)
  BY <1>6, <1>7 DEF HookNotify, Top
<1>9. f \in CallFrames /\ f.proc = "windowHook" /\ f.msg = Top.msg /\ f.at = "notify"
      /\ f.next = "class"
  BY <1>1, <1>4, <1>5, <1>6 DEF CallFrames
<1>10. g \in CallFrames /\ g.proc = "listener" /\ g.msg = Top.msg /\ g.at = "in"
  BY <1>5, <1>7 DEF Call, CallFrames, Procedures
<1>11. PICK c : c = calling'
  OBVIOUS
<1>12. /\ c \in Seq(CallFrames) /\ Len(c) = m + 1 /\ c[m] = f /\ c[m + 1] = g
       /\ \A i \in 1..(m - 1) : c[i] = calling[i]
  BY <1>1, <1>2, <1>3, <1>8, <1>9, <1>10, <1>11, PushTop
<1>13. Carries(Top) /\ InHook(Top) /\ Carries(f) /\ InHook(f) /\ ~Carries(g) /\ ~InHook(g)
  BY <1>1, <1>9, <1>10, HookNames DEF Carries, InHook
<1>14. /\ \A i \in 1..(m + 1) : i \in 1..m \/ i = m + 1
       /\ \A i \in 1..m : i \in 1..(m - 1) \/ i = m
       /\ \A i \in 1..m : i \in 1..(m + 1)
  BY <1>3
<1>15. \A i \in 1..m : /\ c[i].proc = calling[i].proc /\ c[i].msg = calling[i].msg
                       /\ c[i].at = calling[i].at
                       /\ Carries(c[i]) <=> Carries(calling[i])
                       /\ InHook(c[i]) <=> InHook(calling[i])
  BY <1>1, <1>3, <1>9, <1>12, <1>13, <1>14
<1>16. HookTypes'
  BY <1>1, <1>2, <1>11, <1>12 DEF HookTypes
<1>17. Follows'
  <2>1. \A s \in Subclassers : (\E i \in 1..(m + 1) : c[i].proc = s) =>
          \E i \in 1..m : calling[i].proc = s
    BY <1>10, <1>12, <1>14, <1>15, HookNames
  <2> QED
    BY <2>1, <1>1, <1>2, <1>3, <1>11, <1>12 DEF Follows
<1>18. ASSUME NEW i \in 1..(m + 1) PROVE Shape(i)'
  <2>1. CASE i \in 1..(m - 1)
    <3>1. i \in 1..m /\ Shape(i) /\ (i > 1 => i - 1 \in 1..(m - 1))
      BY <2>1, <1>3 DEF HookInv
    <3>2. c[i] = calling[i] /\ (i > 1 => c[i - 1] = calling[i - 1])
      BY <1>12, <2>1, <3>1
    <3> QED
      BY <1>11, <3>1, <3>2 DEF Shape
  <2>2. CASE i = m
    BY <2>2, <1>5, <1>9, <1>11, <1>12, HookNames DEF Shape
  <2>3. CASE i = m + 1
    <3>1. i > 1 /\ i - 1 = m
      BY <2>3, <1>3
    <3> QED
      BY <2>3, <3>1, <1>5, <1>9, <1>10, <1>11, <1>12, HookNames DEF Shape
  <2> QED
    BY <2>1, <2>2, <2>3, <1>14
<1>19. OnTheirWay'
  <2>1. \A i \in 1..(m + 1) : Carries(c[i]) => i \in 1..m
    BY <1>12, <1>13, <1>14
  <2>2. \A i, j \in 1..m : Carries(c[i]) /\ Carries(c[j]) /\ c[i].msg = c[j].msg => i = j
    BY <1>2, <1>3, <1>15 DEF OnTheirWay
  <2>3. \A h : Arriving(h) <=> \E i \in 1..(m + 1) : c[i].msg = h /\ Carries(c[i])
    BY <2>1, <1>3, <1>14, <1>15 DEF Arriving
  <2>4. \A h : Arriving(h)' <=> \E i \in 1..(m + 1) : c[i].msg = h /\ Carries(c[i])
    BY <1>11, <1>12 DEF Arriving, Carries
  <2>5. \A h \in HookKinds : sent'[h] = seen'[h] + (IF Arriving(h)' THEN 1 ELSE 0)
    BY <2>3, <2>4, <1>1, <1>2 DEF OnTheirWay
  <2>6. \A i, j \in 1..(m + 1) : Carries(c[i]) /\ Carries(c[j]) /\ c[i].msg = c[j].msg => i = j
    BY <2>1, <2>2
  <2> QED
    BY <2>5, <2>6, <1>11, <1>12 DEF OnTheirWay, Carries
<1>20. AtTop'
  <2>1. Top.proc \notin {"listener", "class"}
    BY <1>1
  <2>2. ASSUME NEW i \in 1..(m + 1)
        PROVE  /\ c[i].msg \in Farewells /\ (Carries(c[i]) \/ InHook(c[i])) => i = m
               /\ c[i].msg \in Farewells /\ c[i].proc = "listener" => i = m + 1
               /\ ~(c[i].msg = "other" /\ InHook(c[i]) /\ c[i].at = "in")
    <3>1. CASE i \in 1..m
      <4>1. i # m + 1 /\ (i = m => calling[i].at = "notify")
        BY <3>1, <1>1, <1>3
      <4>2. /\ calling[i].msg \in Farewells /\ (Carries(calling[i]) \/ InHook(calling[i])) => i = m
            /\ calling[i].msg \in Farewells /\ calling[i].proc = "listener" => i = m
            /\ calling[i].msg = "other" /\ InHook(calling[i]) /\ calling[i].at = "in" => i = m
        BY <2>1, <3>1, <1>2, <1>3 DEF AtTop
      <4> QED
        BY <3>1, <4>1, <4>2, <1>1, <1>3, <1>15
    <3>2. CASE i = m + 1
      BY <3>2, <1>12, <1>13
    <3> QED
      BY <3>1, <3>2, <1>14
  <2>3. Top' = c[m + 1]
    BY <1>11, <1>12 DEF Top
  <2> QED
    BY <2>2, <2>3, <1>3, <1>10, <1>11, <1>12 DEF AtTop, Carries, InHook
<1>21. Nesting'
  <2>1. ASSUME NEW i \in 1..(m + 1), c[i].proc = "DestroyWindow"
        PROVE  /\ \A j \in 1..(i - 1) : c[j].msg = "other"
               /\ \A j \in (i + 1)..(m + 1) :
                    c[j].msg = IF c[i].at = "nc" THEN "destroy" ELSE "ncdestroy"
               /\ c[i].at # "in"
               /\ c[i].at = "out" <=> sent["ncdestroy"] # 0
    <3>1. i \in 1..m /\ i # m /\ c[i] = calling[i] /\ calling[i].proc = "DestroyWindow"
      BY <2>1, <1>9, <1>10, <1>12, <1>14
    <3>2. /\ \A j \in 1..(i - 1) : calling[j].msg = "other"
          /\ \A j \in (i + 1)..m :
               calling[j].msg = IF calling[i].at = "nc" THEN "destroy" ELSE "ncdestroy"
          /\ calling[i].at # "in"
          /\ calling[i].at = "out" <=> sent["ncdestroy"] # 0
      BY <3>1, <1>2, <1>3 DEF Nesting
    <3>3. /\ \A j \in 1..(i - 1) : j \in 1..m
          /\ m \in (i + 1)..m
          /\ \A j \in (i + 1)..(m + 1) : (j \in (i + 1)..m /\ j \in 1..m) \/ j = m + 1
      BY <3>1, <1>3
    <3> QED
      BY <3>1, <3>2, <3>3, <1>3, <1>10, <1>12, <1>15
  <2>2. \A i \in 1..m : calling[i].msg # "other" => life = "destroying"
    BY <1>2, <1>3 DEF Nesting
  <2>3. \A i \in 1..(m + 1) : c[i].msg # "other" => life = "destroying"
    BY <2>2, <1>3, <1>4, <1>10, <1>12, <1>14, <1>15
  <2>4. life = "destroying" => \E i \in 1..(m + 1) : c[i].proc = "DestroyWindow"
    BY <1>2, <1>3, <1>14, <1>15 DEF Nesting
  <2> QED
    BY <2>1, <2>3, <2>4, <1>1, <1>11, <1>12 DEF Nesting
<1>22. ChainOK'
  <2>1. \A i \in 1..(m + 1) : InHook(c[i]) => i \in 1..m
    BY <1>12, <1>13, <1>14
  <2>2. /\ \A i \in 1..(m + 1) : c[i].msg \in Farewells /\ InHook(c[i]) => chain = "class"
        /\ sent["ncdestroy"] # 0 => chain = NoProc
             \/ \E i \in 1..(m + 1) : c[i].msg = "ncdestroy" /\ InHook(c[i])
    BY <2>1, <1>2, <1>3, <1>14, <1>15 DEF ChainOK
  <2> QED
    BY <2>2, <1>1, <1>2, <1>11, <1>12 DEF ChainOK, InHook
<1>23. NotBelow'
  <2>1. \A i \in 1..(m + 1) : c[i].proc \in Subclassers \/ InHook(c[i]) => i \in 1..m
    BY <1>10, <1>12, <1>13, <1>14, HookNames
  <2>2. sent["ncdestroy"] = 0 /\ Restoring("after") =>
          \A i \in 1..(m + 1) : c[i].proc \in Subclassers /\ c[i].msg = "destroy" =>
            /\ chain = "class"
            /\ \A j \in 1..(m + 1) : c[j].msg = "destroy" /\ InHook(c[j]) =>
                 wndproc \in Subclassers
    BY <2>1, <1>2, <1>3, <1>15 DEF NotBelow
  <2> QED
    BY <2>2, <1>1, <1>11, <1>12 DEF NotBelow, InHook, Restoring
<1> QED
  BY <1>11, <1>12, <1>16, <1>17, <1>18, <1>19, <1>20, <1>21, <1>22, <1>23 DEF HookInv

(* The application's code runs while the window still has its maps.        *)
LEMMA ApplicationFindsChain == ASSUME HookInv, Application PROVE chain = "class"
<1>1. HookTypes /\ AtTop /\ Nesting /\ ChainOK
  BY DEF HookInv
<1>2. CASE life = "created"
  BY <1>1, <1>2 DEF ChainOK
<1>3. CASE life # "created"
  <2>1. life = "destroying"
    BY <1>1, <1>3 DEF Application, HookTypes
  <2>2. PICK i \in 1..Len(calling) : calling[i].proc = "DestroyWindow"
    BY <2>1, <1>1 DEF Nesting
  <2>3. calling # <<>>
    BY <2>2
  <2>4. PICK m \in Nat : m = Len(calling) /\ m > 0 /\ Top = calling[m]
    BY <2>3, <1>1, HookTop
  <2>5. Top.proc = "listener" \/ (Top.proc = "class" /\ Top.msg = "other")
    BY <2>3 DEF Application, Within
  <2>6. i # m /\ m \in (i + 1)..m /\ m \in 1..m
    BY <2>2, <2>4, <2>5
  <2>7. Top.msg \in Farewells
    BY <2>2, <2>4, <2>6, <1>1 DEF Nesting, Farewells
  <2>8. Top.proc = "listener"
    BY <2>5, <2>7 DEF Farewells
  <2>9. m > 1 /\ calling[m - 1].proc = "windowHook" /\ calling[m - 1].msg = Top.msg
    BY <2>4, <2>6, <2>8 DEF HookInv, Shape
  <2>10. m - 1 \in 1..m
    BY <2>4, <2>9
  <2> QED
    BY <2>4, <2>7, <2>9, <2>10, <1>1 DEF ChainOK, InHook
<1> QED
  BY <1>2, <1>3

LEMMA ListenersKeep ==
  ASSUME HookInv, NEW l \in Listeners, AddListener(l) \/ RemoveListener(l)
  PROVE  HookInv'
<1>1. /\ UNCHANGED <<life, wndproc, found, plan, hooked, chain, calling, sent, seen>>
      /\ Application
      /\ system' \in BOOLEAN /\ crashed' \in BOOLEAN /\ attached' \subseteq Listeners
  BY DEF AddListener, RemoveListener, HookInv, HookTypes
<1>2. chain = "class"
  BY <1>1, ApplicationFindsChain
<1>3. HookTypes'
  BY <1>1 DEF HookInv, HookTypes
<1>4. Follows' /\ OnTheirWay' /\ AtTop' /\ Nesting' /\ NotBelow'
  <2>1. Follows /\ OnTheirWay /\ AtTop /\ Nesting /\ NotBelow
    BY DEF HookInv
  <2>2. Follows'
    BY <1>1, <2>1 DEF Follows
  <2>3. OnTheirWay'
    BY <1>1, <2>1 DEF OnTheirWay, Arriving
  <2>4. AtTop'
    BY <1>1, <2>1 DEF AtTop, Top
  <2>5. Nesting'
    BY <1>1, <2>1 DEF Nesting
  <2>6. NotBelow'
    BY <1>1, <2>1 DEF NotBelow, Restoring
  <2> QED
    BY <2>2, <2>3, <2>4, <2>5, <2>6
<1>5. (\A i \in 1..Len(calling) : Shape(i))'
  BY <1>1 DEF HookInv, Shape
<1>6. ChainOK'
  BY <1>1, <1>2, HookNames DEF HookInv, ChainOK
<1> QED
  BY <1>3, <1>4, <1>5, <1>6 DEF HookInv

LEMMA SubclassKeeps == ASSUME HookInv, NEW s \in Subclassers, Subclass(s) PROVE HookInv'
<1>1. /\ life = "created" /\ calling = <<>> /\ found[s] = NoProc
      /\ found' = [found EXCEPT ![s] = wndproc] /\ wndproc' = s
      /\ UNCHANGED <<life, plan, hooked, chain, system, attached, calling, sent, seen,
                     calls, crashed>>
  BY DEF Subclass
<1>2. HookTypes /\ Follows /\ OnTheirWay /\ AtTop /\ Nesting /\ ChainOK
  BY DEF HookInv
<1>3. Len(calling) = 0 /\ calling' = calling
  BY <1>1
<1>4. wndproc \in Subclassers \cup {"windowHook"} /\ chain = "class"
  BY <1>1, <1>2, HookNames DEF ChainOK, HookTypes
<1>5. HookTypes'
  BY <1>1, <1>2, <1>4 DEF HookTypes
<1>6. Follows'
  <2> SUFFICES ASSUME NEW t \in Subclassers,
                      t = s \/ \E u \in Subclassers : found'[u] = t
               PROVE  found'[t] # NoProc
    BY <1>1, <1>3 DEF Follows
  <2>1. CASE t = s
    BY <2>1, <1>1, <1>2, <1>4, HookNames DEF HookTypes
  <2>2. CASE t # s
    <3>1. PICK u \in Subclassers : found'[u] = t
      BY <2>2
    <3>2. wndproc = t \/ found[u] = t
      BY <3>1, <1>1, <1>2 DEF HookTypes
    <3>3. found[t] # NoProc
      BY <3>2, <1>2 DEF Follows
    <3> QED
      BY <2>2, <3>3, <1>1, <1>2 DEF HookTypes
  <2> QED
    BY <2>1, <2>2
<1>7. OnTheirWay'
  BY <1>1, <1>2 DEF OnTheirWay, Arriving
<1>8. AtTop' /\ Nesting' /\ (\A i \in 1..Len(calling) : Shape(i))'
  BY <1>1, <1>2, <1>3 DEF AtTop, Nesting
<1>9. ChainOK'
  BY <1>1, <1>2, <1>3, <1>4, HookNames DEF ChainOK
<1>10. NotBelow'
  BY <1>3 DEF NotBelow
<1> QED
  BY <1>5, <1>6, <1>7, <1>8, <1>9, <1>10 DEF HookInv

LEMMA SendKeeps == ASSUME HookInv, Send PROVE HookInv'
<1>1. /\ life = "created" /\ calling = <<>>
      /\ sent' = [sent EXCEPT !["other"] = @ + 1] /\ calling' = <<Call(wndproc, "other")>>
      /\ UNCHANGED <<life, wndproc, found, plan, hooked, chain, system, attached, seen,
                     calls, crashed>>
  BY DEF Send
<1>2. HookTypes /\ Follows /\ OnTheirWay /\ ChainOK
  BY DEF HookInv
<1>3. wndproc \in Subclassers \cup {"windowHook"} /\ chain = "class"
      /\ sent["destroy"] = 0 /\ sent["ncdestroy"] = 0
  BY <1>1, <1>2, HookNames DEF ChainOK, HookTypes
<1>4. PICK g : g = Call(wndproc, "other")
  OBVIOUS
<1>5. g \in CallFrames /\ g.proc = wndproc /\ g.msg = "other" /\ g.at = "in"
  BY <1>3, <1>4 DEF Call, CallFrames, Procedures, HookKinds
<1>6. PICK c : c = calling'
  OBVIOUS
<1>7. c \in Seq(CallFrames) /\ Len(c) = 1 /\ c[1] = g /\ 1..1 = {1}
  BY <1>1, <1>4, <1>5, <1>6
<1>8. Carries(g) /\ InHook(g)
  BY <1>3, <1>5 DEF Carries, InHook
<1>9. sent' \in [HookKinds -> Nat]
      /\ \A h \in HookKinds : sent'[h] = IF h = "other" THEN sent[h] + 1 ELSE sent[h]
  <2>1. sent \in [HookKinds -> Nat] /\ sent' = [sent EXCEPT !["other"] = @ + 1]
    BY <1>1, <1>2 DEF HookTypes
  <2>2. "other" \in HookKinds
    BY DEF HookKinds
  <2>3. sent["other"] \in Nat
    BY <2>1, <2>2
  <2> QED
    BY <2>1, <2>2, <2>3
<1>10. HookTypes'
  BY <1>1, <1>2, <1>6, <1>7, <1>9 DEF HookTypes
<1>11. Follows'
  BY <1>1, <1>2, <1>5, <1>6, <1>7 DEF Follows
<1>12. (\A i \in 1..Len(calling) : Shape(i))'
  BY <1>3, <1>5, <1>6, <1>7, HookNames DEF Shape, HookKinds
<1>13. OnTheirWay'
  <2>1. \A h : ~Arriving(h)
    BY <1>1 DEF Arriving
  <2>2. \A h : Arriving(h)' <=> h = "other"
    BY <1>5, <1>6, <1>7, <1>8 DEF Arriving, Carries
  <2>3. \A h \in HookKinds : sent'[h] = seen'[h] + (IF Arriving(h)' THEN 1 ELSE 0)
    <3> SUFFICES ASSUME NEW h \in HookKinds
                 PROVE  sent'[h] = seen'[h] + (IF Arriving(h)' THEN 1 ELSE 0)
      OBVIOUS
    <3>1. sent[h] = seen[h] /\ sent[h] \in Nat /\ seen[h] \in Nat
      BY <1>2, <2>1 DEF OnTheirWay, HookTypes
    <3> QED
      BY <3>1, <2>2, <1>1, <1>9
  <2> QED
    BY <2>3, <1>6, <1>7 DEF OnTheirWay
<1>14. AtTop'
  <2>1. c[1].msg = "other" /\ "other" \notin Farewells
    BY <1>5, <1>7 DEF Farewells
  <2>2. \A i \in 1..Len(c) : i = Len(c) /\ c[i].msg = "other"
    BY <2>1, <1>7
  <2> QED
    BY <2>1, <2>2, <1>1, <1>6 DEF AtTop
<1>15. Nesting'
  <2>1. \A i \in 1..Len(c) : c[i].msg = "other" /\ c[i].proc # "DestroyWindow"
    BY <1>3, <1>5, <1>7, HookNames
  <2> QED
    BY <2>1, <1>1, <1>6 DEF Nesting
<1>16. ChainOK'
  <2>1. sent'["destroy"] = 0 /\ sent'["ncdestroy"] = 0
    BY <1>3, <1>9 DEF HookKinds
  <2> QED
    BY <2>1, <1>1, <1>2, <1>3, <1>5, <1>6, <1>7 DEF ChainOK, Farewells
<1>17. NotBelow'
  BY <1>5, <1>6, <1>7 DEF NotBelow
<1> QED
  BY <1>10, <1>11, <1>12, <1>13, <1>14, <1>15, <1>16, <1>17 DEF HookInv

(* DestroyWindow() is called once; only ordinary messages are below it.    *)
LEMMA DestroyWindowKeeps == ASSUME HookInv, DestroyWindow PROVE HookInv'
<1>1. /\ Application /\ life = "created" /\ life' = "destroying"
      /\ calling' = Append(calling, Call("DestroyWindow", NoProc))
      /\ UNCHANGED <<wndproc, found, plan, hooked, chain, system, attached, sent, seen,
                     calls, crashed>>
  BY DEF DestroyWindow
<1>2. HookTypes /\ Follows /\ OnTheirWay /\ AtTop /\ Nesting /\ ChainOK
  BY DEF HookInv
<1>3. PICK m \in Nat : m = Len(calling)
  BY <1>2 DEF HookTypes
<1>4. PICK g : g = Call("DestroyWindow", NoProc)
  OBVIOUS
<1>5. g \in CallFrames /\ g.proc = "DestroyWindow" /\ g.msg = NoProc /\ g.at = "in"
  BY <1>4 DEF Call, CallFrames, Procedures
<1>6. PICK c : c = calling'
  OBVIOUS
<1>7. /\ c \in Seq(CallFrames) /\ Len(c) = m + 1 /\ c[m + 1] = g
      /\ \A i \in 1..m : c[i] = calling[i]
  BY <1>1, <1>2, <1>3, <1>4, <1>5, <1>6 DEF HookTypes
<1>8. NoProc \notin Farewells /\ NoProc # "other" /\ "other" \notin Farewells
  BY HookNames DEF Farewells, HookKinds
<1>9. \A i \in 1..m : c[i].msg = "other" /\ c[i].proc # "DestroyWindow"
  <2>1. \A i \in 1..m : calling[i].msg = "other"
    BY <1>1, <1>2, <1>3 DEF Nesting
  <2>2. \A i \in 1..m : Shape(i)
    BY <1>3 DEF HookInv
  <2> QED
    BY <2>1, <2>2, <1>7, <1>8 DEF Shape
<1>10. \A i \in 1..(m + 1) : i \in 1..m \/ i = m + 1
  BY <1>3
<1>11. ~Carries(g) /\ ~InHook(g) /\ g.proc \notin Subclassers
  BY <1>5, HookNames DEF Carries, InHook
<1>12. /\ chain = "class" /\ chain # NoProc /\ sent["destroy"] = 0 /\ sent["ncdestroy"] = 0
       /\ wndproc # "class"
  BY <1>1, <1>2, HookNames DEF ChainOK
<1>13. HookTypes'
  BY <1>1, <1>2, <1>6, <1>7 DEF HookTypes
<1>14. Follows'
  <2>1. \A s \in Subclassers : (\E i \in 1..(m + 1) : c[i].proc = s) =>
          \E i \in 1..m : calling[i].proc = s
    BY <1>7, <1>10, <1>11
  <2> QED
    BY <2>1, <1>1, <1>2, <1>3, <1>6, <1>7 DEF Follows
<1>15. ASSUME NEW i \in 1..(m + 1) PROVE Shape(i)'
  <2>1. CASE i \in 1..m
    <3>1. Shape(i) /\ (i > 1 => i - 1 \in 1..m)
      BY <2>1, <1>3 DEF HookInv
    <3>2. c[i] = calling[i] /\ (i > 1 => c[i - 1] = calling[i - 1])
      BY <1>7, <2>1, <3>1
    <3> QED
      BY <1>6, <3>1, <3>2 DEF Shape
  <2>2. CASE i = m + 1
    BY <2>2, <1>5, <1>6, <1>7, HookNames DEF Shape
  <2> QED
    BY <2>1, <2>2, <1>10
<1>16. OnTheirWay'
  <2>1. \A i \in 1..(m + 1) : Carries(c[i]) => i \in 1..m
    BY <1>7, <1>10, <1>11
  <2>2. \A i, j \in 1..m : Carries(c[i]) /\ Carries(c[j]) /\ c[i].msg = c[j].msg => i = j
    BY <1>2, <1>3, <1>7 DEF OnTheirWay
  <2>3. \A i, j \in 1..(m + 1) : Carries(c[i]) /\ Carries(c[j]) /\ c[i].msg = c[j].msg => i = j
    BY <2>1, <2>2
  <2>4. \A i \in 1..m : i \in 1..(m + 1)
    BY <1>3
  <2>5. \A h : Arriving(h) <=> \E i \in 1..(m + 1) : c[i].msg = h /\ Carries(c[i])
    BY <2>1, <2>4, <1>3, <1>7 DEF Arriving
  <2>6. \A h : Arriving(h)' <=> \E i \in 1..(m + 1) : c[i].msg = h /\ Carries(c[i])
    BY <1>6, <1>7 DEF Arriving, Carries
  <2>7. \A h \in HookKinds : sent'[h] = seen'[h] + (IF Arriving(h)' THEN 1 ELSE 0)
    BY <2>5, <2>6, <1>1, <1>2 DEF OnTheirWay
  <2> QED
    BY <2>3, <2>7, <1>6, <1>7 DEF OnTheirWay, Carries
<1>17. AtTop'
  <2>1. ASSUME NEW i \in 1..(m + 1)
        PROVE  c[i].msg \notin Farewells /\ ~(c[i].msg = "other" /\ InHook(c[i]) /\ c[i].at = "in")
    <3>1. CASE i \in 1..m
      <4>1. calling # <<>> /\ m > 0 /\ Top = calling[m]
        BY <3>1, <1>2, <1>3 DEF Top
      <4>2. Top.proc \in {"listener", "class"}
        BY <4>1, <1>1 DEF Application, Within
      <4>3. ~InHook(Top)
        BY <4>2, HookNames DEF InHook
      <4>4. InHook(calling[i]) /\ calling[i].msg = "other" /\ calling[i].at = "in" => i = m
        BY <3>1, <1>2, <1>3 DEF AtTop
      <4> QED
        BY <3>1, <4>1, <4>3, <4>4, <1>7, <1>8, <1>9
    <3>2. CASE i = m + 1
      BY <3>2, <1>5, <1>7, <1>8
    <3> QED
      BY <3>1, <3>2, <1>10
  <2> QED
    BY <2>1, <1>6, <1>7 DEF AtTop, Carries, InHook
<1>18. Nesting'
  <2>1. ASSUME NEW i \in 1..(m + 1), c[i].proc = "DestroyWindow"
        PROVE  /\ \A j \in 1..(i - 1) : c[j].msg = "other"
               /\ i = m + 1 /\ \A j \in (i + 1)..(m + 1) : FALSE
               /\ c[i].at = "in"
    <3>1. i = m + 1
      BY <2>1, <1>9, <1>10
    <3>2. \A j \in 1..(i - 1) : j \in 1..m
      BY <3>1, <1>3
    <3>3. \A j \in (i + 1)..(m + 1) : FALSE
      BY <3>1, <1>3
    <3> QED
      BY <3>1, <3>2, <3>3, <1>5, <1>7, <1>9
  <2>2. m + 1 \in 1..(m + 1) /\ c[m + 1].proc = "DestroyWindow"
    BY <1>3, <1>5, <1>7
  <2> QED
    BY <2>1, <2>2, <1>1, <1>6, <1>7, <1>12 DEF Nesting
<1>19. \A i \in 1..(m + 1) : c[i].msg \notin Farewells
  BY <1>5, <1>7, <1>8, <1>9, <1>10
<1>20. ChainOK'
  BY <1>1, <1>2, <1>6, <1>7, <1>12, <1>19 DEF ChainOK
<1>21. NotBelow'
  BY <1>6, <1>7, <1>19 DEF NotBelow, Farewells
<1> QED
  BY <1>6, <1>7, <1>13, <1>14, <1>15, <1>16, <1>17, <1>18, <1>20, <1>21 DEF HookInv

(* DestroyWindow() sends the last two messages to whom it finds in front:  *)
(* while the hook, or another above it, stands there, the chain exists.    *)
LEMMA SendDestroyKeeps ==
  ASSUME HookInv, NEW at, NEW k, NEW after,
         \/ at = "in" /\ k = "destroy" /\ after = "nc"
         \/ at = "nc" /\ k = "ncdestroy" /\ after = "out",
         SendDestroy(at, k, after)
  PROVE  HookInv'
<1>1. /\ calling # <<>> /\ Top.proc = "DestroyWindow" /\ Top.at = at
      /\ sent' = [sent EXCEPT ![k] = @ + 1]
      /\ UNCHANGED <<life, wndproc, found, plan, hooked, chain, system, attached, seen,
                     calls, crashed>>
  BY DEF SendDestroy, Within
<1>2. HookTypes /\ Follows /\ OnTheirWay /\ AtTop /\ Nesting /\ ChainOK
  BY DEF HookInv
<1>3. PICK m \in Nat : m = Len(calling) /\ m > 0 /\ Top = calling[m]
  BY <1>1, <1>2, HookTop
<1>4. m \in 1..m /\ Shape(m) /\ k \in HookKinds /\ k \in Farewells
      /\ after \in {"nc", "out"} /\ after \in {"in", "notify", "nc", "out"}
  BY <1>3 DEF HookInv, HookKinds, Farewells
<1>5. wndproc \in Subclassers \cup {"windowHook", "class"} /\ wndproc \in Procedures
  BY <1>2 DEF HookTypes, Procedures
<1>6. PICK f : f = [Top EXCEPT !.at = after]
  OBVIOUS
<1>7. PICK g : g = Call(wndproc, k)
  OBVIOUS
<1>8. calling' = Append([calling EXCEPT ![Len(calling)] = f], g)
  BY <1>6, <1>7 DEF SendDestroy, Top
<1>9. /\ f \in CallFrames /\ f.proc = "DestroyWindow" /\ f.msg = Top.msg /\ f.at = after
      /\ g \in CallFrames /\ g.proc = wndproc /\ g.msg = k /\ g.at = "in"
  BY <1>1, <1>2, <1>4, <1>5, <1>6, <1>7, TopType
<1>10. PICK c : c = calling'
  OBVIOUS
<1>11. /\ c \in Seq(CallFrames) /\ Len(c) = m + 1 /\ c[m] = f /\ c[m + 1] = g
       /\ \A i \in 1..(m - 1) : c[i] = calling[i]
  BY <1>1, <1>2, <1>3, <1>8, <1>9, <1>10, PushTop
<1>12. /\ \A i \in 1..(m + 1) : i \in 1..(m - 1) \/ i = m \/ i = m + 1
       /\ \A i \in 1..(m - 1) : i \in 1..m /\ i # m
       /\ m + 1 \in 1..(m + 1) /\ m \in 1..(m + 1)
  BY <1>3
<1>13. NoProc \notin Farewells /\ NoProc # "other" /\ "other" \notin Farewells
  BY HookNames DEF Farewells, HookKinds
<1>14. Top.msg = NoProc /\ f.msg = NoProc
  BY <1>1, <1>3, <1>4, <1>9 DEF Shape
<1>15. /\ \A i \in 1..(m - 1) : c[i].msg = "other" /\ c[i].proc # "DestroyWindow"
       /\ \A i \in 1..(m - 1) : calling[i].msg = "other"
  <2>1. \A i \in 1..(m - 1) : calling[i].msg = "other"
    BY <1>1, <1>2, <1>3, <1>4 DEF Nesting
  <2>2. \A i \in 1..(m - 1) : Shape(i)
    BY <1>3, <1>12 DEF HookInv
  <2> QED
    BY <2>1, <2>2, <1>11, <1>13 DEF Shape
<1>16. life = "destroying" /\ sent["ncdestroy"] = 0
  BY <1>1, <1>2, <1>3, <1>4, <1>13, <1>14 DEF Nesting
<1>17. /\ Carries(g) /\ ~Carries(f) /\ ~InHook(f) /\ f.proc \notin Subclassers
       /\ g.proc # "DestroyWindow" /\ g.proc # "listener"
       /\ InHook(g) <=> wndproc # "class"
  BY <1>5, <1>9, HookNames DEF Carries, InHook
<1>18. wndproc = "class" <=> chain = NoProc
  BY <1>2, <1>16 DEF ChainOK
<1>19. wndproc # "class" => chain = "class"
  BY <1>2, <1>18 DEF HookTypes
<1>20. sent' \in [HookKinds -> Nat]
       /\ \A h \in HookKinds : sent'[h] = IF h = k THEN sent[h] + 1 ELSE sent[h]
  BY <1>1, <1>2, <1>4 DEF HookTypes
<1>21. k = "ncdestroy" <=> sent'["ncdestroy"] # 0
  BY <1>16, <1>20 DEF HookKinds
<1>22. HookTypes'
  BY <1>1, <1>2, <1>10, <1>11, <1>20 DEF HookTypes
<1>23. Follows'
  <2>1. \A s \in Subclassers : (\E i \in 1..(m + 1) : c[i].proc = s) =>
          s = wndproc \/ \E i \in 1..m : calling[i].proc = s
    BY <1>9, <1>11, <1>12, <1>17
  <2> QED
    BY <2>1, <1>1, <1>2, <1>3, <1>10, <1>11 DEF Follows
<1>24. ASSUME NEW i \in 1..(m + 1) PROVE Shape(i)'
  <2>1. CASE i \in 1..(m - 1)
    <3>1. i \in 1..m /\ Shape(i) /\ (i > 1 => i - 1 \in 1..(m - 1))
      BY <2>1, <1>3 DEF HookInv
    <3>2. c[i] = calling[i] /\ (i > 1 => c[i - 1] = calling[i - 1])
      BY <1>11, <2>1, <3>1
    <3> QED
      BY <1>10, <3>1, <3>2 DEF Shape
  <2>2. CASE i = m
    BY <2>2, <1>4, <1>9, <1>10, <1>11, <1>14, HookNames DEF Shape
  <2>3. CASE i = m + 1
    BY <2>3, <1>4, <1>5, <1>9, <1>10, <1>11, HookNames DEF Shape
  <2> QED
    BY <2>1, <2>2, <2>3, <1>12
<1>25. OnTheirWay'
  <2>1. \A i \in 1..(m - 1) : c[i].msg # k
    BY <1>4, <1>13, <1>15
  <2>2. \A i, j \in 1..m : Carries(calling[i]) /\ Carries(calling[j])
                           /\ calling[i].msg = calling[j].msg => i = j
    BY <1>2, <1>3 DEF OnTheirWay
  <2>3. \A i, j \in 1..(m - 1) : Carries(c[i]) /\ Carries(c[j]) /\ c[i].msg = c[j].msg => i = j
    BY <2>2, <1>11, <1>12
  <2>4. \A i \in 1..(m + 1) : Carries(c[i]) => i = m + 1 \/ i \in 1..(m - 1)
    BY <1>11, <1>12, <1>17
  <2>5. \A i, j \in 1..(m + 1) : Carries(c[i]) /\ Carries(c[j]) /\ c[i].msg = c[j].msg => i = j
    BY <2>1, <2>3, <2>4, <1>9, <1>11
  <2>6. ~Carries(calling[m])
    BY <1>1, <1>3, HookNames DEF Carries
  <2>7. \A h : Arriving(h) <=> \E i \in 1..(m - 1) : c[i].msg = h /\ Carries(c[i])
    <3>1. \A i \in 1..m : Carries(calling[i]) => i \in 1..(m - 1)
      BY <2>6, <1>3
    <3> QED
      BY <3>1, <1>3, <1>11, <1>12 DEF Arriving
  <2>8. \A h : Arriving(h)' <=> \E i \in 1..(m + 1) : c[i].msg = h /\ Carries(c[i])
    BY <1>10, <1>11 DEF Arriving, Carries
  <2>9. Arriving(k)' /\ ~Arriving(k)
    BY <2>1, <2>7, <2>8, <1>9, <1>11, <1>12, <1>17
  <2>10. ASSUME NEW h, h # k PROVE Arriving(h)' <=> Arriving(h)
    <3>1. \A i \in 1..(m - 1) : i \in 1..(m + 1)
      BY <1>3
    <3> QED
      BY <3>1, <2>4, <2>7, <2>8, <2>10, <1>9, <1>11
  <2>11. \A h \in HookKinds : sent'[h] = seen'[h] + (IF Arriving(h)' THEN 1 ELSE 0)
    <3> SUFFICES ASSUME NEW h \in HookKinds
                 PROVE  sent'[h] = seen'[h] + (IF Arriving(h)' THEN 1 ELSE 0)
      OBVIOUS
    <3>1. sent[h] = seen[h] + (IF Arriving(h) THEN 1 ELSE 0) /\ sent[h] \in Nat /\ seen[h] \in Nat
          /\ seen'[h] = seen[h] /\ sent'[h] = IF h = k THEN sent[h] + 1 ELSE sent[h]
      BY <1>1, <1>2, <1>20 DEF OnTheirWay, HookTypes
    <3>2. CASE h = k
      BY <3>1, <3>2, <2>9
    <3>3. CASE h # k
      BY <3>1, <3>3, <2>10
    <3> QED
      BY <3>2, <3>3
  <2> QED
    BY <2>5, <2>11, <1>10, <1>11 DEF OnTheirWay, Carries
<1>26. AtTop'
  <2>1. ASSUME NEW i \in 1..(m + 1)
        PROVE  /\ c[i].msg \in Farewells => i = m + 1
               /\ ~(c[i].msg = "other" /\ InHook(c[i]) /\ c[i].at = "in")
    <3>1. CASE i \in 1..(m - 1)
      BY <3>1, <1>1, <1>2, <1>3, <1>11, <1>12, <1>13, <1>15 DEF AtTop
    <3>2. CASE i = m
      BY <3>2, <1>11, <1>13, <1>14
    <3>3. CASE i = m + 1
      BY <3>3, <1>4, <1>9, <1>11, <1>13
    <3> QED
      BY <3>1, <3>2, <3>3, <1>12
  <2> QED
    BY <2>1, <1>10, <1>11 DEF AtTop, Carries, InHook
<1>27. Nesting'
  <2>1. ASSUME NEW i \in 1..(m + 1), c[i].proc = "DestroyWindow"
        PROVE  /\ \A j \in 1..(i - 1) : c[j].msg = "other"
               /\ \A j \in (i + 1)..(m + 1) :
                    c[j].msg = IF c[i].at = "nc" THEN "destroy" ELSE "ncdestroy"
               /\ c[i].at # "in"
               /\ c[i].at = "out" <=> sent'["ncdestroy"] # 0
    <3>1. i = m /\ c[i].at = after
      BY <2>1, <1>9, <1>11, <1>12, <1>15, <1>17
    <3>2. \A j \in 1..(i - 1) : c[j].msg = "other"
      BY <3>1, <1>15
    <3>3. \A j \in (i + 1)..(m + 1) : j = m + 1
      BY <3>1, <1>3
    <3> QED
      BY <3>1, <3>2, <3>3, <1>4, <1>9, <1>11, <1>21
  <2>2. c[m].proc = "DestroyWindow"
    BY <1>9, <1>11
  <2> QED
    BY <2>1, <2>2, <1>1, <1>10, <1>11, <1>12, <1>16 DEF Nesting
<1>28. ChainOK'
  <2>1. \A i \in 1..(m + 1) : c[i].msg \in Farewells /\ InHook(c[i]) => chain = "class"
    BY <1>11, <1>12, <1>13, <1>15, <1>17, <1>19
  <2>2. sent'["ncdestroy"] # 0 => chain = NoProc
          \/ \E i \in 1..(m + 1) : c[i].msg = "ncdestroy" /\ InHook(c[i])
    BY <1>9, <1>11, <1>12, <1>17, <1>18, <1>21
  <2> QED
    BY <2>1, <2>2, <1>1, <1>2, <1>10, <1>11, <1>16, <1>18 DEF ChainOK, InHook
<1>29. NotBelow'
  <2>1. \A i \in 1..(m + 1) : c[i].msg \in Farewells => i = m + 1
    BY <1>12, <1>11, <1>13, <1>14, <1>15
  <2>2. wndproc \in Subclassers => chain = "class"
    BY <1>19, HookNames
  <2> QED
    BY <2>1, <2>2, <1>1, <1>9, <1>10, <1>11 DEF NotBelow, Farewells
<1> QED
  BY <1>10, <1>11, <1>22, <1>23, <1>24, <1>25, <1>26, <1>27, <1>28, <1>29 DEF HookInv

LEMMA HookBegins == ASSUME HookInit PROVE HookInv
<1>1. /\ life = "created" /\ wndproc = "windowHook" /\ plan \in PlanOf
      /\ found = [s \in Subclassers |-> NoProc] /\ hooked = TRUE /\ chain = "class"
      /\ system = FALSE /\ attached = {} /\ calling = <<>> /\ crashed = FALSE
      /\ sent = [k \in HookKinds |-> 0] /\ seen = [k \in HookKinds |-> 0]
  BY DEF HookInit
<1>2. Len(calling) = 0 /\ calling \in Seq(CallFrames)
  BY <1>1
<1>3. HookTypes
  BY <1>1, <1>2 DEF HookTypes
<1>4. Follows
  BY <1>1, <1>2, HookNames DEF Follows
<1>5. OnTheirWay
  BY <1>1, <1>2 DEF OnTheirWay, Arriving
<1>6. AtTop /\ NotBelow /\ \A i \in 1..Len(calling) : Shape(i)
  BY <1>2 DEF AtTop, NotBelow
<1>7. Nesting
  BY <1>1, <1>2 DEF Nesting
<1>8. ChainOK
  BY <1>1, <1>2, HookNames DEF ChainOK, HookKinds
<1> QED
  BY <1>3, <1>4, <1>5, <1>6, <1>7, <1>8 DEF HookInv

LEMMA HookStutters == ASSUME HookInv, UNCHANGED hookVars PROVE HookInv'
<1>1. UNCHANGED <<life, wndproc, found, plan, hooked, chain, system, attached, calling,
                  sent, seen, crashed>>
  BY DEF hookVars
<1>2. HookTypes' /\ Follows' /\ OnTheirWay'
  BY <1>1 DEF HookInv, HookTypes, Follows, OnTheirWay, Arriving
<1>3. AtTop' /\ Nesting' /\ ChainOK' /\ NotBelow'
  BY <1>1 DEF HookInv, AtTop, Top, Nesting, ChainOK, NotBelow, Restoring
<1>4. (\A i \in 1..Len(calling) : Shape(i))'
  BY <1>1 DEF HookInv, Shape
<1> QED
  BY <1>2, <1>3, <1>4 DEF HookInv

LEMMA HookKeeps ==
  ASSUME \A p \in PlanOf : OneOrder(p), HookInv, [HookNext]_hookVars PROVE HookInv'
<1>1. OneOrder(plan)
  BY DEF HookInv, HookTypes
<1>2. CASE UNCHANGED hookVars
  BY <1>2, HookStutters
<1>3. CASE Send \/ DestroyWindow \/ WindowDestroyed
  BY <1>3, SendKeeps, DestroyWindowKeeps, WindowDestroyedKeeps
<1>4. CASE SendDestroy("in", "destroy", "nc") \/ SendDestroy("nc", "ncdestroy", "out")
  BY <1>4, SendDestroyKeeps
<1>5. CASE HookEnter \/ HookPassOn \/ HookReturn \/ ListenerReturns \/ ClassReturns
  BY <1>5, HookEnterKeeps, HookPassOnKeeps, HookReturnKeeps, ListenerReturnsKeeps,
     ClassReturnsKeeps
<1>6. CASE \E l \in Listeners : AddListener(l) \/ RemoveListener(l) \/ HookNotify(l)
  BY <1>6, ListenersKeep, HookNotifyKeeps
<1>7. CASE \E s \in Subclassers : Subclass(s) \/ SubclasserEnters(s) \/ SubclasserReturns(s)
  BY <1>7, <1>1, SubclassKeeps, SubclasserEntersKeeps, SubclasserReturnsKeeps
<1> QED
  BY <1>2, <1>3, <1>4, <1>5, <1>6, <1>7 DEF HookNext, Done

LEMMA HookEndsInOrder == ASSUME HookInv PROVE HookIsOrderly
<1>1. NothingLost
  <2> SUFFICES ASSUME calling = <<>> PROVE seen = sent
    BY DEF NothingLost
  <2>1. sent \in [HookKinds -> Nat] /\ seen \in [HookKinds -> Nat] /\ OnTheirWay
    BY DEF HookInv, HookTypes
  <2>2. \A k : ~Arriving(k)
    BY DEF Arriving
  <2>3. \A k \in HookKinds : sent[k] = seen[k]
    BY <2>1, <2>2 DEF OnTheirWay
  <2> QED
    BY <2>1, <2>3
<1>2. NothingKept
  BY DEF NothingKept, HookInv, ChainOK
<1>3. ChainIsThere
  <2> SUFFICES ASSUME calling # <<>>, Top.proc = "windowHook", Top.msg # "other"
               PROVE  chain # NoProc
    BY DEF ChainIsThere, Within
  <2>1. HookTypes /\ ChainOK
    BY DEF HookInv
  <2>2. PICK m \in Nat : m = Len(calling) /\ m > 0 /\ Top = calling[m]
    BY <2>1, HookTop
  <2>3. m \in 1..m /\ Shape(m)
    BY <2>2 DEF HookInv
  <2>4. Top.msg \in Farewells
    BY <2>2, <2>3 DEF Shape, HookKinds, Farewells
  <2> QED
    BY <2>1, <2>2, <2>3, <2>4, HookNames DEF ChainOK, InHook
<1> QED
  BY <1>1, <1>2, <1>3 DEF HookIsOrderly

(* Whatever is sent to a window arrives, and nothing of the hook stays     *)
(* behind it.                                                              *)
THEOREM MessagesArrive ==
  ASSUME \A p \in PlanOf : OneOrder(p) PROVE HookSpec => []HookIsOrderly
<1>1. HookInit => HookInv
  BY HookBegins
<1>2. HookInv /\ [HookNext]_hookVars => HookInv'
  BY HookKeeps
<1>3. HookInv => HookIsOrderly
  BY HookEndsInOrder
<1> QED
  BY <1>1, <1>2, <1>3, PTL DEF HookSpec
=============================================================================
