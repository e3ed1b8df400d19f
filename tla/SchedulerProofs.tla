-------------------------- MODULE SchedulerProofs --------------------------
(***************************************************************************)
(* Proofs about Scheduler, for every value of its constants: every unit of *)
(* pending capacity and every slot is accounted for, a caller is told *)
(* about its own items, and no request is sent more often than it may be. *)
(***************************************************************************)
EXTENDS Scheduler, FiniteSetTheorems, WellFoundedInduction, TLAPS

(* A queue: each caller is in it at most once. *)
IsQueue(s) == s \in Seq(Caller) /\ IsInjective(s)

(* The items of some callers. *)
ItemsOf(S) == {p \in S \X (1..MaxItems) : p[2] <= Items(p[1])}

(* No unit belongs to two of these callers. *)
OneEach(S) ==
    \A c, d \in S : c # d => Range(work.units[c]) \cap Range(work.units[d]) = {}

(* A task of a batch: its shape, and what is true of it at any time. *)
TaskType == [groups : Seq(Caller), at : {"call", "retry"}, todo : Seq(Caller),
             active : SUBSET Caller, borrower : Caller \cup {None}, holds : BOOLEAN]

(* Whoever is retried is of the batch and waits or runs, not both; the *)
(* slot of the batch is held while the call is on, while a retry borrows *)
(* it and while one may still borrow it. *)
TaskOk(t) ==
    /\ t \in TaskType
    /\ IsQueue(t.groups) /\ t.groups # <<>> /\ OneEach(Range(t.groups))
    /\ \A c \in Range(t.groups) : Items(c) <= MaxItems
    /\ IsQueue(t.todo) /\ Range(t.todo) \subseteq Range(t.groups)
    /\ t.active \subseteq Range(t.groups) /\ IsFiniteSet(t.active)
    /\ Range(t.todo) \cap t.active = {}
    /\ t.borrower \in t.active \cup {None}
    /\ t.at = "call" => t.active = {} /\ t.holds
    /\ t.at = "retry" => work.safe
    /\ t.todo # <<>> \/ t.borrower # None => t.holds

(* How often the callers of a task were sent to the provider. *)
TaskSent(t) ==
    /\ \A c \in Range(t.groups) : sent[c] \in {1, 2}
    /\ t.at = "call" => \A c \in Range(t.groups) : sent[c] = 1
    /\ \A c \in Range(t.todo) : sent[c] = 1

(* The callers whose groups are queued. *)
Waiting == Range(channel) \cup Range(lane.queued) \cup Range(lane.batch)

Types ==
    /\ work \in Workload
    /\ phase \in [Caller -> {"idle", "admit", "wait", "done", "gone"}]
    /\ reply = [c \in Caller |-> reply[c]]
    /\ \A c \in Caller : phase[c] = "idle" => reply[c] = NoReply
    /\ sent \in [Caller -> Nat]
    /\ lane \in [at : {"recv", "gather", "slot"}, batch : Seq(Caller), queued : Seq(Caller)]

(* Every caller is in one queue at a time, and where it is shows in its *)
(* phase and in how often it was sent. *)
Queues ==
    /\ IsQueue(admitting) /\ IsQueue(channel) /\ IsQueue(lane.queued) /\ IsQueue(lane.batch)
    /\ Range(channel) \cap Range(lane.queued) = {}
    /\ Range(channel) \cap Range(lane.batch) = {}
    /\ Range(lane.queued) \cap Range(lane.batch) = {}
    /\ \A c \in Range(admitting) : phase[c] = "admit"
    /\ \A c \in Waiting : phase[c] \in {"wait", "gone"} /\ sent[c] = 0
    /\ \A c \in Caller : phase[c] \in {"idle", "admit"} => sent[c] = 0
    /\ \A c \in Range(admitting) \cup Waiting : Items(c) <= MaxItems
    /\ OneEach(Range(lane.batch))
    /\ lane.at = "recv" <=> lane.batch = <<>>

Batches ==
    /\ \A t \in tasks : TaskOk(t) /\ TaskSent(t)
    /\ \A t, u \in tasks : t # u => Range(t.groups) \cap Range(u.groups) = {}

(* What is pending is what is queued, and a slot is free or taken. *)
Charged == pending \in Nat /\ pending = Charge(Queued) /\ pending <= MaxPending

Slots ==
    /\ free \in Nat /\ IsFiniteSet(tasks) /\ IsFiniteSet(Retries)
    /\ free + Taken = work.slots

(* The inductive invariant. *)
IInv == Types /\ Queues /\ Batches /\ Charged /\ Slots /\ OwnVerdict /\ SentOnce

-----------------------------------------------------------------------------
(* Induction over the naturals and what follows from it. *)

(* A nonempty set of naturals has a least member. *)
LEMMA LeastNat ==
    ASSUME NEW T \in SUBSET Nat, T # {}
    PROVE  \E x \in T : \A y \in T : x <= y
<1> DEFINE R == OpToRel(<, Nat)
<1>1. IsWellFoundedOn(R, Nat)
  BY NatLessThanWellFounded
<1>2. PICK x \in T : \A y \in T : ~(<<y, x>> \in R)
  BY <1>1, WFMin
<1>3. \A y \in T : ~(y < x)
  BY <1>2 DEF OpToRel
<1> QED
  BY <1>3

(* Induction up to N, over a set. *)
LEMMA UpTo ==
    ASSUME NEW N \in Nat, NEW S, 0 \in S, \A n \in 0..(N - 1) : n \in S => n + 1 \in S
    PROVE  0..N \subseteq S
<1> DEFINE T == {n \in 0..N : n \notin S}
<1> SUFFICES ASSUME T # {} PROVE FALSE
  OBVIOUS
<1>0. T \in SUBSET Nat
  OBVIOUS
<1>1. PICK x \in T : \A y \in T : x <= y
  BY <1>0, LeastNat
<1>2. x # 0 /\ x - 1 \in 0..(N - 1)
  OBVIOUS
<1>3. x - 1 \in S
  BY <1>1, <1>2
<1> QED
  BY <1>2, <1>3

(* g lists what the steps F make of c0, one after the other. *)
Iterates(g, N, C, c0, F) ==
    /\ g \in [0..N -> C] /\ g[0] = c0
    /\ \A i \in 1..N : g[i] = F[i][g[i - 1]]

(* Any steps have such a list: the recursive functions of the model exist. *)
LEMMA Iterated ==
    ASSUME NEW N \in Nat, NEW C, NEW c0 \in C, NEW F \in [1..N -> [C -> C]]
    PROVE  \E g : Iterates(g, N, C, c0, F)
<1> DEFINE P(n, g) == g[0] = c0 /\ \A i \in 1..n : g[i] = F[i][g[i - 1]]
<1> DEFINE S == {n \in 0..N : \E g \in [0..n -> C] : P(n, g)}
<1>1. 0 \in S
  <2> DEFINE g == [i \in 0..0 |-> c0]
  <2>1. g \in [0..0 -> C] /\ P(0, g)
    OBVIOUS
  <2>2. \E f \in [0..0 -> C] : P(0, f)
    <3> HIDE DEF P, g
    <3> QED
      BY <2>1
  <2> QED
    BY <2>2
<1>2. ASSUME NEW n \in 0..(N - 1), n \in S
      PROVE  n + 1 \in S
  <2>1. PICK g \in [0..n -> C] : P(n, g)
    BY <1>2
  <2> DEFINE h == [i \in 0..(n + 1) |-> IF i = n + 1 THEN F[n + 1][g[n]] ELSE g[i]]
  <2>2. F[n + 1] \in [C -> C] /\ g[n] \in C
    OBVIOUS
  <2>3. F[n + 1][g[n]] \in C
    BY <2>2
  <2>4. h \in [0..(n + 1) -> C]
    BY <2>3
  <2>5. \A i \in 1..(n + 1) : h[i] = F[i][h[i - 1]]
    <3> SUFFICES ASSUME NEW i \in 1..(n + 1) PROVE h[i] = F[i][h[i - 1]]
      OBVIOUS
    <3>1. CASE i = n + 1
      BY <3>1
    <3>2. CASE i # n + 1
      <4>1. i \in 1..n /\ i \in 0..(n + 1) /\ i - 1 \in 0..(n + 1) /\ i - 1 # n + 1
        BY <3>2
      <4>2. h[i] = g[i] /\ h[i - 1] = g[i - 1]
        BY <3>2, <4>1
      <4> QED
        BY <2>1, <4>1, <4>2
    <3> QED
      BY <3>1, <3>2
  <2>6. h[0] = c0
    BY <2>1
  <2>7. P(n + 1, h)
    BY <2>4, <2>5, <2>6
  <2>8. \E f \in [0..(n + 1) -> C] : P(n + 1, f)
    <3> HIDE DEF P, h
    <3> QED
      BY <2>4, <2>7
  <2> QED
    BY <2>8, SMTT(30)
<1>3. N \in S
  <2> HIDE DEF S
  <2>1. 0..N \subseteq S
    BY <1>1, <1>2, UpTo
  <2> QED
    BY <2>1
<1> QED
  BY <1>3 DEF Iterates

-----------------------------------------------------------------------------
(* Queues. *)

(* The end of a sequence is taken off, or put on. *)
LEMMA QueueEmpty ==
    /\ IsQueue(<<>>) /\ Range(<<>>) = {}
    /\ \A s : IsQueue(s) => (s = <<>> <=> Range(s) = {})
<1>1. IsQueue(<<>>) /\ Range(<<>>) = {}
  BY DEF IsQueue, IsInjective, Range
<1>2. ASSUME NEW s, IsQueue(s), s # <<>> PROVE Range(s) # {}
  <2>1. 1 \in DOMAIN s
    BY <1>2 DEF IsQueue
  <2> QED
    BY <2>1 DEF Range
<1> QED
  BY <1>1, <1>2

(* Who is in a queue is a caller. *)
LEMMA QueueOf ==
    ASSUME NEW s, IsQueue(s)
    PROVE  Range(s) \subseteq Caller
  BY DEF IsQueue, Range

(* One caller alone. *)
LEMMA QueueOne ==
    ASSUME NEW c \in Caller
    PROVE  IsQueue(<<c>>) /\ Range(<<c>>) = {c} /\ <<c>> # <<>>
<1>1. <<c>> \in Seq(Caller) /\ DOMAIN <<c>> = {1} /\ <<c>>[1] = c
  OBVIOUS
<1> QED
  BY <1>1 DEF IsQueue, IsInjective, Range

(* A caller that is not in a queue joins it. *)
LEMMA QueueAppend ==
    ASSUME NEW s, IsQueue(s), NEW c \in Caller, c \notin Range(s)
    PROVE  IsQueue(Append(s, c)) /\ Range(Append(s, c)) = Range(s) \cup {c} /\ Append(s, c) # <<>>
<1> DEFINE t == Append(s, c)
<1>0. s \in Seq(Caller) /\ Len(s) \in Nat
  BY DEF IsQueue
<1>1. /\ t \in Seq(Caller) /\ DOMAIN t = 1..Len(s) + 1 /\ DOMAIN s = 1..Len(s)
      /\ t[Len(s) + 1] = c /\ \A i \in 1..Len(s) : t[i] = s[i]
  BY <1>0
<1> HIDE DEF t
<1>2. \A i \in 1..Len(s) + 1 : i \in 1..Len(s) \/ i = Len(s) + 1
  BY <1>0
<1>3. \A i \in 1..Len(s) : s[i] # c
  BY <1>1 DEF Range
<1>4. IsInjective(t)
  BY <1>1, <1>2, <1>3 DEF IsQueue, IsInjective
<1>5. Range(t) = Range(s) \cup {c}
  <2>1. Len(s) + 1 \in DOMAIN t /\ DOMAIN s \subseteq DOMAIN t
    BY <1>0, <1>1
  <2> QED
    BY <1>1, <1>2, <2>1 DEF Range
<1>6. t # <<>>
  BY <1>0, <1>1
<1> QED
  BY <1>1, <1>4, <1>5, <1>6 DEF IsQueue, t

(* The first caller leaves a queue. *)
LEMMA QueueTail ==
    ASSUME NEW s, IsQueue(s), s # <<>>
    PROVE  /\ Head(s) \in Caller /\ Head(s) \in Range(s)
           /\ IsQueue(Tail(s)) /\ Range(Tail(s)) = Range(s) \ {Head(s)}
<1> DEFINE t == Tail(s)
<1>0. s \in Seq(Caller) /\ Len(s) \in Nat \ {0} /\ DOMAIN s = 1..Len(s)
  BY DEF IsQueue
<1>1. /\ Head(s) = s[1] /\ t \in Seq(Caller) /\ DOMAIN t = 1..Len(s) - 1
      /\ \A i \in 1..Len(s) - 1 : t[i] = s[i + 1]
  BY <1>0
<1> HIDE DEF t
<1>2. 1 \in DOMAIN s /\ s[1] \in Caller
  BY <1>0
<1>3. \A i \in 1..Len(s) - 1 : i + 1 \in DOMAIN s /\ i + 1 # 1
  BY <1>0
<1>4. \A j \in DOMAIN s : j # 1 => j - 1 \in 1..Len(s) - 1 /\ (j - 1) + 1 = j
  BY <1>0
<1>5. IsInjective(t)
  <2> SUFFICES ASSUME NEW i \in 1..Len(s) - 1, NEW j \in 1..Len(s) - 1, t[i] = t[j] PROVE i = j
    BY <1>1 DEF IsInjective
  <2>1. s[i + 1] = s[j + 1]
    BY <1>1
  <2>2. i + 1 = j + 1
    BY <1>3, <2>1 DEF IsQueue, IsInjective
  <2> QED
    BY <2>2
<1>6. Range(t) \subseteq Range(s) \ {s[1]}
  <2> SUFFICES ASSUME NEW i \in 1..Len(s) - 1 PROVE t[i] \in Range(s) /\ t[i] # s[1]
    BY <1>1 DEF Range
  <2>1. t[i] = s[i + 1] /\ i + 1 \in DOMAIN s /\ i + 1 # 1
    BY <1>1, <1>3
  <2> QED
    BY <1>2, <2>1 DEF Range, IsQueue, IsInjective
<1>7. Range(s) \ {s[1]} \subseteq Range(t)
  <2> SUFFICES ASSUME NEW j \in DOMAIN s, s[j] # s[1] PROVE s[j] \in Range(t)
    BY DEF Range
  <2>1. j - 1 \in DOMAIN t /\ t[j - 1] = s[j]
    BY <1>1, <1>4
  <2> QED
    BY <2>1 DEF Range
<1>8. s[1] \in Range(s)
  BY <1>2 DEF Range
<1> QED
  BY <1>1, <1>2, <1>5, <1>6, <1>7, <1>8 DEF IsQueue, t

(* Two queues without a common caller, one behind the other. *)
LEMMA QueueJoin ==
    ASSUME NEW s, NEW t, IsQueue(s), IsQueue(t), Range(s) \cap Range(t) = {}
    PROVE  IsQueue(s \o t) /\ Range(s \o t) = Range(s) \cup Range(t)
<1> DEFINE u == s \o t
<1>0. /\ s \in Seq(Caller) /\ Len(s) \in Nat /\ DOMAIN s = 1..Len(s)
      /\ t \in Seq(Caller) /\ Len(t) \in Nat /\ DOMAIN t = 1..Len(t)
  BY DEF IsQueue
<1>1. /\ u \in Seq(Caller) /\ DOMAIN u = 1..Len(s) + Len(t)
      /\ \A i \in 1..Len(s) : u[i] = s[i]
      /\ \A i \in 1..Len(s) + Len(t) : i > Len(s) => u[i] = t[i - Len(s)]
  BY <1>0
<1> HIDE DEF u
<1>2. \A i \in DOMAIN u : \/ i \in 1..Len(s) /\ u[i] = s[i] /\ u[i] \in Range(s)
                          \/ i > Len(s) /\ i - Len(s) \in DOMAIN t /\ u[i] = t[i - Len(s)] /\ u[i] \in Range(t)
  <2> SUFFICES ASSUME NEW i \in DOMAIN u
               PROVE  \/ i \in 1..Len(s) /\ u[i] = s[i] /\ u[i] \in Range(s)
                      \/ i > Len(s) /\ i - Len(s) \in DOMAIN t /\ u[i] = t[i - Len(s)] /\ u[i] \in Range(t)
    OBVIOUS
  <2>1. i \in 1..Len(s) + Len(t)
    BY <1>1
  <2>2. CASE i <= Len(s)
    <3>1. i \in 1..Len(s)
      BY <1>0, <2>1, <2>2
    <3> QED
      BY <1>0, <1>1, <3>1 DEF Range
  <2>3. CASE i > Len(s)
    <3>1. i - Len(s) \in DOMAIN t
      BY <1>0, <2>1, <2>3
    <3> QED
      BY <1>1, <2>1, <2>3, <3>1 DEF Range
  <2> QED
    BY <1>0, <2>1, <2>2, <2>3
<1>3. IsInjective(u)
  <2> SUFFICES ASSUME NEW i \in DOMAIN u, NEW j \in DOMAIN u, u[i] = u[j] PROVE i = j
    BY DEF IsInjective
  <2>1. CASE i \in 1..Len(s) /\ j \in 1..Len(s)
    BY <1>0, <1>1, <2>1 DEF IsQueue, IsInjective
  <2>2. CASE i > Len(s) /\ j > Len(s)
    <3>1. i - Len(s) \in DOMAIN t /\ j - Len(s) \in DOMAIN t /\ t[i - Len(s)] = t[j - Len(s)]
      BY <1>0, <1>1, <1>2, <2>2
    <3>2. i - Len(s) = j - Len(s)
      BY <3>1 DEF IsQueue, IsInjective
    <3> QED
      BY <1>0, <1>1, <3>2
  <2> QED
    BY <1>0, <1>2, <2>1, <2>2
<1>4. Range(u) = Range(s) \cup Range(t)
  <2>1. Range(u) \subseteq Range(s) \cup Range(t)
    BY <1>2 DEF Range
  <2>2. Range(s) \subseteq Range(u)
    <3>1. \A i \in DOMAIN s : i \in DOMAIN u /\ u[i] = s[i]
      BY <1>0, <1>1
    <3> QED
      BY <3>1 DEF Range
  <2>3. Range(t) \subseteq Range(u)
    <3>1. \A i \in DOMAIN t : i + Len(s) \in DOMAIN u /\ u[i + Len(s)] = t[i]
      <4> SUFFICES ASSUME NEW i \in DOMAIN t PROVE i + Len(s) \in DOMAIN u /\ u[i + Len(s)] = t[i]
        OBVIOUS
      <4>1. i + Len(s) \in 1..Len(s) + Len(t) /\ i + Len(s) > Len(s) /\ (i + Len(s)) - Len(s) = i
        BY <1>0
      <4> QED
        BY <1>1, <4>1
    <3> QED
      BY <3>1 DEF Range
  <2> QED
    BY <2>1, <2>2, <2>3
<1> QED
  BY <1>1, <1>3, <1>4 DEF IsQueue, u

(* The queues that keep their callers in S: the order and the others stay. *)
Kept(s, S, n) == {w \in Seq(Caller) : /\ IsInjective(w)
                                      /\ Range(w) = {s[i] : i \in 1..n} \cap S}

(* What is left of a queue is a queue of those that stay. *)
LEMMA QueueKeep ==
    ASSUME NEW s, IsQueue(s), NEW S
    PROVE  IsQueue(Keep(s, S)) /\ Range(Keep(s, S)) = Range(s) \cap S
<1> DEFINE St(w, c) == IF c \in S THEN Append(w, c) ELSE w
<1> DEFINE Eq(a) == a = [n \in 0..Len(s) |-> IF n = 0 THEN <<>> ELSE St(a[n - 1], s[n])]
<1> DEFINE C == Seq(Caller)
<1> DEFINE F == [i \in 1..Len(s) |-> [w \in C |-> St(w, s[i])]]
<1>0. Len(s) \in Nat /\ DOMAIN s = 1..Len(s) /\ \A i \in 1..Len(s) : s[i] \in Caller
  BY DEF IsQueue
<1>1. \A w \in C : \A c \in Caller : St(w, c) \in C
  OBVIOUS
<1>2. Keep(s, S) = (CHOOSE a : Eq(a))[Len(s)]
  BY DEF Keep
<1> HIDE DEF St, C
<1>3. F \in [1..Len(s) -> [C -> C]]
  BY <1>0, <1>1
<1>4. <<>> \in C
  BY DEF C
<1>a. PICK g : Iterates(g, Len(s), C, <<>>, F)
  <2> HIDE DEF F
  <2> QED
    BY <1>0, <1>3, <1>4, Iterated
<1>5. g \in [0..Len(s) -> C] /\ g[0] = <<>> /\ \A i \in 1..Len(s) : g[i] = F[i][g[i - 1]]
  <2> HIDE DEF F
  <2> QED
    BY <1>a DEF Iterates
<1>6. \A i \in 1..Len(s) : g[i] = St(g[i - 1], s[i])
  <2> SUFFICES ASSUME NEW i \in 1..Len(s) PROVE g[i] = St(g[i - 1], s[i])
    OBVIOUS
  <2>1. g[i - 1] \in C
    <3>1. i - 1 \in 0..Len(s)
      BY <1>0
    <3> QED
      BY <1>5, <3>1
  <2> QED
    BY <1>5, <2>1
<1>7. Eq(g)
  BY <1>0, <1>5, <1>6
<1>8. PICK a : a = (CHOOSE h : Eq(h)) /\ Eq(a)
  <2> HIDE DEF Eq
  <2> QED
    BY <1>7
<1>9. a[0] = <<>> /\ \A i \in 1..Len(s) : a[i] = St(a[i - 1], s[i])
  <2>1. a = [n \in 0..Len(s) |-> IF n = 0 THEN <<>> ELSE St(a[n - 1], s[n])]
    BY <1>8
  <2>2. \A n \in 0..Len(s) : a[n] = IF n = 0 THEN <<>> ELSE St(a[n - 1], s[n])
    BY <2>1
  <2> QED
    BY <1>0, <2>2
<1> HIDE DEF Eq, F
<1> DEFINE I == {n \in 0..Len(s) : a[n] \in Kept(s, S, n)}
<1>10. 0 \in I
  <2>1. {s[i] : i \in 1..0} = {}
    OBVIOUS
  <2>2. <<>> \in Seq(Caller) /\ IsInjective(<<>>) /\ Range(<<>>) = {}
    BY QueueEmpty DEF IsQueue
  <2> QED
    <3>1. <<>> \in Kept(s, S, 0)
      BY <2>1, <2>2 DEF Kept
    <3> QED
      BY <1>0, <1>9, <3>1
<1>11. ASSUME NEW n \in 0..(Len(s) - 1), n \in I PROVE n + 1 \in I
  <2>0. n + 1 \in 1..Len(s) /\ (n + 1) - 1 = n /\ n + 1 \in 0..Len(s)
    BY <1>0
  <2> DEFINE c == s[n + 1]
             w == a[n]
  <2>1. IsQueue(w) /\ Range(w) = {s[i] : i \in 1..n} \cap S
    BY <1>11 DEF Kept, IsQueue
  <2>2. c \in Caller /\ c \notin {s[i] : i \in 1..n}
    <3>1. \A i \in 1..n : i \in DOMAIN s /\ i # n + 1
      BY <1>0
    <3> QED
      BY <1>0, <2>0, <3>1 DEF IsQueue, IsInjective
  <2>3. {s[i] : i \in 1..(n + 1)} = {s[i] : i \in 1..n} \cup {c}
    <3>1. 1..(n + 1) = (1..n) \cup {n + 1}
      BY <1>0
    <3> QED
      BY <3>1
  <2>4. a[n + 1] = IF c \in S THEN Append(w, c) ELSE w
    BY <1>9, <2>0 DEF St
  <2> HIDE DEF c, w
  <2>5. CASE c \in S
    <3>1. IsQueue(Append(w, c)) /\ Range(Append(w, c)) = Range(w) \cup {c}
      BY <2>1, <2>2, QueueAppend
    <3> QED
      BY <2>0, <2>1, <2>3, <2>4, <2>5, <3>1 DEF Kept, IsQueue
  <2>6. CASE c \notin S
    BY <2>0, <2>1, <2>3, <2>4, <2>6 DEF Kept, IsQueue
  <2> QED
    BY <2>5, <2>6
<1> HIDE DEF I
<1>12. 0..Len(s) \subseteq I
  BY <1>0, <1>10, <1>11, UpTo
<1>13. a[Len(s)] \in Kept(s, S, Len(s))
  BY <1>0, <1>12 DEF I
<1>14. {s[i] : i \in 1..Len(s)} = Range(s)
  BY <1>0 DEF Range
<1> QED
  BY <1>2, <1>8, <1>13, <1>14 DEF Kept, IsQueue

-----------------------------------------------------------------------------
(* What is charged for a queue. *)

(* What the assumption says of the numbers, and that nobody is None. *)
LEMMA Constants ==
    /\ MaxItems \in Nat \ {0} /\ MaxPending \in Nat \ {0} /\ TargetItems \in Nat \ {0}
    /\ MaxItems <= MaxPending /\ None \notin Caller
  BY SchedulerAssumption

(* What a workload is made of. *)
LEMMA WorkIs ==
    ASSUME work \in Workload
    PROVE  /\ \A c \in Caller : /\ work.units[c] \in Seq(Nat) /\ IsInjective(work.units[c])
                                /\ Items(c) \in Nat /\ DOMAIN work.units[c] = 1..Items(c)
           /\ work.safe \in BOOLEAN /\ work.slots \in Nat \ {0}
<1>1. /\ work.units \in [Caller -> Seq(Nat)] /\ \A c \in Caller : IsInjective(work.units[c])
      /\ work.safe \in BOOLEAN /\ work.slots \in Nat \ {0}
  BY SchedulerAssumption
<1>2. \A c \in Caller : work.units[c] \in Seq(Nat)
  BY <1>1
<1>3. \A c \in Caller : Items(c) \in Nat /\ DOMAIN work.units[c] = 1..Items(c)
  BY <1>2 DEF Items
<1> QED
  BY <1>1, <1>2, <1>3

(* The items of a queue are charged once each. *)
LEMMA ChargeIs ==
    ASSUME NEW s, IsQueue(s)
    PROVE  /\ IsFiniteSet(ItemsOf(Range(s))) /\ Charge(s) = Cardinality(ItemsOf(Range(s)))
           /\ Charge(s) \in Nat
<1> DEFINE A == (1..Len(s)) \X (1..MaxItems)
           P == {p \in A : p[2] <= Items(s[p[1]])}
           Q == ItemsOf(Range(s))
           f == [p \in P |-> <<s[p[1]], p[2]>>]
<1>0. s \in Seq(Caller) /\ Len(s) \in Nat /\ DOMAIN s = 1..Len(s) /\ MaxItems \in Nat
  BY Constants DEF IsQueue
<1>1. IsFiniteSet(P)
  <2>1. IsFiniteSet(1..Len(s)) /\ IsFiniteSet(1..MaxItems)
    BY <1>0, FS_Interval
  <2>2. IsFiniteSet(A)
    BY <2>1, FS_Product
  <2>3. P \in SUBSET A
    OBVIOUS
  <2> HIDE DEF P, A
  <2> QED
    BY <2>2, <2>3, FS_Subset
<1>2. ASSUME NEW p \in P PROVE f[p] \in Q /\ f[p][1] = s[p[1]] /\ f[p][2] = p[2] /\ p = <<p[1], p[2]>> /\ p[1] \in DOMAIN s
  <2>1. p[1] \in DOMAIN s /\ p[2] \in 1..MaxItems /\ p = <<p[1], p[2]>> /\ p[2] <= Items(s[p[1]])
    BY <1>0
  <2>2. s[p[1]] \in Range(s)
    BY <2>1 DEF Range
  <2>3. f[p] = <<s[p[1]], p[2]>>
    OBVIOUS
  <2> HIDE DEF f, P
  <2> QED
    BY <2>1, <2>2, <2>3 DEF ItemsOf
<1>3. ASSUME NEW q \in Q PROVE \E p \in P : f[p] = q
  <2>1. q[1] \in Range(s) /\ q[2] \in 1..MaxItems /\ q[2] <= Items(q[1]) /\ q = <<q[1], q[2]>>
    BY DEF ItemsOf
  <2>2. PICK i \in DOMAIN s : s[i] = q[1]
    BY <2>1 DEF Range
  <2> DEFINE p == <<i, q[2]>>
  <2>3. p \in P /\ p[1] = i /\ p[2] = q[2]
    BY <1>0, <2>1, <2>2
  <2>4. f[p] = <<s[p[1]], p[2]>>
    BY <2>3
  <2>5. f[p] = q
    <3> HIDE DEF f, p, P
    <3> QED
      BY <2>1, <2>2, <2>3, <2>4
  <2> QED
    BY <2>3, <2>5
<1>4. ASSUME NEW p \in P, NEW q \in P, f[p] = f[q] PROVE p = q
  <2>1. s[p[1]] = s[q[1]] /\ p[2] = q[2] /\ p[1] \in DOMAIN s /\ q[1] \in DOMAIN s
    BY <1>2, <1>4
  <2>2. p[1] = q[1]
    BY <2>1 DEF IsQueue, IsInjective
  <2> QED
    BY <1>2, <2>1, <2>2
<1>5. DOMAIN f = P
  OBVIOUS
<1>6. f \in [P -> Q]
  <2>1. \A p \in P : <<s[p[1]], p[2]>> \in Q
    BY <1>2
  <2> HIDE DEF P, Q
  <2> QED
    BY <2>1
<1> HIDE DEF f, P, Q
<1>7. ExistsBijection(P, Q)
  <2>1. f \in Injection(P, Q)
    BY <1>4, <1>6 DEF Injection, IsInjective
  <2>2. f \in Surjection(P, Q)
    BY <1>3, <1>6 DEF Surjection
  <2>3. f \in Bijection(P, Q)
    BY <2>1, <2>2 DEF Bijection
  <2> QED
    BY <2>3 DEF ExistsBijection
<1>8. IsFiniteSet(Q) /\ Cardinality(Q) = Cardinality(P)
  BY <1>1, <1>7, FS_Bijection
<1>9. Charge(s) = Cardinality(P)
  BY DEF Charge, P
<1> QED
  BY <1>1, <1>8, <1>9, FS_CardinalityType DEF Q

(* Two parts of a queue are charged separately. *)
LEMMA ChargeJoin ==
    ASSUME NEW s, NEW t, NEW u, IsQueue(s), IsQueue(t), IsQueue(u),
           Range(s) \cap Range(t) = {}, Range(u) = Range(s) \cup Range(t)
    PROVE  Charge(u) = Charge(s) + Charge(t)
<1> DEFINE A == ItemsOf(Range(s))
           B == ItemsOf(Range(t))
           D == ItemsOf(Range(u))
<1>1. /\ IsFiniteSet(A) /\ Charge(s) = Cardinality(A) /\ Charge(s) \in Nat
      /\ IsFiniteSet(B) /\ Charge(t) = Cardinality(B) /\ Charge(t) \in Nat
      /\ Charge(u) = Cardinality(D)
  BY ChargeIs
<1>2. D = A \cup B
  BY DEF ItemsOf
<1>3. A \cap B = {}
  BY DEF ItemsOf
<1> HIDE DEF A, B, D
<1>4. Cardinality(A \cup B) = Cardinality(A) + Cardinality(B) - Cardinality(A \cap B)
  BY <1>1, FS_Union
<1>5. Cardinality(A \cap B) = 0
  BY <1>3, FS_EmptySet
<1> QED
  BY <1>1, <1>2, <1>4, <1>5

(* One caller is charged its items, and nobody nothing. *)
LEMMA ChargeOne ==
    ASSUME work \in Workload, NEW c \in Caller, Items(c) <= MaxItems
    PROVE  Charge(<<c>>) = Items(c)
<1> DEFINE I == 1..Items(c)
           Q == ItemsOf({c})
<1>0. Items(c) \in Nat /\ MaxItems \in Nat
  BY WorkIs, Constants
<1>1. Q = {c} \X I
  <2>1. \A i \in Nat : i \in 1..MaxItems /\ i <= Items(c) <=> i \in I
    BY <1>0
  <2>2. I \subseteq Nat /\ 1..MaxItems \subseteq Nat
    BY <1>0
  <2> HIDE DEF I
  <2> QED
    BY <2>1, <2>2 DEF ItemsOf
<1>2. IsFiniteSet(I) /\ Cardinality(I) = Items(c)
  BY <1>0, FS_Interval
<1>3. IsFiniteSet({c}) /\ Cardinality({c}) = 1
  BY FS_Singleton
<1>4. Cardinality({c} \X I) = Cardinality({c}) * Cardinality(I)
  <2> HIDE DEF I
  <2> QED
    BY <1>2, <1>3, FS_Product
<1>5. IsQueue(<<c>>) /\ Range(<<c>>) = {c}
  BY QueueOne
<1>6. Charge(<<c>>) = Cardinality(ItemsOf({c}))
  BY <1>5, ChargeIs
<1>7. Cardinality({c}) * Cardinality(I) = Items(c)
  <2> HIDE DEF I
  <2>1. 1 * Items(c) = Items(c)
    BY <1>0
  <2> QED
    BY <1>2, <1>3, <2>1
<1> HIDE DEF I, Q
<1> QED
  BY <1>1, <1>4, <1>6, <1>7 DEF Q

(* Nobody is charged nothing. *)
LEMMA ChargeNone == Charge(<<>>) = 0
<1>1. ItemsOf({}) = {}
  BY DEF ItemsOf
<1> QED
  BY <1>1, ChargeIs, QueueEmpty, FS_EmptySet

-----------------------------------------------------------------------------
(* The slots that tasks take. *)

RetriesOf(T) == {p \in T \X Caller : p[2] \in p[1].active}
HeldBy(T) == {t \in T : t.holds}
OwnOf(T) == {p \in RetriesOf(T) : p[2] # p[1].borrower}
TakenBy(T) == Cardinality(HeldBy(T)) + Cardinality(OwnOf(T))

(* The slots that one task takes. *)
Share(t) == (IF t.holds THEN 1 ELSE 0) + Cardinality(t.active \ {t.borrower})

(* One more task takes its share. *)
LEMMA TakenAdd ==
    ASSUME NEW T, IsFiniteSet(T), IsFiniteSet(RetriesOf(T)), NEW t, t \notin T, t \in TaskType, IsFiniteSet(t.active)
    PROVE  /\ IsFiniteSet(T \cup {t}) /\ IsFiniteSet(RetriesOf(T \cup {t}))
           /\ TakenBy(T \cup {t}) = TakenBy(T) + Share(t)
           /\ TakenBy(T) \in Nat /\ Share(t) \in Nat
<1> DEFINE A == t.active \ {t.borrower}
           R == {t} \X t.active
           O == {t} \X A
<1>0. t.active \subseteq Caller /\ t.holds \in BOOLEAN
  BY DEF TaskType
<1>1. IsFiniteSet(T \cup {t})
  BY FS_AddElement
<1>2. IsFiniteSet({t}) /\ Cardinality({t}) = 1
  BY FS_Singleton
<1>3. IsFiniteSet(A) /\ Cardinality(A) \in Nat
  <2>1. IsFiniteSet(A)
    BY FS_Difference
  <2> QED
    BY <2>1, FS_CardinalityType
<1>4. IsFiniteSet(R) /\ IsFiniteSet(O) /\ Cardinality(O) = Cardinality(A)
  <2>1. IsFiniteSet(R)
    BY <1>2, FS_Product
  <2>2. IsFiniteSet(O) /\ Cardinality(O) = Cardinality({t}) * Cardinality(A)
    <3> HIDE DEF A
    <3> QED
      BY <1>2, <1>3, FS_Product
  <2> QED
    BY <1>2, <1>3, <2>1, <2>2
<1>5. RetriesOf(T \cup {t}) = RetriesOf(T) \cup R
  BY <1>0 DEF RetriesOf
<1>6. OwnOf(T \cup {t}) = OwnOf(T) \cup O
  BY <1>0 DEF RetriesOf, OwnOf
<1>7. OwnOf(T) \cap O = {}
  BY DEF RetriesOf, OwnOf
<1>8. IsFiniteSet(OwnOf(T)) /\ Cardinality(OwnOf(T)) \in Nat
  <2>1. OwnOf(T) \in SUBSET RetriesOf(T)
    BY DEF OwnOf
  <2>2. IsFiniteSet(OwnOf(T))
    BY <2>1, FS_Subset
  <2> QED
    BY <2>2, FS_CardinalityType
<1>9. IsFiniteSet(HeldBy(T)) /\ Cardinality(HeldBy(T)) \in Nat
  <2>1. HeldBy(T) \in SUBSET T
    BY DEF HeldBy
  <2>2. IsFiniteSet(HeldBy(T))
    BY <2>1, FS_Subset
  <2> QED
    BY <2>2, FS_CardinalityType
<1>10. HeldBy(T \cup {t}) = IF t.holds THEN HeldBy(T) \cup {t} ELSE HeldBy(T)
  BY DEF HeldBy
<1>11. t \notin HeldBy(T)
  BY DEF HeldBy
<1>12. Cardinality(HeldBy(T \cup {t})) = Cardinality(HeldBy(T)) + (IF t.holds THEN 1 ELSE 0)
  <2>1. CASE t.holds
    <3>1. Cardinality(HeldBy(T) \cup {t}) = Cardinality(HeldBy(T)) + 1
      BY <1>9, <1>11, FS_AddElement
    <3> QED
      BY <1>10, <2>1, <3>1
  <2>2. CASE ~t.holds
    BY <1>9, <1>10, <2>2
  <2> QED
    BY <2>1, <2>2
<1>13. IsFiniteSet(RetriesOf(T \cup {t}))
  <2> HIDE DEF R
  <2> QED
    BY <1>4, <1>5, FS_Union
<1>14. Cardinality(OwnOf(T \cup {t})) = Cardinality(OwnOf(T)) + Cardinality(A)
  <2> HIDE DEF O, A
  <2>1. Cardinality(OwnOf(T) \cup O) = Cardinality(OwnOf(T)) + Cardinality(O) - Cardinality(OwnOf(T) \cap O)
    BY <1>4, <1>8, FS_Union
  <2>2. Cardinality(OwnOf(T) \cap O) = 0
    BY <1>7, FS_EmptySet
  <2>3. Cardinality(OwnOf(T) \cup O) = Cardinality(OwnOf(T)) + Cardinality(A)
    BY <1>3, <1>4, <1>8, <2>1, <2>2
  <2> QED
    BY <1>6, <2>3
<1> HIDE DEF A
<1>15. Share(t) = (IF t.holds THEN 1 ELSE 0) + Cardinality(A)
  BY DEF Share, A
<1> QED
  BY <1>1, <1>3, <1>8, <1>9, <1>12, <1>13, <1>14, <1>15 DEF TakenBy

(* A task that ends gives its share back. *)
LEMMA TakenEnd ==
    ASSUME NEW T, IsFiniteSet(T), IsFiniteSet(RetriesOf(T)), NEW t \in T, t \in TaskType, IsFiniteSet(t.active)
    PROVE  /\ IsFiniteSet(T \ {t}) /\ IsFiniteSet(RetriesOf(T \ {t}))
           /\ TakenBy(T) = TakenBy(T \ {t}) + Share(t)
           /\ TakenBy(T \ {t}) \in Nat /\ Share(t) \in Nat
<1> DEFINE U == T \ {t}
<1>1. IsFiniteSet(U) /\ t \notin U /\ U \cup {t} = T
  BY FS_RemoveElement
<1>2. RetriesOf(U) \in SUBSET RetriesOf(T)
  BY DEF RetriesOf
<1>3. IsFiniteSet(RetriesOf(U))
  BY <1>2, FS_Subset
<1> HIDE DEF U
<1>4. TakenBy(U \cup {t}) = TakenBy(U) + Share(t) /\ TakenBy(U) \in Nat /\ Share(t) \in Nat
  BY <1>1, <1>3, TakenAdd
<1> QED
  BY <1>1, <1>3, <1>4 DEF U

(* A task that goes on takes another share. *)
LEMMA TakenInstead ==
    ASSUME NEW T, IsFiniteSet(T), IsFiniteSet(RetriesOf(T)), NEW t \in T, t \in TaskType, IsFiniteSet(t.active),
           NEW u, u \notin T \ {t}, u \in TaskType, IsFiniteSet(u.active)
    PROVE  /\ IsFiniteSet((T \ {t}) \cup {u}) /\ IsFiniteSet(RetriesOf((T \ {t}) \cup {u}))
           /\ TakenBy((T \ {t}) \cup {u}) = TakenBy(T) - Share(t) + Share(u)
           /\ TakenBy(T) \in Nat /\ Share(t) \in Nat /\ Share(u) \in Nat
<1> DEFINE V == T \ {t}
<1>1. IsFiniteSet(V) /\ IsFiniteSet(RetriesOf(V)) /\ TakenBy(T) = TakenBy(V) + Share(t) /\ TakenBy(V) \in Nat /\ Share(t) \in Nat
  BY TakenEnd
<1> HIDE DEF V
<1>2. u \notin V
  BY DEF V
<1>3. /\ IsFiniteSet(V \cup {u}) /\ IsFiniteSet(RetriesOf(V \cup {u}))
      /\ TakenBy(V \cup {u}) = TakenBy(V) + Share(u) /\ Share(u) \in Nat
  BY <1>1, <1>2, TakenAdd
<1> QED
  BY <1>1, <1>3 DEF V

-----------------------------------------------------------------------------
(* What a step leaves alone. *)

(* Types is about these variables only. *)
LEMMA TypesFrame ==
    ASSUME Types, UNCHANGED <<work, phase, reply, sent, lane>>
    PROVE  Types'
  BY DEF Types

(* So is Queues. *)
LEMMA QueuesFrame ==
    ASSUME Queues, UNCHANGED <<work, phase, sent, lane, admitting, channel>>
    PROVE  Queues'
  BY DEF Queues, Waiting, OneEach, Items

(* What is true of a task is about the task and the workload. *)
LEMMA TaskFrame ==
    ASSUME NEW t, TaskOk(t), work' = work
    PROVE  TaskOk(t)'
<1>1. OneEach(Range(t.groups))' <=> OneEach(Range(t.groups))
  BY DEF OneEach
<1>2. \A c : Items(c)' = Items(c)
  BY DEF Items
<1> QED
  BY <1>1, <1>2 DEF TaskOk, TaskType

(* And how often its callers were sent, about those callers. *)
LEMMA TaskSentFrame ==
    ASSUME NEW t, TaskSent(t), \A c \in Range(t.groups) \cup Range(t.todo) : sent'[c] = sent[c]
    PROVE  TaskSent(t)'
  BY DEF TaskSent

(* So Batches is about these variables only. *)
LEMMA BatchesFrame ==
    ASSUME Batches, UNCHANGED <<work, sent, tasks>>
    PROVE  Batches'
<1>1. \A t \in tasks : TaskOk(t)' /\ TaskSent(t)'
  BY TaskFrame, TaskSentFrame DEF Batches
<1> QED
  BY <1>1 DEF Batches

(* And Charged. *)
LEMMA ChargedFrame ==
    ASSUME Charged, UNCHANGED <<work, lane, channel, pending>>
    PROVE  Charged'
  BY DEF Charged, Charge, Queued, Items

(* And Slots. *)
LEMMA SlotsFrame ==
    ASSUME Slots, UNCHANGED <<work, free, tasks>>
    PROVE  Slots'
  BY DEF Slots, Taken, Retries

(* And OwnVerdict. *)
LEMMA VerdictFrame ==
    ASSUME OwnVerdict, UNCHANGED <<work, phase, reply>>
    PROVE  OwnVerdict'
  BY DEF OwnVerdict, Items

(* Nobody new is told anything. *)
LEMMA VerdictKept ==
    ASSUME OwnVerdict, UNCHANGED <<work, reply>>,
           \A c \in Caller : phase'[c] = "done" => phase[c] = "done"
    PROVE  OwnVerdict'
<1>1. \A c : Items(c)' = Items(c)
  BY DEF Items
<1> QED
  BY <1>1 DEF OwnVerdict

(* SentOnce is about these variables only. *)
LEMMA SentFrame ==
    ASSUME SentOnce, UNCHANGED <<work, sent>>
    PROVE  SentOnce'
  BY DEF SentOnce

-----------------------------------------------------------------------------
(* The queues of the lane. *)

(* Three queues with no caller in common are one. *)
LEMMA JoinThree ==
    ASSUME NEW a, NEW b, NEW c, IsQueue(a), IsQueue(b), IsQueue(c),
           Range(a) \cap Range(b) = {}, Range(a) \cap Range(c) = {}, Range(b) \cap Range(c) = {}
    PROVE  IsQueue(a \o b \o c) /\ Range(a \o b \o c) = Range(a) \cup Range(b) \cup Range(c)
<1>1. IsQueue(a \o b) /\ Range(a \o b) = Range(a) \cup Range(b)
  BY QueueJoin
<1>2. Range(a \o b) \cap Range(c) = {}
  BY <1>1
<1>3. IsQueue((a \o b) \o c) /\ Range((a \o b) \o c) = Range(a \o b) \cup Range(c)
  BY <1>1, <1>2, QueueJoin
<1> QED
  BY <1>1, <1>3

(* What is queued is one queue. *)
LEMMA QueuedIs ==
    ASSUME Queues
    PROVE  IsQueue(Queued) /\ Range(Queued) = Waiting
  BY JoinThree DEF Queues, Queued, Waiting

(* The same of the next state. *)
LEMMA QueuedNext ==
    ASSUME Queues'
    PROVE  IsQueue(Queued') /\ Range(Queued') = Waiting'
<1>1. /\ IsQueue(channel') /\ IsQueue(lane'.queued) /\ IsQueue(lane'.batch)
      /\ Range(channel') \cap Range(lane'.queued) = {}
      /\ Range(channel') \cap Range(lane'.batch) = {}
      /\ Range(lane'.queued) \cap Range(lane'.batch) = {}
  BY DEF Queues, IsQueue
<1> QED
  BY <1>1, JoinThree DEF Queued, Waiting

(* A step of the lane moves groups between its queues, or drops some. *)
LEMMA LaneQueues ==
    ASSUME Queues, UNCHANGED <<work, phase, sent, admitting>>,
           IsQueue(channel'), IsQueue(lane'.queued), IsQueue(lane'.batch),
           Range(channel') \cap Range(lane'.queued) = {},
           Range(channel') \cap Range(lane'.batch) = {},
           Range(lane'.queued) \cap Range(lane'.batch) = {},
           Waiting' \subseteq Waiting, OneEach(Range(lane'.batch)),
           lane'.at = "recv" <=> lane'.batch = <<>>
    PROVE  Queues'
<1>1. /\ \A c \in Waiting' : phase'[c] \in {"wait", "gone"} /\ sent'[c] = 0
      /\ \A c \in Range(admitting') \cup Waiting' : Items(c)' <= MaxItems
  BY DEF Queues, Items
<1>2. OneEach(Range(lane.batch))'
  BY DEF OneEach
<1>3. /\ IsQueue(admitting)' /\ \A c \in Range(admitting') : phase'[c] = "admit"
      /\ \A c \in Caller : phase'[c] \in {"idle", "admit"} => sent'[c] = 0
  BY DEF Queues
<1> QED
  BY <1>1, <1>2, <1>3 DEF Queues, IsQueue

(* The groups d that it drops give back what was charged for them. *)
LEMMA LaneCharged ==
    ASSUME Queues, Queues', Charged, work' = work,
           NEW d, IsQueue(d), Range(d) \cap Waiting' = {}, Waiting = Waiting' \cup Range(d),
           pending' = pending - Charge(d)
    PROVE  Charged'
<1>1. IsQueue(Queued) /\ Range(Queued) = Waiting /\ IsQueue(Queued') /\ Range(Queued') = Waiting'
  BY QueuedIs, QueuedNext
<1>2. Charge(Queued) = Charge(Queued') + Charge(d)
  BY <1>1, ChargeJoin
<1>3. Charge(Queued') \in Nat /\ Charge(d) \in Nat
  BY <1>1, ChargeIs
<1>4. Charge(Queued)' = Charge(Queued')
  BY DEF Charge, Items
<1>5. pending \in Nat /\ pending = Charge(Queued) /\ pending <= MaxPending /\ MaxPending \in Nat
  BY Constants DEF Charged
<1>6. pending' = Charge(Queued') /\ pending' \in Nat /\ pending' <= MaxPending
  BY <1>2, <1>3, <1>5
<1> QED
  BY <1>4, <1>6 DEF Charged

(* And when it drops none, nothing is given back. *)
LEMMA LaneChargedSame ==
    ASSUME Queues, Queues', Charged, work' = work, Waiting' = Waiting, pending' = pending
    PROVE  Charged'
<1>1. IsQueue(<<>>) /\ Range(<<>>) = {} /\ Charge(<<>>) = 0
  BY QueueEmpty, ChargeNone
<1>2. pending' = pending - Charge(<<>>)
  BY <1>1 DEF Charged
<1> QED
  BY <1>1, <1>2, LaneCharged

-----------------------------------------------------------------------------
(* The first state, and the steps of the callers. *)

(* The invariant holds at the start. *)
LEMMA InitHolds == Init => IInv
<1> SUFFICES ASSUME Init PROVE IInv
  OBVIOUS
<1>0. work \in Workload /\ work.safe \in BOOLEAN /\ work.slots \in Nat \ {0}
  BY WorkIs DEF Init
<1>1. Types
  <2>1. lane = [at |-> "recv", batch |-> <<>>, queued |-> <<>>] /\ <<>> \in Seq(Caller)
    BY DEF Init
  <2>2. lane \in [at : {"recv", "gather", "slot"}, batch : Seq(Caller), queued : Seq(Caller)]
    BY <2>1
  <2>3. /\ reply = [c \in Caller |-> reply[c]] /\ \A c \in Caller : reply[c] = NoReply
    BY DEF Init
  <2>4. phase \in [Caller -> {"idle", "admit", "wait", "done", "gone"}] /\ sent \in [Caller -> Nat]
    BY DEF Init
  <2> QED
    BY <1>0, <2>2, <2>3, <2>4 DEF Types
<1>2. Queues
  <2>1. admitting = <<>> /\ channel = <<>> /\ lane.queued = <<>> /\ lane.batch = <<>> /\ lane.at = "recv"
    BY DEF Init
  <2>2. \A c \in Caller : sent[c] = 0
    BY DEF Init
  <2>3. OneEach({})
    BY DEF OneEach
  <2> QED
    BY <2>1, <2>2, <2>3, QueueEmpty DEF Queues, Waiting
<1>3. Batches
  BY DEF Init, Batches
<1>4. Charged
  <2>1. Waiting = {}
    BY QueueEmpty DEF Init, Waiting
  <2>2. Queued = <<>>
    BY <1>2, <2>1, QueuedIs, QueueEmpty
  <2> QED
    BY <2>2, ChargeNone, Constants DEF Init, Charged
<1>5. Slots
  <2>1. tasks = {} /\ free = work.slots /\ Retries = {}
    BY DEF Init, Retries
  <2>2. {t \in tasks : t.holds} = {} /\ {p \in Retries : p[2] # p[1].borrower} = {}
    BY <2>1
  <2>3. IsFiniteSet({}) /\ Cardinality({}) = 0
    BY FS_EmptySet
  <2>4. Taken = 0
    <3>1. Taken = Cardinality({}) + Cardinality({})
      BY <2>2 DEF Taken
    <3> QED
      BY <2>3, <3>1
  <2> QED
    BY <1>0, <2>1, <2>3, <2>4 DEF Slots
<1>6. OwnVerdict
  BY DEF Init, OwnVerdict
<1>7. SentOnce
  BY <1>0 DEF Init, SentOnce
<1> QED
  BY <1>1, <1>2, <1>3, <1>4, <1>5, <1>6, <1>7 DEF IInv

(* A call is refused, or its caller waits for capacity. *)
LEMMA SubmitHolds ==
    ASSUME IInv, NEW c \in Caller, Submit(c)
    PROVE  IInv'
<1>0. /\ Types /\ Queues /\ Batches /\ Charged /\ Slots /\ OwnVerdict /\ SentOnce
      /\ UNCHANGED <<work, pending, channel, lane, tasks, free, sent>> /\ phase[c] = "idle"
  BY DEF IInv, Submit
<1>1. Batches' /\ Charged' /\ Slots' /\ SentOnce'
  BY <1>0, BatchesFrame, ChargedFrame, SlotsFrame, SentFrame
<1>2. /\ phase \in [Caller -> {"idle", "admit", "wait", "done", "gone"}]
      /\ reply = [d \in Caller |-> reply[d]] /\ reply[c] = NoReply
      /\ Items(c) \in Nat /\ c \notin Range(admitting) /\ c \notin Waiting
      /\ IsQueue(admitting)
  BY <1>0, WorkIs DEF Types, Queues
<1>3. CASE /\ Items(c) = 0 \/ ~Admissible(c)
           /\ phase' = [phase EXCEPT ![c] = "done"]
           /\ reply' = [reply EXCEPT ![c] = IF Items(c) = 0 THEN [@ EXCEPT !.result = "ok"]
                                                            ELSE Failed("refused")]
           /\ UNCHANGED admitting
  <2>1. \A d \in Caller : phase'[d] = IF d = c THEN "done" ELSE phase[d]
    BY <1>2, <1>3
  <2>2. /\ \A d \in Caller : d # c => reply'[d] = reply[d]
        /\ reply'[c] = IF Items(c) = 0 THEN [reply[c] EXCEPT !.result = "ok"] ELSE Failed("refused")
        /\ reply' = [d \in Caller |-> reply'[d]]
    BY <1>2, <1>3
  <2>3. phase' \in [Caller -> {"idle", "admit", "wait", "done", "gone"}]
    BY <1>2, <1>3
  <2>4. Types'
    BY <1>0, <2>1, <2>2, <2>3 DEF Types
  <2>5. Queues'
    <3>1. Waiting' = Waiting /\ Waiting \subseteq Caller /\ Range(admitting) \subseteq Caller
      BY <1>0 DEF Waiting, Queues, IsQueue, Range
    <3>2. /\ \A d \in Waiting : phase'[d] \in {"wait", "gone"} /\ sent'[d] = 0
          /\ \A d \in Range(admitting) : phase'[d] = "admit"
          /\ \A d \in Caller : phase'[d] \in {"idle", "admit"} => sent'[d] = 0
      BY <1>0, <1>2, <2>1, <3>1 DEF Queues
    <3>3. \A d : Items(d)' = Items(d)
      BY <1>0 DEF Items
    <3>4. OneEach(Range(lane.batch))'
      BY <1>0 DEF OneEach, Queues
    <3> QED
      BY <1>0, <1>3, <3>1, <3>2, <3>3, <3>4 DEF Queues, IsQueue
  <2>6. OwnVerdict'
    <3>1. \A d : Items(d)' = Items(d)
      BY <1>0 DEF Items
    <3>2. ASSUME NEW d \in Caller, phase'[d] = "done", d # c
          PROVE  /\ reply'[d].result = "ok" => reply'[d].part = [i \in 1..Items(d) |-> <<d, i>>]
                 /\ reply'[d].result = "rejected" /\ work'.safe => d \in work'.bad
      BY <1>0, <2>1, <2>2, <3>2 DEF OwnVerdict
    <3>3. CASE Items(c) = 0
      <4>1. reply'[c] = [NoReply EXCEPT !.result = "ok"]
        BY <1>2, <2>2, <3>3
      <4>2. reply'[c].part = <<>> /\ reply'[c].result = "ok"
        BY <4>1 DEF NoReply
      <4>3. [i \in 1..Items(c) |-> <<c, i>>] = <<>>
        BY <3>3
      <4> QED
        BY <3>1, <3>2, <4>2, <4>3 DEF OwnVerdict
    <3>4. CASE Items(c) # 0
      <4>1. reply'[c].result = "refused"
        BY <2>2, <3>4 DEF Failed
      <4> QED
        BY <3>1, <3>2, <4>1 DEF OwnVerdict
    <3> QED
      BY <3>3, <3>4
  <2> QED
    BY <1>1, <2>4, <2>5, <2>6 DEF IInv
<1>4. CASE /\ Items(c) > 0 /\ Admissible(c)
           /\ phase' = [phase EXCEPT ![c] = "admit"]
           /\ admitting' = Append(admitting, c)
           /\ UNCHANGED reply
  <2>1. \A d \in Caller : phase'[d] = IF d = c THEN "admit" ELSE phase[d]
    BY <1>2, <1>4
  <2>3. phase' \in [Caller -> {"idle", "admit", "wait", "done", "gone"}]
    BY <1>2, <1>4
  <2>4. Types'
    BY <1>0, <1>4, <2>1, <2>3 DEF Types
  <2>5. Queues'
    <3>1. Waiting' = Waiting /\ Waiting \subseteq Caller /\ Range(admitting) \subseteq Caller
      BY <1>0 DEF Waiting, Queues, IsQueue, Range
    <3>2. IsQueue(admitting') /\ Range(admitting') = Range(admitting) \cup {c}
      BY <1>2, <1>4, QueueAppend
    <3>3. \A d : Items(d)' = Items(d)
      BY <1>0 DEF Items
    <3>4. OneEach(Range(lane.batch))'
      BY <1>0 DEF OneEach, Queues
    <3>5. /\ \A d \in Waiting : phase'[d] \in {"wait", "gone"} /\ sent'[d] = 0
          /\ \A d \in Range(admitting') : phase'[d] = "admit"
          /\ \A d \in Caller : phase'[d] \in {"idle", "admit"} => sent'[d] = 0
      BY <1>0, <1>2, <2>1, <3>1, <3>2 DEF Queues
    <3>6. \A d \in Range(admitting') \cup Waiting : Items(d) <= MaxItems
      BY <1>0, <1>4, <3>2 DEF Queues, Admissible
    <3> QED
      BY <1>0, <3>1, <3>2, <3>3, <3>4, <3>5, <3>6 DEF Queues, IsQueue
  <2>6. OwnVerdict'
    BY <1>0, <1>4, <2>1, VerdictKept
  <2> QED
    BY <1>1, <2>4, <2>5, <2>6 DEF IInv
<1> QED
  BY <1>3, <1>4 DEF Submit

(* What is admitted is charged, and queued with the lane. *)
LEMMA AdmitHolds ==
    ASSUME IInv, Admit
    PROVE  IInv'
<1> DEFINE c == Head(admitting)
<1>0. /\ Types /\ Queues /\ Batches /\ Charged /\ Slots /\ OwnVerdict /\ SentOnce
      /\ UNCHANGED <<work, reply, lane, tasks, free, sent>>
      /\ admitting # <<>> /\ pending + Items(c) <= MaxPending /\ pending' = pending + Items(c)
      /\ channel' = Append(channel, c) /\ phase' = [phase EXCEPT ![c] = "wait"]
      /\ admitting' = Tail(admitting)
  BY DEF IInv, Admit
<1>1. Batches' /\ Slots' /\ SentOnce'
  BY <1>0, BatchesFrame, SlotsFrame, SentFrame
<1>2. /\ phase \in [Caller -> {"idle", "admit", "wait", "done", "gone"}]
      /\ IsQueue(admitting) /\ IsQueue(channel)
  BY <1>0 DEF Types, Queues
<1>3. /\ c \in Caller /\ c \in Range(admitting)
      /\ IsQueue(admitting') /\ Range(admitting') = Range(admitting) \ {c}
  BY <1>0, <1>2, QueueTail
<1> HIDE DEF c
<1>4. phase[c] = "admit" /\ c \notin Waiting /\ sent[c] = 0 /\ Items(c) <= MaxItems
  BY <1>0, <1>3 DEF Queues
<1>5. IsQueue(channel') /\ Range(channel') = Range(channel) \cup {c} /\ Waiting' = Waiting \cup {c}
  <2>1. IsQueue(channel') /\ Range(channel') = Range(channel) \cup {c}
    BY <1>0, <1>2, <1>3, <1>4, QueueAppend DEF Waiting
  <2> QED
    BY <1>0, <2>1 DEF Waiting
<1>6. \A d \in Caller : phase'[d] = IF d = c THEN "wait" ELSE phase[d]
  BY <1>0, <1>2
<1>7. phase' \in [Caller -> {"idle", "admit", "wait", "done", "gone"}]
  BY <1>0, <1>2
<1>8. Types'
  BY <1>0, <1>6, <1>7 DEF Types
<1>9. Queues'
  <2>1. Waiting \subseteq Caller /\ Range(admitting) \subseteq Caller
    BY <1>0 DEF Waiting, Queues, IsQueue, Range
  <2>2. /\ \A d \in Waiting' : phase'[d] \in {"wait", "gone"} /\ sent'[d] = 0
        /\ \A d \in Range(admitting') : phase'[d] = "admit"
        /\ \A d \in Caller : phase'[d] \in {"idle", "admit"} => sent'[d] = 0
    BY <1>0, <1>3, <1>4, <1>5, <1>6, <2>1 DEF Queues
  <2>3. \A d : Items(d)' = Items(d)
    BY <1>0 DEF Items
  <2>4. OneEach(Range(lane.batch))'
    BY <1>0 DEF OneEach, Queues
  <2>5. \A d \in Range(admitting') \cup Waiting' : Items(d) <= MaxItems
    BY <1>0, <1>3, <1>5 DEF Queues
  <2>6. /\ Range(channel') \cap Range(lane'.queued) = {}
        /\ Range(channel') \cap Range(lane'.batch) = {}
        /\ Range(lane'.queued) \cap Range(lane'.batch) = {}
        /\ IsQueue(lane'.queued) /\ IsQueue(lane'.batch)
        /\ lane'.at = "recv" <=> lane'.batch = <<>>
    BY <1>0, <1>4, <1>5 DEF Queues, Waiting
  <2> QED
    BY <1>3, <1>5, <2>2, <2>3, <2>4, <2>5, <2>6 DEF Queues, IsQueue
<1>10. Charged'
  <2>1. IsQueue(Queued) /\ Range(Queued) = Waiting /\ IsQueue(Queued') /\ Range(Queued') = Waiting'
    BY <1>0, <1>9, QueuedIs, QueuedNext
  <2>2. IsQueue(<<c>>) /\ Range(<<c>>) = {c}
    BY <1>3, QueueOne
  <2>3. Charge(Queued') = Charge(Queued) + Charge(<<c>>)
    BY <1>4, <1>5, <2>1, <2>2, ChargeJoin
  <2>4. Charge(<<c>>) = Items(c)
    BY <1>0, <1>3, <1>4, ChargeOne DEF Types
  <2>5. Charge(Queued)' = Charge(Queued')
    BY <1>0 DEF Charge, Items
  <2>6. pending = Charge(Queued) /\ Charge(Queued) \in Nat /\ Items(c) \in Nat
    BY <1>0, <1>3, WorkIs DEF Charged, Types
  <2> QED
    BY <1>0, <2>3, <2>4, <2>5, <2>6 DEF Charged
<1>11. OwnVerdict'
  BY <1>0, <1>6, VerdictKept
<1> QED
  BY <1>1, <1>8, <1>9, <1>10, <1>11 DEF IInv

(* A caller that leaves keeps its place, and its charge, in the lane. *)
LEMMA LeaveHolds ==
    ASSUME IInv, NEW c \in Caller, Leave(c)
    PROVE  IInv'
<1>0. /\ Types /\ Queues /\ Batches /\ Charged /\ Slots /\ OwnVerdict /\ SentOnce
      /\ UNCHANGED <<work, reply, pending, channel, lane, tasks, free, sent>>
      /\ phase[c] \in {"admit", "wait"} /\ phase' = [phase EXCEPT ![c] = "gone"]
      /\ admitting' = Keep(admitting, Caller \ {c})
  BY DEF IInv, Leave
<1>1. Batches' /\ Charged' /\ Slots' /\ SentOnce'
  BY <1>0, BatchesFrame, ChargedFrame, SlotsFrame, SentFrame
<1>2. /\ phase \in [Caller -> {"idle", "admit", "wait", "done", "gone"}]
      /\ IsQueue(admitting)
  BY <1>0 DEF Types, Queues
<1>3. IsQueue(admitting') /\ Range(admitting') = Range(admitting) \cap (Caller \ {c})
  BY <1>0, <1>2, QueueKeep
<1>4. \A d \in Caller : phase'[d] = IF d = c THEN "gone" ELSE phase[d]
  BY <1>0, <1>2
<1>5. phase' \in [Caller -> {"idle", "admit", "wait", "done", "gone"}]
  BY <1>0, <1>2
<1>6. Types'
  BY <1>0, <1>4, <1>5 DEF Types
<1>7. Queues'
  <2>1. Waiting' = Waiting /\ Waiting \subseteq Caller /\ Range(admitting) \subseteq Caller
    BY <1>0 DEF Waiting, Queues, IsQueue, Range
  <2>2. /\ \A d \in Waiting : phase'[d] \in {"wait", "gone"} /\ sent'[d] = 0
        /\ \A d \in Range(admitting') : phase'[d] = "admit"
        /\ \A d \in Caller : phase'[d] \in {"idle", "admit"} => sent'[d] = 0
    <3>1. /\ \A d \in Waiting : phase[d] \in {"wait", "gone"} /\ sent[d] = 0
          /\ \A d \in Range(admitting) : phase[d] = "admit"
          /\ \A d \in Caller : phase[d] \in {"idle", "admit"} => sent[d] = 0
      BY <1>0 DEF Queues
    <3>2. \A d \in Waiting : phase'[d] \in {"wait", "gone"} /\ sent'[d] = 0
      BY <1>0, <1>4, <2>1, <3>1
    <3>3. \A d \in Range(admitting') : phase'[d] = "admit"
      BY <1>3, <1>4, <3>1
    <3>4. \A d \in Caller : phase'[d] \in {"idle", "admit"} => sent'[d] = 0
      BY <1>0, <1>4, <3>1
    <3> QED
      BY <3>2, <3>3, <3>4
  <2>3. \A d : Items(d)' = Items(d)
    BY <1>0 DEF Items
  <2>4. OneEach(Range(lane.batch))'
    BY <1>0 DEF OneEach, Queues
  <2>5. \A d \in Range(admitting') \cup Waiting : Items(d) <= MaxItems
    BY <1>0, <1>3 DEF Queues
  <2> QED
    BY <1>0, <1>3, <2>1, <2>2, <2>3, <2>4, <2>5 DEF Queues, IsQueue
<1>8. OwnVerdict'
  BY <1>0, <1>4, VerdictKept
<1> QED
  BY <1>1, <1>6, <1>7, <1>8 DEF IInv

-----------------------------------------------------------------------------
(* The steps of the lane. *)

LaneType == [at : {"recv", "gather", "slot"}, batch : Seq(Caller), queued : Seq(Caller)]

(* Most steps of the lane change its queues and what is pending, no more. *)
LEMMA LaneStep ==
    ASSUME IInv, UNCHANGED <<work, phase, reply, admitting, tasks, free, sent>>,
           lane' \in LaneType, Queues', Charged'
    PROVE  IInv'
<1>0. Types /\ Batches /\ Slots /\ OwnVerdict /\ SentOnce
  BY DEF IInv
<1>1. Batches' /\ Slots' /\ OwnVerdict' /\ SentOnce'
  BY <1>0, BatchesFrame, SlotsFrame, VerdictFrame, SentFrame
<1>2. Types'
  BY <1>0 DEF Types, LaneType
<1> QED
  BY <1>1, <1>2 DEF IInv

(* The next group leaves the queue that it is in. *)
LEMMA NextIs ==
    ASSUME Types, Queues, HasNext, TakeNext, NEW c, c = NextGroup
    PROVE  /\ c \in Caller /\ c \in Waiting /\ c \notin Range(lane.batch) /\ Items(c) <= MaxItems
           /\ IsQueue(channel') /\ IsQueue(QueueLeft) /\ QueueLeft \in Seq(Caller)
           /\ Range(channel') \cap Range(QueueLeft) = {}
           /\ Range(channel') \cup Range(QueueLeft) = (Range(channel) \cup Range(lane.queued)) \ {c}
<1>0. /\ IsQueue(channel) /\ IsQueue(lane.queued)
      /\ Range(channel) \cap Range(lane.queued) = {}
      /\ Range(channel) \cap Range(lane.batch) = {}
      /\ Range(lane.queued) \cap Range(lane.batch) = {}
      /\ \A d \in Waiting : Items(d) <= MaxItems
  BY DEF Queues
<1>1. CASE lane.queued # <<>>
  <2>1. c = Head(lane.queued) /\ QueueLeft = Tail(lane.queued) /\ channel' = channel
    BY <1>1 DEF NextGroup, QueueLeft, TakeNext
  <2>2. /\ c \in Caller /\ c \in Range(lane.queued)
        /\ IsQueue(QueueLeft) /\ Range(QueueLeft) = Range(lane.queued) \ {c}
    BY <1>0, <1>1, <2>1, QueueTail
  <2> QED
    BY <1>0, <2>1, <2>2 DEF Waiting, IsQueue
<1>2. CASE lane.queued = <<>>
  <2>1. c = Head(channel) /\ QueueLeft = lane.queued /\ channel' = Tail(channel) /\ channel # <<>>
    BY <1>2 DEF NextGroup, QueueLeft, TakeNext, HasNext
  <2>2. /\ c \in Caller /\ c \in Range(channel)
        /\ IsQueue(channel') /\ Range(channel') = Range(channel) \ {c}
    BY <1>0, <2>1, QueueTail
  <2> QED
    BY <1>0, <2>1, <2>2 DEF Waiting, IsQueue
<1> QED
  BY <1>1, <1>2

(* A group whose caller has gone is dropped. *)
LEMMA NextDropped ==
    ASSUME IInv, UNCHANGED <<work, phase, reply, admitting, tasks, free, sent>>,
           HasNext, TakeNext, NEW c, c = NextGroup,
           lane' = [lane EXCEPT !.queued = QueueLeft], Dropped(<<c>>, <<>>)
    PROVE  IInv'
<1>0. Types /\ Queues /\ Charged
  BY DEF IInv
<1>1. lane \in LaneType
  BY <1>0 DEF Types, LaneType
<1>2. /\ c \in Caller /\ c \in Waiting /\ c \notin Range(lane.batch) /\ Items(c) <= MaxItems
      /\ IsQueue(channel') /\ IsQueue(QueueLeft) /\ QueueLeft \in Seq(Caller)
      /\ Range(channel') \cap Range(QueueLeft) = {}
      /\ Range(channel') \cup Range(QueueLeft) = (Range(channel) \cup Range(lane.queued)) \ {c}
  BY <1>0, NextIs
<1>3. /\ lane' \in LaneType /\ lane'.at = lane.at /\ lane'.batch = lane.batch /\ lane'.queued = QueueLeft
  BY <1>1, <1>2 DEF LaneType
<1>4. Waiting' = Waiting \ {c}
  BY <1>2, <1>3 DEF Waiting
<1>5. /\ Range(channel) \cap Range(lane.batch) = {} /\ Range(lane.queued) \cap Range(lane.batch) = {}
      /\ IsQueue(lane.batch) /\ OneEach(Range(lane.batch)) /\ (lane.at = "recv" <=> lane.batch = <<>>)
  BY <1>0 DEF Queues
<1>6. Queues'
  <2>1. Range(channel') \cap Range(lane.batch) = {} /\ Range(QueueLeft) \cap Range(lane.batch) = {}
    BY <1>2, <1>5
  <2>2. Waiting' \subseteq Waiting
    BY <1>4
  <2> QED
    BY <1>0, <1>2, <1>3, <1>5, <2>1, <2>2, LaneQueues
<1>7. Charged'
  <2>1. IsQueue(<<c>>) /\ Range(<<c>>) = {c} /\ Charge(<<c>>) \in Nat /\ Charge(<<>>) = 0
    BY <1>2, QueueOne, ChargeIs, ChargeNone
  <2>2. pending' = pending - Charge(<<c>>)
    BY <1>0, <2>1 DEF Dropped, Charged
  <2>3. Range(<<c>>) \cap Waiting' = {} /\ Waiting = Waiting' \cup Range(<<c>>)
    BY <1>2, <1>4, <2>1
  <2> QED
    BY <1>0, <1>6, <2>1, <2>2, <2>3, LaneCharged
<1> QED
  BY <1>3, <1>6, <1>7, LaneStep

(* A group joins the batch: it has no unit of the others. *)
LEMMA NextJoins ==
    ASSUME IInv, UNCHANGED <<work, phase, reply, admitting, tasks, free, sent, pending>>,
           HasNext, TakeNext, NEW c, c = NextGroup, NEW b, IsQueue(b), b # <<>>,
           Range(b) = Range(lane.batch) \cup {c}, OneEach(Range(b)),
           NEW a \in {"gather", "slot"},
           lane' = [at |-> a, batch |-> b, queued |-> QueueLeft]
    PROVE  IInv'
<1>0. Types /\ Queues /\ Charged
  BY DEF IInv
<1>2. /\ c \in Caller /\ c \in Waiting /\ c \notin Range(lane.batch) /\ Items(c) <= MaxItems
      /\ IsQueue(channel') /\ IsQueue(QueueLeft) /\ QueueLeft \in Seq(Caller)
      /\ Range(channel') \cap Range(QueueLeft) = {}
      /\ Range(channel') \cup Range(QueueLeft) = (Range(channel) \cup Range(lane.queued)) \ {c}
  BY <1>0, NextIs
<1>3. /\ lane' \in LaneType /\ lane'.at = a /\ lane'.batch = b /\ lane'.queued = QueueLeft
  BY <1>2 DEF LaneType, IsQueue
<1>4. Waiting' = Waiting
  BY <1>2, <1>3 DEF Waiting
<1>5. /\ Range(channel) \cap Range(lane.batch) = {} /\ Range(lane.queued) \cap Range(lane.batch) = {}
  BY <1>0 DEF Queues
<1>6. Queues'
  <2>1. Range(channel') \cap Range(b) = {} /\ Range(QueueLeft) \cap Range(b) = {}
    BY <1>2, <1>5
  <2>2. Waiting' \subseteq Waiting
    BY <1>4
  <2> QED
    BY <1>0, <1>2, <1>3, <2>1, <2>2, LaneQueues
<1>7. Charged'
  BY <1>0, <1>4, <1>6, LaneChargedSame
<1> QED
  BY <1>3, <1>6, <1>7, LaneStep

(* The first group of a batch is in it alone. *)
LEMMA LaneFirstHolds ==
    ASSUME IInv, LaneFirst
    PROVE  IInv'
<1> DEFINE c == NextGroup
<1>0. /\ lane.at = "recv" /\ HasNext /\ TakeNext /\ Types /\ Queues
      /\ UNCHANGED <<work, phase, reply, admitting, tasks, free, sent>>
  BY DEF IInv, LaneFirst
<1>1. CASE Gone(c)
  <2>1. lane' = [lane EXCEPT !.queued = QueueLeft] /\ Dropped(<<c>>, <<>>)
    BY <1>1 DEF LaneFirst
  <2> QED
    BY <1>0, <2>1, NextDropped
<1>2. CASE ~Gone(c)
  <2>1. /\ lane' = [at |-> IF Full(<<c>>) THEN "slot" ELSE "gather", batch |-> <<c>>, queued |-> QueueLeft]
        /\ UNCHANGED pending
    BY <1>2 DEF LaneFirst
  <2>2. c \in Caller
    BY <1>0, NextIs
  <2> HIDE DEF c
  <2>3. IsQueue(<<c>>) /\ Range(<<c>>) = {c} /\ <<c>> # <<>>
    BY <2>2, QueueOne
  <2>4. Range(lane.batch) = {}
    BY <1>0, QueueEmpty DEF Queues
  <2>5. OneEach({c})
    BY DEF OneEach
  <2>6. Range(<<c>>) = Range(lane.batch) \cup {c} /\ OneEach(Range(<<c>>)) /\ c = NextGroup
    BY <2>3, <2>4, <2>5 DEF c
  <2>7. PICK a \in {"gather", "slot"} : a = IF Full(<<c>>) THEN "slot" ELSE "gather"
    OBVIOUS
  <2>8. lane' = [at |-> a, batch |-> <<c>>, queued |-> QueueLeft]
    BY <2>1, <2>7
  <2> QED
    BY <1>0, <2>1, <2>3, <2>6, <2>8, NextJoins
<1> QED
  BY <1>1, <1>2

(* A group joins the batch, or waits in front of the lane's queue. *)
LEMMA LaneGatherHolds ==
    ASSUME IInv, LaneGather
    PROVE  IInv'
<1> DEFINE c == NextGroup
<1>0. /\ lane.at = "gather" /\ HasNext /\ TakeNext /\ Types /\ Queues /\ Charged
      /\ UNCHANGED <<work, phase, reply, admitting, tasks, free, sent>>
  BY DEF IInv, LaneGather
<1>1. /\ c \in Caller /\ c \in Waiting /\ c \notin Range(lane.batch) /\ Items(c) <= MaxItems
      /\ IsQueue(channel') /\ IsQueue(QueueLeft) /\ QueueLeft \in Seq(Caller)
      /\ Range(channel') \cap Range(QueueLeft) = {}
      /\ Range(channel') \cup Range(QueueLeft) = (Range(channel) \cup Range(lane.queued)) \ {c}
  BY <1>0, NextIs
<1>2. CASE lane' = [lane EXCEPT !.queued = QueueLeft] /\ Dropped(<<c>>, <<>>)
  BY <1>0, <1>2, NextDropped
<1>3. CASE /\ Fits(c) /\ UNCHANGED pending
           /\ lane' = [at |-> IF Full(Append(lane.batch, c)) THEN "slot" ELSE "gather",
                       batch |-> Append(lane.batch, c), queued |-> QueueLeft]
  <2> DEFINE b == Append(lane.batch, c)
  <2>0. c = NextGroup
    OBVIOUS
  <2> HIDE DEF c
  <2>1. IsQueue(lane.batch) /\ OneEach(Range(lane.batch))
    BY <1>0 DEF Queues
  <2>2. IsQueue(b) /\ Range(b) = Range(lane.batch) \cup {c} /\ b # <<>>
    BY <1>1, <2>1, QueueAppend
  <2>3. \A d \in Range(lane.batch) : Range(work.units[d]) \cap Range(work.units[c]) = {}
    <3>1. UnitsOf(lane.batch) \cap UnitsOf(<<c>>) = {}
      BY <1>3 DEF Fits
    <3>2. Range(<<c>>) = {c}
      BY <1>1, QueueOne
    <3>3. UnitsOf(<<c>>) = Range(work.units[c])
      BY <3>2 DEF UnitsOf
    <3> QED
      BY <3>1, <3>3 DEF UnitsOf
  <2>4. OneEach(Range(b))
    BY <2>1, <2>2, <2>3 DEF OneEach
  <2>5. PICK a \in {"gather", "slot"} : a = IF Full(b) THEN "slot" ELSE "gather"
    OBVIOUS
  <2>6. lane' = [at |-> a, batch |-> b, queued |-> QueueLeft]
    BY <1>3, <2>5
  <2> HIDE DEF b
  <2> QED
    BY <1>0, <1>3, <2>0, <2>2, <2>4, <2>6, NextJoins
<1>4. CASE lane' = [lane EXCEPT !.at = "slot", !.queued = <<c>> \o QueueLeft] /\ UNCHANGED pending
  <2> DEFINE q == <<c>> \o QueueLeft
  <2>0. lane \in LaneType
    BY <1>0 DEF Types, LaneType
  <2> HIDE DEF c
  <2>1. IsQueue(<<c>>) /\ Range(<<c>>) = {c}
    BY <1>1, QueueOne
  <2>2. Range(<<c>>) \cap Range(QueueLeft) = {}
    BY <1>1, <2>1
  <2>3. IsQueue(q) /\ Range(q) = {c} \cup Range(QueueLeft)
    BY <1>1, <2>1, <2>2, QueueJoin
  <2>4. q \in Seq(Caller)
    BY <2>3 DEF IsQueue
  <2>5. lane' = [lane EXCEPT !.at = "slot", !.queued = q]
    BY <1>4
  <2> HIDE DEF q
  <2>6. lane' \in LaneType /\ lane'.at = "slot" /\ lane'.batch = lane.batch /\ lane'.queued = q
    BY <2>0, <2>4, <2>5 DEF LaneType
  <2>7. /\ Range(channel) \cap Range(lane.batch) = {} /\ Range(lane.queued) \cap Range(lane.batch) = {}
        /\ Range(channel) \cap Range(lane.queued) = {}
        /\ IsQueue(lane.batch) /\ OneEach(Range(lane.batch)) /\ lane.batch # <<>>
    BY <1>0 DEF Queues
  <2>8. Waiting' = Waiting
    BY <1>1, <2>3, <2>6 DEF Waiting
  <2>9. Queues'
    <3>1. /\ Range(channel') \cap Range(q) = {} /\ Range(channel') \cap Range(lane.batch) = {}
          /\ Range(q) \cap Range(lane.batch) = {}
      BY <1>1, <2>3, <2>7
    <3>2. Waiting' \subseteq Waiting
      BY <2>8
    <3> QED
      BY <1>0, <1>1, <2>3, <2>6, <2>7, <3>1, <3>2, LaneQueues
  <2>10. Charged'
    BY <1>0, <1>4, <2>8, <2>9, LaneChargedSame
  <2> QED
    BY <1>0, <2>6, <2>9, <2>10, LaneStep
<1> QED
  BY <1>2, <1>3, <1>4 DEF LaneGather

(* A batch that has waited takes no more groups. *)
LEMMA LaneTimerHolds ==
    ASSUME IInv, LaneTimer
    PROVE  IInv'
<1>0. /\ lane.at = "gather" /\ Types /\ Queues /\ Charged /\ lane' = [lane EXCEPT !.at = "slot"]
      /\ UNCHANGED <<work, phase, reply, admitting, pending, channel, tasks, free, sent>>
  BY DEF IInv, LaneTimer
<1>1. lane \in LaneType
  BY <1>0 DEF Types, LaneType
<1>2. lane' \in LaneType /\ lane'.at = "slot" /\ lane'.batch = lane.batch /\ lane'.queued = lane.queued
  BY <1>0, <1>1 DEF LaneType
<1>3. Waiting' = Waiting
  BY <1>0, <1>2 DEF Waiting
<1>4. Queues'
  <2>1. /\ IsQueue(channel') /\ IsQueue(lane'.queued) /\ IsQueue(lane'.batch)
        /\ Range(channel') \cap Range(lane'.queued) = {}
        /\ Range(channel') \cap Range(lane'.batch) = {}
        /\ Range(lane'.queued) \cap Range(lane'.batch) = {}
        /\ OneEach(Range(lane'.batch)) /\ (lane'.at = "recv" <=> lane'.batch = <<>>)
        /\ Waiting' \subseteq Waiting
    BY <1>0, <1>2, <1>3 DEF Queues
  <2> QED
    BY <1>0, <2>1, LaneQueues
<1>5. Charged'
  BY <1>0, <1>3, <1>4, LaneChargedSame
<1> QED
  BY <1>0, <1>2, <1>4, <1>5, LaneStep

(* The groups of all callers that have gone are dropped at once. *)
LEMMA LanePurgeHolds ==
    ASSUME IInv, LanePurge
    PROVE  IInv'
<1> DEFINE S == {c \in Caller : ~Gone(c)}
           G == Caller \ S
           all == lane.batch \o lane.queued
           b == Live(lane.batch)
           q == Live(lane.queued)
           d == Keep(all, G)
<1>0. /\ lane.at \in {"gather", "slot"} /\ Types /\ Queues /\ Charged
      /\ lane' = (IF Purged.batch = <<>> THEN [Purged EXCEPT !.at = "recv"] ELSE Purged)
      /\ Dropped(all, lane'.batch \o lane'.queued)
      /\ UNCHANGED <<work, phase, reply, admitting, channel, tasks, free, sent>>
  BY DEF IInv, LanePurge
<1>1. lane \in LaneType
  BY <1>0 DEF Types, LaneType
<1>2. /\ IsQueue(channel) /\ IsQueue(lane.queued) /\ IsQueue(lane.batch) /\ OneEach(Range(lane.batch))
      /\ Range(channel) \cap Range(lane.queued) = {}
      /\ Range(channel) \cap Range(lane.batch) = {}
      /\ Range(lane.queued) \cap Range(lane.batch) = {}
  BY <1>0 DEF Queues
<1>3. IsQueue(b) /\ Range(b) = Range(lane.batch) \cap S /\ IsQueue(q) /\ Range(q) = Range(lane.queued) \cap S
  BY <1>2, QueueKeep DEF Live
<1>4. Range(lane.batch) \cap Range(lane.queued) = {} /\ Range(b) \cap Range(q) = {}
  BY <1>2, <1>3
<1>5. IsQueue(all) /\ Range(all) = Range(lane.batch) \cup Range(lane.queued)
  BY <1>2, <1>4, QueueJoin
<1>6. IsQueue(d) /\ Range(d) = Range(all) \cap G
  BY <1>5, QueueKeep
<1>7. Range(all) \subseteq Caller
  BY <1>5, QueueOf
<1>8. IsQueue(b \o q) /\ Range(b \o q) = Range(b) \cup Range(q)
  BY <1>3, <1>4, QueueJoin
<1>9. b \in Seq(Caller) /\ q \in Seq(Caller)
  BY <1>3 DEF IsQueue
<1>10. Purged = [lane EXCEPT !.batch = b, !.queued = q]
  BY <1>1 DEF Purged, LaneType
<1> HIDE DEF S, G, all, b, q, d
<1>11. Purged \in LaneType /\ Purged.batch = b /\ Purged.queued = q /\ Purged.at = lane.at
  BY <1>1, <1>9, <1>10 DEF LaneType
<1>12. /\ lane' \in LaneType /\ lane'.batch = b /\ lane'.queued = q
       /\ lane'.at = "recv" <=> b = <<>>
  <2>1. CASE b = <<>>
    <3>1. lane' = [Purged EXCEPT !.at = "recv"]
      BY <1>0, <1>11, <2>1
    <3> QED
      BY <1>11, <2>1, <3>1 DEF LaneType
  <2>2. CASE b # <<>>
    <3>1. lane' = Purged
      BY <1>0, <1>11, <2>2
    <3> QED
      BY <1>0, <1>11, <2>2, <3>1
  <2> QED
    BY <2>1, <2>2
<1>13. Waiting' = Range(channel) \cup Range(b) \cup Range(q)
  BY <1>0, <1>12 DEF Waiting
<1>14. Queues'
  <2>1. /\ Range(channel) \cap Range(q) = {} /\ Range(channel) \cap Range(b) = {}
        /\ Range(q) \cap Range(b) = {}
    BY <1>2, <1>3
  <2>2. OneEach(Range(b))
    BY <1>2, <1>3 DEF OneEach
  <2>3. Waiting' \subseteq Waiting
    BY <1>3, <1>13 DEF Waiting
  <2> QED
    BY <1>0, <1>2, <1>3, <1>12, <2>1, <2>2, <2>3, LaneQueues
<1>15. Charged'
  <2>1. Charge(all) = Charge(b \o q) + Charge(d)
    <3>1. Range(b \o q) \cap Range(d) = {} /\ Range(all) = Range(b \o q) \cup Range(d)
      BY <1>3, <1>5, <1>6, <1>7, <1>8 DEF G
    <3> QED
      BY <1>5, <1>6, <1>8, <3>1, ChargeJoin
  <2>2. Charge(b \o q) \in Nat /\ Charge(d) \in Nat /\ pending \in Nat
    BY <1>0, <1>6, <1>8, ChargeIs DEF Charged
  <2>3. pending' = pending - (Charge(all) - Charge(b \o q))
    BY <1>0, <1>12 DEF Dropped
  <2>4. pending' = pending - Charge(d)
    BY <2>1, <2>2, <2>3
  <2>5. Range(d) \cap Waiting' = {} /\ Waiting = Waiting' \cup Range(d)
    BY <1>2, <1>3, <1>5, <1>6, <1>7, <1>13 DEF G, Waiting
  <2> QED
    BY <1>0, <1>6, <1>14, <2>4, <2>5, LaneCharged
<1> QED
  BY <1>0, <1>12, <1>14, <1>15, LaneStep

(* A group goes from the channel to the lane's own queue. *)
LEMMA LaneReceiveHolds ==
    ASSUME IInv, LaneReceive
    PROVE  IInv'
<1> DEFINE c == Head(channel)
<1>0. /\ Types /\ Queues /\ Charged /\ channel # <<>> /\ channel' = Tail(channel)
      /\ UNCHANGED <<work, phase, reply, admitting, tasks, free, sent>>
      /\ lane' = (IF Gone(c) THEN lane ELSE [lane EXCEPT !.queued = Append(lane.queued, c)])
      /\ IF Gone(c) THEN Dropped(<<c>>, <<>>) ELSE UNCHANGED pending
  BY DEF IInv, LaneReceive
<1>1. lane \in LaneType
  BY <1>0 DEF Types, LaneType
<1>2. /\ IsQueue(channel) /\ IsQueue(lane.queued) /\ IsQueue(lane.batch) /\ OneEach(Range(lane.batch))
      /\ Range(channel) \cap Range(lane.queued) = {}
      /\ Range(channel) \cap Range(lane.batch) = {}
      /\ Range(lane.queued) \cap Range(lane.batch) = {}
      /\ lane.at = "recv" <=> lane.batch = <<>>
  BY <1>0 DEF Queues
<1>3. /\ c \in Caller /\ c \in Range(channel) /\ IsQueue(channel') /\ Range(channel') = Range(channel) \ {c}
  BY <1>0, <1>2, QueueTail
<1> HIDE DEF c
<1>4. CASE Gone(c)
  <2>1. lane' = lane /\ Dropped(<<c>>, <<>>)
    BY <1>0, <1>4
  <2>2. Waiting' = Waiting \ {c}
    BY <1>2, <1>3, <2>1 DEF Waiting
  <2>3. Queues'
    <3>1. /\ Range(channel') \cap Range(lane'.queued) = {} /\ Range(channel') \cap Range(lane'.batch) = {}
          /\ Waiting' \subseteq Waiting
      BY <1>2, <1>3, <2>1, <2>2
    <3> QED
      BY <1>0, <1>2, <1>3, <2>1, <3>1, LaneQueues
  <2>4. Charged'
    <3>1. IsQueue(<<c>>) /\ Range(<<c>>) = {c} /\ Charge(<<c>>) \in Nat /\ Charge(<<>>) = 0
      BY <1>3, QueueOne, ChargeIs, ChargeNone
    <3>2. pending' = pending - Charge(<<c>>)
      BY <1>0, <2>1, <3>1 DEF Dropped, Charged
    <3>3. Range(<<c>>) \cap Waiting' = {} /\ Waiting = Waiting' \cup Range(<<c>>)
      BY <1>3, <2>2, <3>1 DEF Waiting
    <3> QED
      BY <1>0, <2>3, <3>1, <3>2, <3>3, LaneCharged
  <2> QED
    BY <1>0, <1>1, <2>1, <2>3, <2>4, LaneStep
<1>5. CASE ~Gone(c)
  <2> DEFINE q == Append(lane.queued, c)
  <2>1. lane' = [lane EXCEPT !.queued = q] /\ pending' = pending
    BY <1>0, <1>5
  <2>2. c \notin Range(lane.queued)
    BY <1>2, <1>3
  <2>3. IsQueue(q) /\ Range(q) = Range(lane.queued) \cup {c}
    BY <1>2, <1>3, <2>2, QueueAppend
  <2>4. q \in Seq(Caller)
    BY <2>3 DEF IsQueue
  <2> HIDE DEF q
  <2>5. lane' \in LaneType /\ lane'.at = lane.at /\ lane'.batch = lane.batch /\ lane'.queued = q
    BY <1>1, <2>1, <2>4 DEF LaneType
  <2>6. Waiting' = Waiting
    BY <1>3, <2>3, <2>5 DEF Waiting
  <2>7. Queues'
    <3>1. /\ Range(channel') \cap Range(q) = {} /\ Range(channel') \cap Range(lane.batch) = {}
          /\ Range(q) \cap Range(lane.batch) = {} /\ Waiting' \subseteq Waiting
      BY <1>2, <1>3, <2>3, <2>6
    <3> QED
      BY <1>0, <1>2, <1>3, <2>3, <2>5, <3>1, LaneQueues
  <2>8. Charged'
    BY <1>0, <2>1, <2>6, <2>7, LaneChargedSame
  <2> QED
    BY <1>0, <2>5, <2>7, <2>8, LaneStep
<1> QED
  BY <1>4, <1>5

(* The slots of the tasks, before and after a step. *)
LEMMA SlotsIs ==
    ASSUME Slots
    PROVE  /\ free \in Nat /\ IsFiniteSet(tasks) /\ IsFiniteSet(RetriesOf(tasks))
           /\ free + TakenBy(tasks) = work.slots
  BY DEF Slots, Taken, TakenBy, Retries, RetriesOf, HeldBy, OwnOf

(* The same of the next state. *)
LEMMA SlotsNext ==
    ASSUME free' \in Nat, IsFiniteSet(tasks'), IsFiniteSet(RetriesOf(tasks')),
           free' + TakenBy(tasks') = work'.slots
    PROVE  Slots'
  BY DEF Slots, Taken, TakenBy, Retries, RetriesOf, HeldBy, OwnOf

(* A batch leaves the queues and takes a slot. *)
LEMMA LaneDispatchHolds ==
    ASSUME IInv, LaneDispatch
    PROVE  IInv'
<1>b. PICK b : b = lane.batch
  OBVIOUS
<1>t. PICK t : t = Task(b)
  OBVIOUS
<1>0. /\ Types /\ Queues /\ Batches /\ Charged /\ Slots /\ OwnVerdict /\ SentOnce
      /\ lane.at = "slot" /\ free > 0 /\ free' = free - 1 /\ tasks' = tasks \cup {t}
      /\ sent' = [c \in Caller |-> IF c \in Range(b) THEN sent[c] + 1 ELSE sent[c]]
      /\ Dropped(b, <<>>) /\ lane' = [lane EXCEPT !.at = "recv", !.batch = <<>>]
      /\ UNCHANGED <<work, phase, reply, admitting, channel>>
  BY <1>b, <1>t DEF IInv, LaneDispatch
<1>1. lane \in LaneType
  BY <1>0 DEF Types, LaneType
<1>2. /\ IsQueue(channel) /\ IsQueue(lane.queued) /\ IsQueue(b) /\ OneEach(Range(b)) /\ b # <<>>
      /\ Range(channel) \cap Range(lane.queued) = {}
      /\ Range(channel) \cap Range(b) = {} /\ Range(lane.queued) \cap Range(b) = {}
      /\ \A c \in Waiting : phase[c] \in {"wait", "gone"} /\ sent[c] = 0 /\ Items(c) <= MaxItems
      /\ Range(b) \subseteq Waiting
  BY <1>0, <1>b DEF Queues, Waiting
<1>3. lane' \in LaneType /\ lane'.at = "recv" /\ lane'.batch = <<>> /\ lane'.queued = lane.queued
  <2>1. <<>> \in Seq(Caller)
    OBVIOUS
  <2>2. lane' = [lane EXCEPT !.at = "recv", !.batch = <<>>]
    BY <1>0
  <2> QED
    BY <1>1, <2>1, <2>2 DEF LaneType
<1>4. sent \in [Caller -> Nat] /\ sent' \in [Caller -> Nat]
  BY <1>0 DEF Types
<1>5. \A c \in Caller : sent'[c] = IF c \in Range(b) THEN sent[c] + 1 ELSE sent[c]
  BY <1>0
<1>6. Types'
  BY <1>0, <1>3, <1>4 DEF Types, LaneType
<1>7. Range(b) \subseteq Caller /\ Range(channel) \subseteq Caller /\ Range(lane.queued) \subseteq Caller
  BY <1>2, QueueOf
<1>8. Range(<<>>) = {} /\ IsQueue(<<>>) /\ Range(b) # {}
  BY <1>2, QueueEmpty
<1>9. Waiting' = Range(channel) \cup Range(lane.queued) /\ Waiting = Waiting' \cup Range(b) /\ Range(b) \cap Waiting' = {}
  BY <1>0, <1>b, <1>2, <1>3, <1>8 DEF Waiting
<1>10. Queues'
  <2>1. \A c \in Waiting' : phase'[c] \in {"wait", "gone"} /\ sent'[c] = 0
    BY <1>0, <1>2, <1>5, <1>7, <1>9
  <2>2. \A c \in Caller : phase'[c] \in {"idle", "admit"} => sent'[c] = 0
    BY <1>0, <1>2, <1>5 DEF Queues
  <2>3. \A c \in Range(admitting') \cup Waiting' : Items(c)' <= MaxItems
    BY <1>0, <1>9 DEF Queues, Items
  <2>4. OneEach(Range(lane.batch))'
    BY <1>3, <1>8 DEF OneEach
  <2>5. IsQueue(admitting)' /\ \A c \in Range(admitting') : phase'[c] = "admit"
    BY <1>0 DEF Queues
  <2>6. /\ IsQueue(channel)' /\ IsQueue(lane'.queued) /\ IsQueue(lane'.batch)
        /\ Range(channel') \cap Range(lane'.queued) = {}
        /\ Range(channel') \cap Range(lane'.batch) = {}
        /\ Range(lane'.queued) \cap Range(lane'.batch) = {}
        /\ lane'.at = "recv" <=> lane'.batch = <<>>
    BY <1>0, <1>2, <1>3, <1>8
  <2> QED
    BY <2>1, <2>2, <2>3, <2>4, <2>5, <2>6 DEF Queues, IsQueue
<1>11. Charged'
  <2>1. Charge(<<>>) = 0 /\ Charge(b) \in Nat /\ pending \in Nat
    BY <1>0, <1>2, ChargeNone, ChargeIs DEF Charged
  <2>2. pending' = pending - Charge(b)
    BY <1>0, <2>1 DEF Dropped
  <2> QED
    BY <1>0, <1>2, <1>9, <1>10, <2>2, LaneCharged
<1>12. /\ t.groups = b /\ t.at = "call" /\ t.todo = <<>> /\ t.active = {} /\ t.borrower = None /\ t.holds
       /\ t \in TaskType
  BY <1>t, <1>2 DEF Task, TaskType, IsQueue
<1>13. \A u \in tasks : Range(u.groups) \cap Range(b) = {} /\ Range(u.todo) \cap Range(b) = {}
  <2> SUFFICES ASSUME NEW u \in tasks PROVE Range(u.groups) \cap Range(b) = {} /\ Range(u.todo) \cap Range(b) = {}
    OBVIOUS
  <2>1. /\ \A c \in Range(u.groups) : sent[c] \in {1, 2} 
        /\ Range(u.todo) \subseteq Range(u.groups)
    BY <1>0 DEF Batches, TaskSent, TaskOk
  <2> QED
    BY <1>2, <2>1
<1>14. TaskOk(t)
  <2>1. IsFiniteSet({}) /\ IsQueue(<<>>) /\ Range(<<>>) = {}
    BY FS_EmptySet, QueueEmpty
  <2>2. \A c \in Range(b) : Items(c) <= MaxItems
    BY <1>2
  <2> QED
    BY <1>2, <1>12, <2>1, <2>2 DEF TaskOk
<1>15. TaskSent(t)'
  BY <1>2, <1>5, <1>7, <1>8, <1>12 DEF TaskSent
<1>16. Batches'
  <2>1. \A u \in tasks : TaskOk(u) /\ TaskSent(u) /\ Range(u.groups) \subseteq Caller /\ Range(u.todo) \subseteq Caller
    BY <1>0, QueueOf DEF Batches, TaskOk
  <2>2. \A u \in tasks : TaskOk(u)'
    BY <1>0, <2>1, TaskFrame
  <2>3. \A u \in tasks : TaskSent(u)'
    BY <1>5, <1>13, <2>1, TaskSentFrame
  <2>4. TaskOk(t)'
    BY <1>0, <1>14, TaskFrame
  <2>5. \A u, v \in tasks' : u # v => Range(u.groups) \cap Range(v.groups) = {}
    BY <1>0, <1>12, <1>13 DEF Batches
  <2>6. \A u \in tasks' : TaskOk(u)' /\ TaskSent(u)'
    BY <1>0, <1>15, <2>2, <2>3, <2>4
  <2> QED
    BY <2>5, <2>6 DEF Batches
<1>17. Slots'
  <2>1. t \notin tasks
    BY <1>8, <1>12, <1>13
  <2>2. IsFiniteSet(t.active)
    BY <1>14 DEF TaskOk
  <2>3. /\ free \in Nat /\ IsFiniteSet(tasks) /\ IsFiniteSet(RetriesOf(tasks)) /\ free + TakenBy(tasks) = work.slots
    BY <1>0, SlotsIs
  <2>4. /\ IsFiniteSet(tasks') /\ IsFiniteSet(RetriesOf(tasks')) 
        /\ TakenBy(tasks') = TakenBy(tasks) + Share(t) /\ TakenBy(tasks) \in Nat
    BY <1>0, <1>12, <2>1, <2>2, <2>3, TakenAdd
  <2>5. Share(t) = 1
    <3>1. t.active \ {t.borrower} = {}
      BY <1>12
    <3>2. Cardinality({}) = 0
      BY FS_EmptySet
    <3> QED
      BY <1>12, <3>1, <3>2 DEF Share
  <2>6. free' \in Nat /\ free' + TakenBy(tasks') = work'.slots
    BY <1>0, <2>3, <2>4, <2>5
  <2> QED
    BY <2>4, <2>6, SlotsNext
<1>18. OwnVerdict'
  BY <1>0, VerdictFrame
<1>19. SentOnce'
  <2>1. \A c \in Caller : sent'[c] = IF c \in Range(b) THEN 1 ELSE sent[c]
    BY <1>2, <1>5
  <2> QED
    BY <1>0, <2>1 DEF SentOnce
<1> QED
  BY <1>6, <1>10, <1>11, <1>16, <1>17, <1>18, <1>19 DEF IInv

-----------------------------------------------------------------------------
(* What a call answers. *)

(* What OwnVerdict asks of the reply r of a caller. *)
Verdict(c, r) ==
    /\ r.result = "ok" => r.part = [i \in 1..Items(c) |-> <<c, i>>]
    /\ r.result = "rejected" /\ work.safe => c \in work.bad

(* When no unit is twice in a batch, a result of an item's unit is the *)
(* result of that item. *)
LEMMA ResultsOwn ==
    ASSUME Types, NEW g, IsQueue(g), OneEach(Range(g)), NEW f \in Results(g), NEW p \in Positions(g)
    PROVE  f[p] = p
<1>0. work \in Workload
  BY DEF Types
<1>1. f \in [Positions(g) -> Positions(g)] /\ f[p] \in Positions(g)
  BY DEF Results
<1>2. PICK q \in Positions(g) : q = f[p]
  BY <1>1
<1>3. work.units[q[1]][q[2]] = work.units[p[1]][p[2]]
  BY <1>2 DEF Results
<1>4. Range(g) \subseteq Caller
  BY QueueOf
<1>5. \A x \in Positions(g) : /\ x = <<x[1], x[2]>> /\ x[1] \in Range(g)
                              /\ x[2] \in 1..MaxItems /\ x[2] <= Items(x[1])
  BY DEF Positions
<1>6. \A x \in Positions(g) : /\ x[1] \in Caller /\ x[2] \in DOMAIN work.units[x[1]]
                              /\ IsInjective(work.units[x[1]])
  <2> TAKE x \in Positions(g)
  <2>1. x[1] \in Caller /\ x[2] \in 1..MaxItems /\ x[2] <= Items(x[1])
    BY <1>4, <1>5
  <2>2. Items(x[1]) \in Nat /\ DOMAIN work.units[x[1]] = 1..Items(x[1]) /\ IsInjective(work.units[x[1]])
    BY <1>0, <2>1, WorkIs
  <2> QED
    BY <2>1, <2>2, Constants
<1>7. work.units[q[1]][q[2]] \in Range(work.units[q[1]]) /\ work.units[p[1]][p[2]] \in Range(work.units[p[1]])
  BY <1>6 DEF Range
<1>8. q[1] = p[1]
  BY <1>3, <1>5, <1>7 DEF OneEach
<1>9. q[2] = p[2]
  BY <1>3, <1>6, <1>8 DEF IsInjective
<1> QED
  BY <1>2, <1>5, <1>8, <1>9

(* So every caller of a call is told about its own items; and of a *)
(* rejection only if it can be of nobody else, or if nobody may ask again. *)
LEMMA AnswersOwn ==
    ASSUME Types, NEW g, IsQueue(g), OneEach(Range(g)), \A c \in Range(g) : Items(c) <= MaxItems,
           NEW outcome \in Outcomes(g), NEW answers \in Answers(g, outcome),
           outcome = "rejected" /\ work.safe => Range(g) \subseteq work.bad
    PROVE  /\ DOMAIN answers = Range(g)
           /\ \A c \in Range(g) : Verdict(c, answers[c])
<1>0. work \in Workload /\ Range(g) \subseteq Caller
  BY QueueOf DEF Types
<1>1. CASE outcome # "ok"
  <2>1. answers = [c \in Range(g) |-> Failed(outcome)]
    BY <1>1 DEF Answers
  <2>2. \A c \in Range(g) : answers[c].result = outcome
    BY <2>1 DEF Failed
  <2> QED
    BY <1>1, <2>1, <2>2 DEF Verdict
<1>2. CASE outcome = "ok"
  <2>1. PICK f \in Results(g) :
           answers = [c \in Range(g) |-> [result |-> "ok", part |-> [i \in 1..Items(c) |-> f[<<c, i>>]]]]
    BY <1>2 DEF Answers
  <2>2. ASSUME NEW c \in Range(g) PROVE Verdict(c, answers[c])
    <3>1. answers[c].result = "ok" /\ answers[c].part = [i \in 1..Items(c) |-> f[<<c, i>>]]
      BY <2>1
    <3>2. \A i \in 1..Items(c) : f[<<c, i>>] = <<c, i>>
      <4> TAKE i \in 1..Items(c)
      <4>1. c \in Caller /\ Items(c) \in Nat /\ Items(c) <= MaxItems /\ MaxItems \in Nat
        BY <1>0, WorkIs, Constants
      <4>2. i \in 1..MaxItems /\ i <= Items(c)
        BY <4>1
      <4>3. <<c, i>> \in Positions(g)
        BY <4>2 DEF Positions
      <4> QED
        BY <4>3, ResultsOwn
    <3>3. [i \in 1..Items(c) |-> f[<<c, i>>]] = [i \in 1..Items(c) |-> <<c, i>>]
      BY <3>2
    <3> QED
      BY <3>1, <3>3 DEF Verdict
  <2> QED
    BY <2>1, <2>2
<1> QED
  BY <1>1, <1>2

(* Who is told was sent to the provider, so it is in no queue any more. *)
LEMMA Delivered ==
    ASSUME Types, Queues, OwnVerdict, UNCHANGED <<work, sent, lane, admitting, channel>>,
           NEW answers, Deliver(answers), DOMAIN answers \subseteq Caller,
           \A c \in DOMAIN answers : sent[c] # 0 /\ Verdict(c, answers[c])
    PROVE  Types' /\ Queues' /\ OwnVerdict'
<1> DEFINE told == {c \in DOMAIN answers : ~Gone(c)}
<1>0. /\ reply' = [c \in Caller |-> IF c \in told THEN answers[c] ELSE reply[c]]
      /\ phase' = [c \in Caller |-> IF c \in told THEN "done" ELSE phase[c]]
      /\ told \subseteq Caller
  BY DEF Deliver
<1>1. \A c \in told : sent[c] # 0 /\ Verdict(c, answers[c])
  OBVIOUS
<1> HIDE DEF told
<1>2. /\ phase \in [Caller -> {"idle", "admit", "wait", "done", "gone"}]
      /\ phase' \in [Caller -> {"idle", "admit", "wait", "done", "gone"}]
  BY <1>0 DEF Types
<1>3. /\ \A c \in Caller : phase'[c] = IF c \in told THEN "done" ELSE phase[c]
      /\ \A c \in Caller : reply'[c] = IF c \in told THEN answers[c] ELSE reply[c]
  BY <1>0
<1>4. Types'
  <2>1. reply' = [c \in Caller |-> reply'[c]]
    BY <1>0
  <2>2. \A c \in Caller : phase'[c] = "idle" => reply'[c] = NoReply
    BY <1>3 DEF Types
  <2> QED
    BY <1>2, <2>1, <2>2 DEF Types
<1>5. Queues'
  <2>1. Waiting' = Waiting /\ Waiting \subseteq Caller /\ Range(admitting) \subseteq Caller
    <3>1. /\ Range(channel) \subseteq Caller /\ Range(lane.queued) \subseteq Caller
          /\ Range(lane.batch) \subseteq Caller /\ Range(admitting) \subseteq Caller
      BY QueueOf DEF Queues
    <3> QED
      BY <3>1 DEF Waiting
  <2>2. /\ \A c \in Waiting : phase[c] \in {"wait", "gone"} /\ sent[c] = 0
        /\ \A c \in Range(admitting) : phase[c] = "admit" /\ sent[c] = 0
        /\ \A c \in Caller : phase[c] \in {"idle", "admit"} => sent[c] = 0
    BY <2>1 DEF Queues
  <2>3. /\ \A c \in Waiting : phase'[c] \in {"wait", "gone"} /\ sent'[c] = 0
        /\ \A c \in Range(admitting) : phase'[c] = "admit"
        /\ \A c \in Caller : phase'[c] \in {"idle", "admit"} => sent'[c] = 0
    BY <1>1, <1>3, <2>1, <2>2
  <2>4. \A c : Items(c)' = Items(c)
    BY DEF Items
  <2>5. OneEach(Range(lane.batch))'
    BY DEF OneEach, Queues
  <2> QED
    BY <2>1, <2>3, <2>4, <2>5 DEF Queues, IsQueue
<1>6. OwnVerdict'
  <2>1. \A c : Items(c)' = Items(c)
    BY DEF Items
  <2>2. \A c \in Caller : phase'[c] = "done" => Verdict(c, reply'[c])
    <3>1. \A c \in Caller : phase[c] = "done" => Verdict(c, reply[c])
      BY DEF OwnVerdict, Verdict
    <3> QED
      BY <1>1, <1>3, <3>1
  <2> QED
    BY <2>1, <2>2 DEF OwnVerdict, Verdict
<1> QED
  BY <1>4, <1>5, <1>6

-----------------------------------------------------------------------------
(* The steps of a task. *)

(* A task that ends gives back the slots it takes. *)
LEMMA TaskEnds ==
    ASSUME Batches, Slots, NEW t \in tasks, Ended(t), UNCHANGED <<work, sent>>,
           free' = free + Share(t)
    PROVE  Batches' /\ Slots'
<1>0. t \in TaskType /\ IsFiniteSet(t.active)
  BY DEF Batches, TaskOk
<1>1. /\ free \in Nat /\ IsFiniteSet(tasks) /\ IsFiniteSet(RetriesOf(tasks)) /\ free + TakenBy(tasks) = work.slots
  BY SlotsIs
<1>2. /\ IsFiniteSet(tasks') /\ IsFiniteSet(RetriesOf(tasks'))
      /\ TakenBy(tasks) = TakenBy(tasks') + Share(t) /\ TakenBy(tasks') \in Nat /\ Share(t) \in Nat
  BY <1>0, <1>1, TakenEnd DEF Ended
<1>3. free' \in Nat /\ free' + TakenBy(tasks') = work'.slots
  BY <1>1, <1>2
<1>4. Slots'
  BY <1>2, <1>3, SlotsNext
<1>5. \A u \in tasks : TaskOk(u)' /\ TaskSent(u)'
  BY TaskFrame, TaskSentFrame DEF Batches
<1>6. tasks' \subseteq tasks
  BY DEF Ended
<1>7. Batches'
  BY <1>5, <1>6 DEF Batches
<1> QED
  BY <1>4, <1>7

(* A task that goes on is still about the same groups. *)
LEMMA TaskGoesOn ==
    ASSUME Batches, Slots, NEW t \in tasks, NEW u, Instead(t, u), work' = work,
           TaskOk(u), u.groups = t.groups, TaskSent(u)',
           \A c \in Caller : c \notin Range(t.groups) => sent'[c] = sent[c],
           free' \in Nat, free' + Share(u) = free + Share(t)
    PROVE  Batches' /\ Slots'
<1>0. /\ t \in TaskType /\ IsFiniteSet(t.active) /\ IsQueue(t.groups) /\ t.groups # <<>>
      /\ u \in TaskType /\ IsFiniteSet(u.active)
  BY DEF Batches, TaskOk
<1>1. Range(t.groups) # {}
  BY <1>0, QueueEmpty
<1>2. \A v \in tasks \ {t} : Range(v.groups) \cap Range(t.groups) = {}
  BY DEF Batches
<1>3. u \notin tasks \ {t}
  BY <1>1, <1>2
<1>4. /\ free \in Nat /\ IsFiniteSet(tasks) /\ IsFiniteSet(RetriesOf(tasks)) /\ free + TakenBy(tasks) = work.slots
  BY SlotsIs
<1>5. /\ IsFiniteSet(tasks') /\ IsFiniteSet(RetriesOf(tasks'))
      /\ TakenBy(tasks') = TakenBy(tasks) - Share(t) + Share(u)
      /\ TakenBy(tasks) \in Nat /\ Share(t) \in Nat /\ Share(u) \in Nat
  BY <1>0, <1>3, <1>4, TakenInstead DEF Instead
<1>6. free' + TakenBy(tasks') = work'.slots
  BY <1>4, <1>5
<1>7. Slots'
  BY <1>5, <1>6, SlotsNext
<1>8. TaskOk(u)'
  BY TaskFrame
<1>9. \A v \in tasks \ {t} : TaskOk(v)' /\ TaskSent(v)'
  <2> TAKE v \in tasks \ {t}
  <2>1. TaskOk(v) /\ TaskSent(v)
    BY DEF Batches
  <2>2. Range(v.groups) \subseteq Caller /\ Range(v.todo) \subseteq Range(v.groups)
    BY <2>1, QueueOf DEF TaskOk
  <2>3. \A c \in Range(v.groups) \cup Range(v.todo) : sent'[c] = sent[c]
    BY <1>2, <2>2
  <2> QED
    BY <2>1, <2>3, TaskFrame, TaskSentFrame
<1>10. tasks' = (tasks \ {t}) \cup {u}
  BY DEF Instead
<1>11. \A v, w \in tasks' : v # w => Range(v.groups) \cap Range(w.groups) = {}
  BY <1>2, <1>10 DEF Batches
<1>12. \A v \in tasks' : TaskOk(v)' /\ TaskSent(v)'
  BY <1>8, <1>9, <1>10
<1>13. Batches'
  BY <1>11, <1>12 DEF Batches
<1> QED
  BY <1>7, <1>13

(* A task whose call is on takes one slot. *)
LEMMA ShareOfCall ==
    ASSUME NEW t, t.active = {}, t.holds
    PROVE  Share(t) = 1
<1>1. t.active \ {t.borrower} = {}
  OBVIOUS
<1>2. Cardinality({}) = 0
  BY FS_EmptySet
<1> QED
  BY <1>1, <1>2 DEF Share

(* A call that nobody waits for ends, and its slot is free. *)
LEMMA TaskAbandonedHolds ==
    ASSUME IInv, NEW t \in tasks, TaskAbandoned(t)
    PROVE  IInv'
<1>0. /\ Types /\ Queues /\ Batches /\ Charged /\ Slots /\ OwnVerdict /\ SentOnce
      /\ t.at = "call" /\ Ended(t) /\ free' = free + 1
      /\ UNCHANGED <<work, phase, reply, admitting, pending, channel, lane, sent>>
  BY DEF IInv, TaskAbandoned
<1>1. Share(t) = 1
  BY <1>0, ShareOfCall DEF Batches, TaskOk
<1>2. Batches' /\ Slots'
  BY <1>0, <1>1, TaskEnds
<1> QED
  BY <1>0, <1>2, TypesFrame, QueuesFrame, ChargedFrame, VerdictFrame, SentFrame DEF IInv

(* The end of a call: every caller is told, or every request is retried. *)
LEMMA TaskReturnsHolds ==
    ASSUME IInv, NEW t \in tasks, TaskReturns(t)
    PROVE  IInv'
<1>0. /\ Types /\ Queues /\ Batches /\ Charged /\ Slots /\ OwnVerdict /\ SentOnce
      /\ t.at = "call"
      /\ UNCHANGED <<work, admitting, pending, channel, lane, sent>>
  BY DEF IInv, TaskReturns
<1>1. TaskOk(t) /\ TaskSent(t)
  BY <1>0 DEF Batches
<1>2. Charged' /\ SentOnce'
  BY <1>0, ChargedFrame, SentFrame
<1>3. PICK outcome \in Outcomes(t.groups) :
        \/ /\ PerRequest(t, outcome)
           /\ Instead(t, [t EXCEPT !.at = "retry", !.todo = t.groups])
           /\ UNCHANGED <<phase, reply, free>>
        \/ /\ ~PerRequest(t, outcome)
           /\ \E answers \in Answers(t.groups, outcome) : Deliver(answers)
           /\ Ended(t)
           /\ free' = free + 1
  BY DEF TaskReturns
<1>4. Share(t) = 1
  BY <1>0, <1>1, ShareOfCall DEF TaskOk
<1>5. CASE /\ PerRequest(t, outcome)
           /\ Instead(t, [t EXCEPT !.at = "retry", !.todo = t.groups])
           /\ UNCHANGED <<phase, reply, free>>
  <2>1. PICK u : u = [t EXCEPT !.at = "retry", !.todo = t.groups]
    OBVIOUS
  <2>2. /\ u.groups = t.groups /\ u.at = "retry" /\ u.todo = t.groups /\ u.active = t.active
        /\ u.borrower = t.borrower /\ u.holds = t.holds /\ u \in TaskType
    BY <1>1, <2>1 DEF TaskOk, TaskType
  <2>3. t.active = {} /\ t.holds /\ work.safe
    BY <1>0, <1>1, <1>5 DEF TaskOk, PerRequest
  <2>4. TaskOk(u)
    BY <1>1, <2>2, <2>3 DEF TaskOk
  <2>5. TaskSent(u)'
    BY <1>0, <1>1, <2>2 DEF TaskSent
  <2>6. Share(u) = 1
    BY <2>2, <2>3, ShareOfCall
  <2>7. free' \in Nat /\ free' + Share(u) = free + Share(t)
    BY <1>0, <1>4, <1>5, <2>6, SlotsIs
  <2>8. Instead(t, u)
    BY <1>5, <2>1
  <2>9. Batches' /\ Slots'
    BY <1>0, <2>2, <2>4, <2>5, <2>7, <2>8, TaskGoesOn
  <2> QED
    BY <1>0, <1>2, <1>5, <2>9, TypesFrame, QueuesFrame, VerdictFrame DEF IInv
<1>6. CASE /\ ~PerRequest(t, outcome)
           /\ \E answers \in Answers(t.groups, outcome) : Deliver(answers)
           /\ Ended(t)
           /\ free' = free + 1
  <2>1. PICK answers \in Answers(t.groups, outcome) : Deliver(answers)
    BY <1>6
  <2>2. IsQueue(t.groups) /\ OneEach(Range(t.groups)) /\ \A c \in Range(t.groups) : Items(c) <= MaxItems
    BY <1>1 DEF TaskOk
  <2>3. outcome = "rejected" /\ work.safe => Range(t.groups) \subseteq work.bad
    <3> SUFFICES ASSUME outcome = "rejected", work.safe PROVE Range(t.groups) \subseteq work.bad
      OBVIOUS
    <3>1. ~(Len(t.groups) > 1)
      BY <1>6 DEF PerRequest
    <3>2. \A c, d \in Range(t.groups) : c = d
      <4>1. t.groups \in Seq(Caller) /\ Len(t.groups) \in Nat /\ DOMAIN t.groups = 1..Len(t.groups)
        BY <2>2 DEF IsQueue
      <4>2. \A i \in DOMAIN t.groups : i = 1
        BY <3>1, <4>1
      <4> QED
        BY <4>2 DEF Range
    <3>3. Range(t.groups) \cap work.bad # {}
      BY DEF Outcomes
    <3> QED
      BY <3>2, <3>3
  <2>4. DOMAIN answers = Range(t.groups) /\ \A c \in Range(t.groups) : Verdict(c, answers[c])
    BY <1>0, <2>2, <2>3, AnswersOwn
  <2>5. Range(t.groups) \subseteq Caller /\ \A c \in Range(t.groups) : sent[c] # 0
    BY <1>1, <2>2, QueueOf DEF TaskSent
  <2>6. Types' /\ Queues' /\ OwnVerdict'
    BY <1>0, <2>1, <2>4, <2>5, Delivered
  <2>7. Batches' /\ Slots'
    BY <1>0, <1>4, <1>6, TaskEnds
  <2> QED
    BY <1>2, <2>6, <2>7 DEF IInv
<1> QED
  BY <1>3, <1>5, <1>6

(* A retry nobody waits for is not made. *)
LEMMA RetryPurgeHolds ==
    ASSUME IInv, NEW t \in tasks, RetryPurge(t)
    PROVE  IInv'
<1>0. /\ Types /\ Queues /\ Batches /\ Charged /\ Slots /\ OwnVerdict /\ SentOnce
      /\ t.at = "retry" /\ SomeGone(t.todo) /\ Instead(t, [t EXCEPT !.todo = Live(t.todo)])
      /\ UNCHANGED <<work, phase, reply, admitting, pending, channel, lane, free, sent>>
  BY DEF IInv, RetryPurge
<1>1. TaskOk(t) /\ TaskSent(t)
  BY <1>0 DEF Batches
<1>2. PICK q : q = Live(t.todo)
  OBVIOUS
<1>3. IsQueue(q) /\ Range(q) \subseteq Range(t.todo) /\ q \in Seq(Caller)
  <2>1. IsQueue(q) /\ Range(q) \subseteq Range(t.todo)
    BY <1>1, <1>2, QueueKeep DEF TaskOk, Live
  <2> QED
    BY <2>1 DEF IsQueue
<1>4. PICK u : u = [t EXCEPT !.todo = q]
  OBVIOUS
<1>5. /\ u.groups = t.groups /\ u.at = t.at /\ u.todo = q /\ u.active = t.active
      /\ u.borrower = t.borrower /\ u.holds = t.holds /\ u \in TaskType
  BY <1>1, <1>3, <1>4 DEF TaskOk, TaskType
<1>6. t.todo # <<>>
  <2>1. Range(t.todo) # {}
    BY <1>0 DEF SomeGone
  <2> QED
    BY <1>1, <2>1, QueueEmpty DEF TaskOk
<1>7. TaskOk(u)
  BY <1>1, <1>3, <1>5, <1>6 DEF TaskOk
<1>8. TaskSent(u)'
  BY <1>0, <1>1, <1>3, <1>5 DEF TaskSent
<1>9. free' \in Nat /\ free' + Share(u) = free + Share(t)
  <2>1. Share(u) = Share(t)
    BY <1>5 DEF Share
  <2> QED
    BY <1>0, <2>1, SlotsIs
<1>10. Instead(t, u)
  BY <1>0, <1>2, <1>4
<1>11. Batches' /\ Slots'
  BY <1>0, <1>5, <1>7, <1>8, <1>9, <1>10, TaskGoesOn
<1> QED
  BY <1>0, <1>11, TypesFrame, QueuesFrame, ChargedFrame, VerdictFrame, SentFrame DEF IInv

(* A request that is sent again has left the queues. *)
LEMMA SentAgain ==
    ASSUME Types, Queues, SentOnce, NEW c \in Caller, sent[c] = 1, work.safe,
           sent' = [sent EXCEPT ![c] = @ + 1],
           UNCHANGED <<work, phase, reply, lane, admitting, channel>>
    PROVE  /\ Types' /\ Queues' /\ SentOnce'
           /\ \A d \in Caller : sent'[d] = IF d = c THEN 2 ELSE sent[d]
<1>1. sent \in [Caller -> Nat]
  BY DEF Types
<1>2. \A d \in Caller : sent'[d] = IF d = c THEN 2 ELSE sent[d]
  BY <1>1
<1>3. sent' \in [Caller -> Nat]
  BY <1>1
<1>4. Types'
  BY <1>3 DEF Types
<1>5. SentOnce'
  BY <1>2 DEF SentOnce
<1>6. Queues'
  <2>1. Waiting' = Waiting /\ Waiting \subseteq Caller
    <3>1. /\ Range(channel) \subseteq Caller /\ Range(lane.queued) \subseteq Caller
          /\ Range(lane.batch) \subseteq Caller
      BY QueueOf DEF Queues
    <3> QED
      BY <3>1 DEF Waiting
  <2>2. /\ \A d \in Waiting : phase'[d] \in {"wait", "gone"} /\ sent'[d] = 0
        /\ \A d \in Caller : phase'[d] \in {"idle", "admit"} => sent'[d] = 0
    BY <1>2, <2>1 DEF Queues
  <2>3. \A d : Items(d)' = Items(d)
    BY DEF Items
  <2>4. OneEach(Range(lane.batch))'
    BY DEF OneEach, Queues
  <2> QED
    BY <2>1, <2>2, <2>3, <2>4 DEF Queues, IsQueue
<1> QED
  BY <1>2, <1>4, <1>5, <1>6

(* A retry borrows the slot of the batch, or takes one. *)
LEMMA RetryStartHolds ==
    ASSUME IInv, NEW t \in tasks, RetryStart(t)
    PROVE  IInv'
<1>a. PICK c : c = Head(t.todo)
  OBVIOUS
<1>b. PICK s : s = [t EXCEPT !.todo = Tail(t.todo), !.active = t.active \cup {c}]
  OBVIOUS
<1>0. /\ Types /\ Queues /\ Batches /\ Charged /\ Slots /\ OwnVerdict /\ SentOnce
      /\ t.at = "retry" /\ t.todo # <<>>
      /\ UNCHANGED <<work, phase, reply, admitting, pending, channel, lane>>
      /\ sent' = [sent EXCEPT ![c] = @ + 1]
      /\ \/ t.borrower = None /\ Instead(t, [s EXCEPT !.borrower = c]) /\ UNCHANGED free
         \/ t.borrower # None /\ free > 0 /\ Instead(t, s) /\ free' = free - 1
  BY <1>a, <1>b DEF IInv, RetryStart
<1>1. TaskOk(t) /\ TaskSent(t)
  BY <1>0 DEF Batches
<1>2. /\ t \in TaskType /\ IsQueue(t.groups) /\ IsQueue(t.todo) /\ Range(t.todo) \subseteq Range(t.groups)
      /\ t.active \subseteq Range(t.groups) /\ IsFiniteSet(t.active) /\ Range(t.todo) \cap t.active = {}
      /\ t.borrower \in t.active \cup {None} /\ work.safe /\ t.holds
  BY <1>0, <1>1 DEF TaskOk
<1>3. PICK q : q = Tail(t.todo)
  OBVIOUS
<1>4. /\ c \in Caller /\ c \in Range(t.todo) /\ IsQueue(q) /\ Range(q) = Range(t.todo) \ {c} /\ q \in Seq(Caller)
  <2>1. /\ c \in Caller /\ c \in Range(t.todo) /\ IsQueue(q) /\ Range(q) = Range(t.todo) \ {c}
    BY <1>0, <1>2, <1>3, <1>a, QueueTail
  <2> QED
    BY <2>1 DEF IsQueue
<1>5. c \notin t.active /\ sent[c] = 1 /\ c \in Range(t.groups) /\ c # None
  BY <1>1, <1>2, <1>4, Constants DEF TaskSent
<1>6. /\ Types' /\ Queues' /\ SentOnce'
      /\ \A d \in Caller : sent'[d] = IF d = c THEN 2 ELSE sent[d]
  BY <1>0, <1>2, <1>4, <1>5, SentAgain
<1>7. Charged' /\ OwnVerdict'
  BY <1>0, ChargedFrame, VerdictFrame
<1>8. PICK A : A = t.active \cup {c}
  OBVIOUS
<1>9. A \in SUBSET Caller /\ IsFiniteSet(A) /\ A \subseteq Range(t.groups)
  <2>1. IsFiniteSet(A)
    BY <1>2, <1>8, FS_AddElement
  <2> QED
    BY <1>2, <1>4, <1>5, <1>8, <2>1 DEF TaskType
<1>10. /\ s.groups = t.groups /\ s.at = t.at /\ s.todo = q /\ s.active = A
       /\ s.borrower = t.borrower /\ s.holds = t.holds /\ s \in TaskType
  BY <1>b, <1>2, <1>3, <1>4, <1>8, <1>9 DEF TaskType
<1>11. ASSUME NEW u, u \in TaskType, u.groups = t.groups, u.at = t.at, u.todo = q, u.active = A,
              u.borrower \in A \cup {None}, u.holds
       PROVE  TaskOk(u) /\ TaskSent(u)'
  <2>1. Range(q) \cap A = {} /\ Range(q) \subseteq Range(t.groups) /\ Range(t.groups) \subseteq Caller
    BY <1>2, <1>4, <1>8, QueueOf
  <2>2. TaskOk(u)
    BY <1>0, <1>1, <1>2, <1>4, <1>9, <1>11, <2>1 DEF TaskOk
  <2>3. /\ \A d \in Range(t.groups) : sent'[d] \in {1, 2}
        /\ \A d \in Range(q) : sent'[d] = 1
    BY <1>1, <1>4, <1>6, <2>1 DEF TaskSent
  <2>4. TaskSent(u)'
    BY <1>0, <1>11, <2>3 DEF TaskSent
  <2> QED
    BY <2>2, <2>4
<1>12. \A d \in Caller : d \notin Range(t.groups) => sent'[d] = sent[d]
  BY <1>5, <1>6
<1>13. free \in Nat /\ Cardinality(t.active \ {t.borrower}) \in Nat /\ IsFiniteSet(t.active \ {t.borrower})
  <2>1. IsFiniteSet(t.active \ {t.borrower})
    BY <1>2, FS_Difference
  <2> QED
    BY <1>0, <2>1, SlotsIs, FS_CardinalityType
<1>14. CASE t.borrower = None /\ Instead(t, [s EXCEPT !.borrower = c]) /\ UNCHANGED free
  <2>1. PICK u : u = [s EXCEPT !.borrower = c]
    OBVIOUS
  <2>2. /\ u.groups = t.groups /\ u.at = t.at /\ u.todo = q /\ u.active = A
        /\ u.borrower = c /\ u.holds /\ u \in TaskType
    BY <1>2, <1>4, <1>10, <2>1 DEF TaskType
  <2>3. TaskOk(u) /\ TaskSent(u)'
    BY <1>8, <1>11, <2>2
  <2>4. u.active \ {u.borrower} = t.active \ {t.borrower}
    BY <1>2, <1>5, <1>8, <1>14, <2>2, Constants DEF TaskType
  <2>5. Share(u) = Share(t)
    BY <1>2, <2>2, <2>4 DEF Share
  <2>6. Share(t) \in Nat
    BY <1>2, <1>13 DEF Share
  <2>7. Batches' /\ Slots'
    BY <1>0, <1>12, <1>13, <1>14, <2>1, <2>2, <2>3, <2>5, <2>6, TaskGoesOn
  <2> QED
    BY <1>6, <1>7, <2>7 DEF IInv
<1>15. CASE t.borrower # None /\ free > 0 /\ Instead(t, s) /\ free' = free - 1
  <2>1. t.borrower \in t.active /\ t.borrower # c
    BY <1>2, <1>5, <1>15
  <2>2. TaskOk(s) /\ TaskSent(s)'
    BY <1>2, <1>8, <1>10, <1>11, <2>1
  <2>3. s.active \ {s.borrower} = (t.active \ {t.borrower}) \cup {c} /\ c \notin t.active \ {t.borrower}
    BY <1>5, <1>8, <1>10, <2>1
  <2>4. Cardinality(s.active \ {s.borrower}) = Cardinality(t.active \ {t.borrower}) + 1
    BY <1>13, <2>3, FS_AddElement
  <2>5. Share(s) = Share(t) + 1 /\ Share(t) \in Nat
    BY <1>2, <1>10, <1>13, <2>4 DEF Share
  <2>6. free' \in Nat /\ free' + Share(s) = free + Share(t)
    BY <1>13, <1>15, <2>5
  <2>7. Batches' /\ Slots'
    BY <1>0, <1>10, <1>12, <1>15, <2>2, <2>6, TaskGoesOn
  <2> QED
    BY <1>6, <1>7, <2>7 DEF IInv
<1> QED
  BY <1>0, <1>14, <1>15

(* A retry that ends returns the slot it had: its own, or the batch's. *)
LEMMA SlotReturned ==
    ASSUME Batches, Slots, NEW t \in tasks, NEW c \in t.active, ReturnSlot(t, c), UNCHANGED <<work, sent>>
    PROVE  Batches' /\ Slots'
<1>1. TaskOk(t) /\ TaskSent(t)
  BY DEF Batches
<1>2. /\ t \in TaskType /\ t.active \subseteq Caller /\ IsFiniteSet(t.active)
      /\ t.borrower \in t.active \cup {None} /\ t.holds \in BOOLEAN /\ c # None
  BY <1>1, Constants DEF TaskOk, TaskType
<1>3. PICK A : A = t.active \ {c}
  OBVIOUS
<1>4. PICK b : b = IF t.borrower = c THEN None ELSE t.borrower
  OBVIOUS
<1>5. PICK u : u = [t EXCEPT !.active = A, !.borrower = b]
  OBVIOUS
<1>6. Instead(t, u) /\ free' = IF t.borrower = c THEN free ELSE free + 1
  BY <1>3, <1>4, <1>5 DEF ReturnSlot
<1>7. IsFiniteSet(A) /\ A \in SUBSET Caller /\ A \subseteq t.active /\ b \in A \cup {None} /\ b \in Caller \cup {None}
  <2>1. IsFiniteSet(A)
    BY <1>2, <1>3, FS_Difference
  <2> QED
    BY <1>2, <1>3, <1>4, <2>1
<1>8. /\ u.groups = t.groups /\ u.at = t.at /\ u.todo = t.todo /\ u.active = A
      /\ u.borrower = b /\ u.holds = t.holds /\ u \in TaskType
  BY <1>2, <1>5, <1>7 DEF TaskType
<1>9. b # None => t.borrower # None
  BY <1>2, <1>4
<1>10. TaskOk(u)
  BY <1>1, <1>7, <1>8, <1>9 DEF TaskOk
<1>11. TaskSent(u)'
  BY <1>1, <1>8 DEF TaskSent
<1>12. free \in Nat /\ Cardinality(t.active \ {t.borrower}) \in Nat /\ IsFiniteSet(t.active \ {t.borrower})
  <2>1. IsFiniteSet(t.active \ {t.borrower})
    BY <1>2, FS_Difference
  <2> QED
    BY <2>1, SlotsIs, FS_CardinalityType
<1>13. Share(t) \in Nat
  BY <1>2, <1>12 DEF Share
<1>14. CASE t.borrower = c
  <2>1. u.active \ {u.borrower} = t.active \ {t.borrower}
    BY <1>2, <1>3, <1>4, <1>8, <1>14, Constants
  <2>2. Share(u) = Share(t)
    BY <1>8, <2>1 DEF Share
  <2>3. free' \in Nat /\ free' + Share(u) = free + Share(t)
    BY <1>6, <1>12, <1>14, <2>2
  <2> QED
    BY <1>6, <1>8, <1>10, <1>11, <2>3, TaskGoesOn
<1>15. CASE t.borrower # c
  <2>1. u.active \ {u.borrower} = (t.active \ {t.borrower}) \ {c} /\ c \in t.active \ {t.borrower}
    BY <1>3, <1>4, <1>8, <1>15
  <2>2. Cardinality(u.active \ {u.borrower}) = Cardinality(t.active \ {t.borrower}) - 1
    <3> DEFINE S == t.active \ {t.borrower}
    <3>1. IsFiniteSet(S) /\ c \in S /\ u.active \ {u.borrower} = S \ {c}
      BY <1>12, <2>1
    <3> HIDE DEF S
    <3>2. Cardinality(S \ {c}) = Cardinality(S) - 1
      BY <3>1, FS_RemoveElement
    <3>3. Cardinality(u.active \ {u.borrower}) = Cardinality(S) - 1
      BY <3>1, <3>2
    <3> QED
      BY <3>3 DEF S
  <2>3. Share(u) = Share(t) - 1
    BY <1>2, <1>8, <1>12, <2>2 DEF Share
  <2>4. free' \in Nat /\ free' + Share(u) = free + Share(t)
    BY <1>6, <1>12, <1>13, <1>15, <2>3
  <2> QED
    BY <1>6, <1>8, <1>10, <1>11, <2>4, TaskGoesOn
<1> QED
  BY <1>14, <1>15

(* A retry that nobody waits for any more ends. *)
LEMMA RetryAbandonedHolds ==
    ASSUME IInv, NEW t \in tasks, RetryAbandoned(t)
    PROVE  IInv'
<1>0. /\ Types /\ Queues /\ Batches /\ Charged /\ Slots /\ OwnVerdict /\ SentOnce
      /\ UNCHANGED <<work, phase, reply, admitting, pending, channel, lane, sent>>
  BY DEF IInv, RetryAbandoned
<1>1. PICK c \in t.active : ReturnSlot(t, c)
  BY DEF RetryAbandoned
<1>2. Batches' /\ Slots'
  BY <1>0, <1>1, SlotReturned
<1> QED
  BY <1>0, <1>2, TypesFrame, QueuesFrame, ChargedFrame, VerdictFrame, SentFrame DEF IInv

(* The end of a retry: its caller is told. *)
LEMMA RetryReturnsHolds ==
    ASSUME IInv, NEW t \in tasks, RetryReturns(t)
    PROVE  IInv'
<1>0. /\ Types /\ Queues /\ Batches /\ Charged /\ Slots /\ OwnVerdict /\ SentOnce
      /\ UNCHANGED <<work, admitting, pending, channel, lane, sent>>
  BY DEF IInv, RetryReturns
<1>1. PICK c \in t.active :
        /\ ~Gone(c)
        /\ \E outcome \in Outcomes(<<c>>) : \E answers \in Answers(<<c>>, outcome) : Deliver(answers)
        /\ ReturnSlot(t, c)
  BY DEF RetryReturns
<1>2. PICK outcome \in Outcomes(<<c>>) : \E answers \in Answers(<<c>>, outcome) : Deliver(answers)
  BY <1>1
<1>3. PICK answers \in Answers(<<c>>, outcome) : Deliver(answers)
  BY <1>2
<1>4. TaskOk(t) /\ TaskSent(t)
  BY <1>0 DEF Batches
<1>5. c \in Caller /\ c \in Range(t.groups) /\ sent[c] # 0 /\ Items(c) <= MaxItems
  BY <1>4 DEF TaskOk, TaskType, TaskSent
<1>6. IsQueue(<<c>>) /\ Range(<<c>>) = {c}
  BY <1>5, QueueOne
<1>7. OneEach(Range(<<c>>))
  BY <1>6 DEF OneEach
<1>8. outcome = "rejected" => Range(<<c>>) \subseteq work.bad
  <2>1. outcome = "rejected" => Range(<<c>>) \cap work.bad # {}
    BY DEF Outcomes
  <2> QED
    BY <1>6, <2>1
<1>9. DOMAIN answers = {c} /\ Verdict(c, answers[c])
  <2>1. \A d \in Range(<<c>>) : Items(d) <= MaxItems
    BY <1>5, <1>6
  <2>2. DOMAIN answers = Range(<<c>>) /\ \A d \in Range(<<c>>) : Verdict(d, answers[d])
    BY <1>0, <1>6, <1>7, <1>8, <2>1, AnswersOwn
  <2> QED
    BY <1>6, <2>2
<1>10. Types' /\ Queues' /\ OwnVerdict'
  BY <1>0, <1>3, <1>5, <1>9, Delivered
<1>11. Batches' /\ Slots'
  BY <1>0, <1>1, SlotReturned
<1> QED
  BY <1>0, <1>10, <1>11, ChargedFrame, SentFrame DEF IInv

(* The slot of the batch is given back once. *)
LEMMA RetryEndHolds ==
    ASSUME IInv, NEW t \in tasks, RetryEnd(t)
    PROVE  IInv'
<1>0. /\ Types /\ Queues /\ Batches /\ Charged /\ Slots /\ OwnVerdict /\ SentOnce
      /\ UNCHANGED <<work, phase, reply, admitting, pending, channel, lane, sent>>
      /\ t.at = "retry" /\ t.todo = <<>> /\ t.borrower = None /\ (t.holds \/ t.active = {})
      /\ free' = (IF t.holds THEN free + 1 ELSE free)
      /\ IF t.active = {} THEN Ended(t) ELSE Instead(t, [t EXCEPT !.holds = FALSE])
  BY DEF IInv, RetryEnd
<1>1. TaskOk(t) /\ TaskSent(t)
  BY <1>0 DEF Batches
<1>2. /\ t \in TaskType /\ t.active \subseteq Caller /\ IsFiniteSet(t.active) /\ t.holds \in BOOLEAN
  BY <1>1 DEF TaskOk, TaskType
<1>3. free \in Nat
  BY <1>0, SlotsIs
<1>4. Batches' /\ Slots'
  <2>1. CASE t.active = {}
    <3>1. t.active \ {t.borrower} = {} /\ Cardinality({}) = 0
      BY <2>1, FS_EmptySet
    <3>2. Share(t) = IF t.holds THEN 1 ELSE 0
      BY <1>2, <3>1 DEF Share
    <3>3. free' = free + Share(t)
      BY <1>0, <1>3, <3>2
    <3> QED
      BY <1>0, <2>1, <3>3, TaskEnds
  <2>2. CASE t.active # {}
    <3>1. PICK u : u = [t EXCEPT !.holds = FALSE]
      OBVIOUS
    <3>2. /\ u.groups = t.groups /\ u.at = t.at /\ u.todo = t.todo /\ u.active = t.active
          /\ u.borrower = t.borrower /\ u.holds = FALSE /\ u \in TaskType
      BY <1>2, <3>1 DEF TaskType
    <3>3. TaskOk(u)
      BY <1>0, <1>1, <3>2 DEF TaskOk
    <3>4. TaskSent(u)'
      BY <1>0, <1>1, <3>2 DEF TaskSent
    <3>5. Cardinality(t.active \ {t.borrower}) \in Nat
      BY <1>2, FS_Difference, FS_CardinalityType
    <3>6. Share(t) = Share(u) + 1 /\ Share(u) \in Nat
      BY <1>0, <2>2, <3>2, <3>5 DEF Share
    <3>7. free' \in Nat /\ free' + Share(u) = free + Share(t)
      BY <1>0, <1>3, <2>2, <3>6
    <3>8. Instead(t, u)
      BY <1>0, <2>2, <3>1
    <3> QED
      BY <1>0, <3>2, <3>3, <3>4, <3>7, <3>8, TaskGoesOn
  <2> QED
    BY <2>1, <2>2
<1> QED
  BY <1>0, <1>4, TypesFrame, QueuesFrame, ChargedFrame, VerdictFrame, SentFrame DEF IInv

-----------------------------------------------------------------------------
(* The invariant, and what follows from it. *)

(* Every step keeps the invariant. *)
LEMMA NextHolds == IInv /\ [Next]_vars => IInv'
<1> SUFFICES ASSUME IInv, [Next]_vars PROVE IInv'
  OBVIOUS
<1>1. ASSUME NEW c \in Caller, Submit(c) \/ Leave(c) PROVE IInv'
  BY <1>1, SubmitHolds, LeaveHolds
<1>2. CASE Admit
  BY <1>2, AdmitHolds
<1>3. CASE Lane
  BY <1>3, LaneFirstHolds, LaneGatherHolds, LaneTimerHolds, LanePurgeHolds, LaneReceiveHolds,
     LaneDispatchHolds DEF Lane
<1>4. ASSUME NEW t \in tasks, TaskStep(t) PROVE IInv'
  BY <1>4, TaskAbandonedHolds, RetryPurgeHolds, RetryStartHolds, RetryAbandonedHolds, RetryEndHolds DEF TaskStep
<1>5. ASSUME NEW t \in tasks, TaskReturns(t) PROVE IInv'
  BY <1>5, TaskReturnsHolds
<1>6. ASSUME NEW t \in tasks, RetryReturns(t) PROVE IInv'
  BY <1>6, RetryReturnsHolds
<1>7. CASE UNCHANGED vars
  BY <1>7, TypesFrame, QueuesFrame, BatchesFrame, ChargedFrame, SlotsFrame, VerdictFrame, SentFrame DEF IInv, vars
<1> QED
  BY <1>1, <1>2, <1>3, <1>4, <1>5, <1>6, <1>7 DEF Next

(* No more calls run than slots are taken: a call holds the slot of its *)
(* batch, and a retry has a slot of its own or is the one that borrows it. *)
LEMMA CallsTake ==
    ASSUME Batches, Slots
    PROVE  Calls <= Taken /\ Calls \in Nat /\ Taken \in Nat
<1> DEFINE C == {t \in tasks : t.at = "call"}
           H == {t \in tasks : t.holds}
           O == {p \in Retries : p[2] # p[1].borrower}
           B == {p \in Retries : p[2] = p[1].borrower}
           L == {t \in tasks : t.borrower # None}
           f == [p \in B |-> p[1]]
<1>0. IsFiniteSet(tasks) /\ IsFiniteSet(Retries)
  BY DEF Slots
<1>1. IsFiniteSet(C) /\ IsFiniteSet(H) /\ IsFiniteSet(L)
  <2>1. C \in SUBSET tasks /\ H \in SUBSET tasks /\ L \in SUBSET tasks
    OBVIOUS
  <2> HIDE DEF C, H, L
  <2> QED
    BY <1>0, <2>1, FS_Subset
<1>2. IsFiniteSet(O) /\ IsFiniteSet(B)
  <2>1. O \in SUBSET Retries /\ B \in SUBSET Retries
    OBVIOUS
  <2> HIDE DEF O, B
  <2> QED
    BY <1>0, <2>1, FS_Subset
<1>3. Retries = O \cup B /\ O \cap B = {}
  OBVIOUS
<1>4. \A p \in Retries : p[1] \in tasks /\ p[2] \in Caller /\ p = <<p[1], p[2]>>
  BY DEF Retries
<1>5. \A p \in B : p[1] \in L
  BY <1>4, Constants
<1>6. \A p, q \in B : p[1] = q[1] => p = q
  BY <1>4
<1>7. f \in [B -> L]
  <2> HIDE DEF B, L
  <2> QED
    BY <1>5
<1>8. f \in Injection(B, L)
  <2>1. \A p, q \in B : f[p] = f[q] => p = q
    <3>1. \A p \in B : f[p] = p[1]
      OBVIOUS
    <3> HIDE DEF f, B
    <3> QED
      BY <1>6, <3>1
  <2> HIDE DEF f, B, L
  <2> QED
    BY <1>7, <2>1 DEF Injection, IsInjective
<1>9. C \cap L = {} /\ C \cup L \subseteq H
  <2>1. ASSUME NEW t \in C PROVE t.borrower = None /\ t.holds
    BY DEF Batches, TaskOk
  <2>2. ASSUME NEW t \in L PROVE t.holds
    BY DEF Batches, TaskOk
  <2> QED
    BY <2>1, <2>2
<1>10. Calls = Cardinality(C) + Cardinality(Retries) /\ Taken = Cardinality(H) + Cardinality(O)
  BY DEF Calls, Taken
<1> HIDE DEF C, H, O, B, L, f
<1>11. Cardinality(B) <= Cardinality(L)
  BY <1>1, <1>8, FS_Injection
<1>12. Cardinality(Retries) = Cardinality(O) + Cardinality(B)
  <2>1. Cardinality(O \cup B) = Cardinality(O) + Cardinality(B) - Cardinality(O \cap B)
    BY <1>2, FS_Union
  <2>2. Cardinality(O \cap B) = 0
    BY <1>3, FS_EmptySet
  <2>3. Cardinality(O) \in Nat /\ Cardinality(B) \in Nat
    BY <1>2, FS_CardinalityType
  <2>4. Cardinality(O \cup B) = Cardinality(O) + Cardinality(B)
    BY <2>1, <2>2, <2>3
  <2> QED
    BY <1>3, <2>4
<1>13. Cardinality(C) + Cardinality(L) <= Cardinality(H)
  <2>1. Cardinality(C \cup L) = Cardinality(C) + Cardinality(L) - Cardinality(C \cap L)
    BY <1>1, FS_Union
  <2>2. Cardinality(C \cap L) = 0
    BY <1>9, FS_EmptySet
  <2>3. Cardinality(C) \in Nat /\ Cardinality(L) \in Nat
    BY <1>1, FS_CardinalityType
  <2>4. Cardinality(C \cup L) <= Cardinality(H)
    BY <1>1, <1>9, FS_Subset
  <2> QED
    BY <2>1, <2>2, <2>3, <2>4
<1>14. /\ Cardinality(C) \in Nat /\ Cardinality(L) \in Nat /\ Cardinality(H) \in Nat
       /\ Cardinality(O) \in Nat /\ Cardinality(B) \in Nat
  BY <1>1, <1>2, FS_CardinalityType
<1> QED
  BY <1>10, <1>11, <1>12, <1>13, <1>14

(* So it holds always. *)
LEMMA IInvAlways == Spec => []IInv
<1>1. Init => IInv
  BY InitHolds
<1>2. IInv /\ [Next]_vars => IInv'
  BY NextHolds
<1> QED
  BY <1>1, <1>2, PTL DEF Spec

(* Every capacity is accounted for.  What is pending is what is queued, no *)
(* slot is lost or given back twice, and no more calls run than there are *)
(* slots: whichever callers leave and whichever retries borrow a slot *)
(* (PendingCharge, run_lane, run_retries). *)
THEOREM CapacityAlwaysKept == Spec => []CapacityKept
<1>1. IInv => CapacityKept
  <2> SUFFICES ASSUME IInv PROVE CapacityKept
    OBVIOUS
  <2>0. Types /\ Batches /\ Charged /\ Slots /\ SentOnce
    BY DEF IInv
  <2>1. Calls <= Taken /\ Calls \in Nat /\ Taken \in Nat
    BY <2>0, CallsTake
  <2>2. work \in Workload /\ work.safe \in BOOLEAN /\ work.slots \in Nat
    BY <2>0, WorkIs DEF Types
  <2>3. free \in Nat /\ free + Taken = work.slots
    BY <2>0 DEF Slots
  <2>4. Calls <= work.slots /\ free \in 0..work.slots
    BY <2>1, <2>2, <2>3
  <2>5. pending \in 0..MaxPending /\ pending = Charge(Queued)
    BY <2>0, Constants DEF Charged
  <2>6. \A c \in Caller : sent[c] \in 0..2
    <3>1. \A c \in Caller : sent[c] \in Nat /\ sent[c] <= IF work.safe THEN 2 ELSE 1
      BY <2>0 DEF Types, SentOnce
    <3> QED
      BY <2>2, <3>1
  <2>7. lane.at \in {"recv", "gather", "slot"} /\ phase \in [Caller -> {"idle", "admit", "wait", "done", "gone"}]
    BY <2>0 DEF Types
  <2> QED
    BY <2>2, <2>3, <2>4, <2>5, <2>6, <2>7 DEF CapacityKept, TypeOK
<1> QED
  BY <1>1, IInvAlways, PTL

(* A caller is told about its own items, and of a rejection only of its *)
(* own data if the provider may be asked again: no unit is twice in a *)
(* batch, so results that are matched by unit are those of the items *)
(* themselves (run_lane's unit check, deliver, run_retries). *)
THEOREM OwnVerdictAlways == Spec => []OwnVerdict
<1>1. IInv => OwnVerdict
  BY DEF IInv
<1> QED
  BY <1>1, IInvAlways, PTL

(* A provider that may not be sent a request twice is not, and no request *)
(* is sent more often than in a batch and alone (R5-004). *)
THEOREM SentOnceAlways == Spec => []SentOnce
<1>1. IInv => SentOnce
  BY DEF IInv
<1> QED
  BY <1>1, IInvAlways, PTL

=============================================================================
