---------------------------- MODULE DriverProofs ----------------------------
(***************************************************************************)
(* Proofs about the drivers of the timer, the interrupt controllers and    *)
(* the PS/2 ports.                                                         *)
(*                                                                         *)
(* Pit, for any number of sleepers, durations and pending ticks: a sleeper *)
(* never misses the firing of its target time and wakes at no other, also  *)
(* when the system time wraps on the way. The invariant counts firings. If *)
(* f firings are still in the queue, the last one that was handled         *)
(* announced the time systemTime - f. The code of a sleeper with r firings *)
(* to go is r after that time, the code of the n-th firing in the queue n  *)
(* after it, both up to one wrap.                                          *)
(*                                                                         *)
(* Pic, for any number of handler threads, interrupts and devices: no line *)
(* stays in service with no handler left to clear it. The argument is a    *)
(* count. A delivery puts one line in service on each controller at most   *)
(* and starts one handler that owes both a command; a handler stops owing  *)
(* a controller only when it finds that controller's register empty or     *)
(* sends the command, which clears one line.                               *)
(*                                                                         *)
(* Ps2, for any machines and any number of keys: nothing is registered on  *)
(* an empty port, no mouse is registered where there is none at all, and   *)
(* an undisturbed start-up registers every device for what it is. The      *)
(* first two need only to know which bytes can be in the buffer at all:    *)
(* 00, FA and AA come from devices, and the places that lead to a          *)
(* registration are reached by reading them. The third follows the         *)
(* conversation: for each place of the program it says which instructions  *)
(* are left, what the controller and the devices have been told, and which *)
(* answers are on their way.                                               *)
(***************************************************************************)
EXTENDS Pit, Pic, Ps2, FiniteSetTheorems, NaturalsInduction, WellFoundedInduction, TLAPS

Waiter == [sleeper : Sleepers, code : Times]
Entry ==
    [kind : {"tick"}] \cup [kind : {"fire"}, code : Times]
        \cup [kind : {"sleep"}, sleeper : Sleepers, millis : Millis]
        \cup [kind : {"await"}, sleeper : Sleepers, code : Times]
        \cup [kind : {"woken"}, sleeper : Sleepers]

\* The entries of a kind before position i, and their number.
Before(q, kind, i) == {j \in 1 .. i - 1 : q[j].kind = kind}
N(q, kind, i) == Cardinality(Before(q, kind, i))
One(e, kind) == IF e.kind = kind THEN 1 ELSE 0

-----------------------------------------------------------------------------
\* Counting.

LEMMA BeforeFinite ==
    ASSUME NEW q, NEW kind, NEW i \in Nat
    PROVE  IsFiniteSet(Before(q, kind, i)) /\ N(q, kind, i) \in Nat
  <1>1. IsFiniteSet(1 .. i - 1)
    BY FS_Interval
  <1>2. IsFiniteSet(Before(q, kind, i))
    BY <1>1, FS_Subset DEF Before
  <1> QED BY <1>2, FS_CardinalityType DEF N

LEMMA CountFirst ==
    ASSUME NEW q, NEW kind
    PROVE  N(q, kind, 1) = 0
  <1>1. Before(q, kind, 1) = {}
    BY DEF Before
  <1> QED BY <1>1, FS_EmptySet DEF N

LEMMA CountNext ==
    ASSUME NEW q, NEW kind, NEW i \in Nat, i >= 1
    PROVE  N(q, kind, i + 1) = N(q, kind, i) + One(q[i], kind)
  <1>1. 1 .. (i + 1) - 1 = (1 .. i - 1) \cup {i} /\ i \notin 1 .. i - 1
    OBVIOUS
  <1>2. CASE q[i].kind = kind
    <2>1. Before(q, kind, i + 1) = Before(q, kind, i) \cup {i} /\ i \notin Before(q, kind, i)
      BY <1>1, <1>2 DEF Before
    <2> QED BY <1>2, <2>1, BeforeFinite, FS_AddElement DEF N, One
  <1>3. CASE q[i].kind # kind
    <2>1. Before(q, kind, i + 1) = Before(q, kind, i)
      BY <1>1, <1>3 DEF Before
    <2> QED BY <1>3, <2>1, BeforeFinite DEF N, One
  <1> QED BY <1>2, <1>3

LEMMA CountMono ==
    ASSUME NEW q, NEW kind, NEW i \in Nat, NEW j \in Nat, i <= j
    PROVE  N(q, kind, i) <= N(q, kind, j)
  <1>1. Before(q, kind, i) \subseteq Before(q, kind, j)
    BY DEF Before
  <1> QED BY <1>1, BeforeFinite, FS_Subset DEF N

\* Only the entries before a position count.
LEMMA CountSame ==
    ASSUME NEW q, NEW r, NEW kind, NEW i \in Nat,
           \A j \in 1 .. i - 1 : r[j] = q[j]
    PROVE  N(r, kind, i) = N(q, kind, i)
  <1>1. Before(r, kind, i) = Before(q, kind, i)
    BY DEF Before
  <1> QED BY <1>1 DEF N

\* Entries of other kinds behind a position do not count.
LEMMA CountOthers ==
    ASSUME NEW q, NEW kind, NEW i \in Nat, NEW k \in Nat, i <= k,
           \A j \in i .. k - 1 : q[j].kind # kind
    PROVE  N(q, kind, k) = N(q, kind, i)
  <1>1. Before(q, kind, k) = Before(q, kind, i)
    BY DEF Before
  <1> QED BY <1>1 DEF N

\* An entry that leaves at the front shifts the others.
LEMMA CountShift ==
    ASSUME NEW q, NEW r, NEW kind, NEW i \in Nat, i >= 1,
           \A j \in 1 .. i - 1 : r[j] = q[j + 1]
    PROVE  N(r, kind, i) = N(q, kind, i + 1) - One(q[1], kind)
  <1> DEFINE A == Before(r, kind, i)
             B == Before(q, kind, i + 1) \ {1}
             f == [j \in A |-> j + 1]
  <1>1. IsFiniteSet(A) /\ N(r, kind, i) \in Nat
    BY BeforeFinite
  <1>2. IsFiniteSet(Before(q, kind, i + 1)) /\ N(q, kind, i + 1) \in Nat
    BY BeforeFinite
  <1>3. f \in Bijection(A, B)
    <2>1. \A j \in A : j \in 1 .. i - 1 /\ j + 1 \in B
      BY DEF Before
    <2>2. \A k \in B : k - 1 \in A /\ f[k - 1] = k
      BY DEF Before
    <2>3. \A j, k \in A : f[j] = f[k] => j = k
      BY <2>1
    <2> QED BY <2>1, <2>2, <2>3 DEF Bijection, Injection, Surjection, IsInjective
  <1>4. Cardinality(A) = Cardinality(B)
    BY <1>1, <1>2, <1>3, FS_Bijection, FS_RemoveElement DEF ExistsBijection
  <1>5. Cardinality(B) = IF 1 \in Before(q, kind, i + 1) THEN N(q, kind, i + 1) - 1
                         ELSE N(q, kind, i + 1)
    BY <1>2, FS_RemoveElement DEF N
  <1>6. 1 \in Before(q, kind, i + 1) <=> q[1].kind = kind
    BY DEF Before
  <1> QED BY <1>1, <1>2, <1>4, <1>5, <1>6 DEF N, One

-----------------------------------------------------------------------------
\* The loop of fireEvent.

\* Induction on a set of numbers.
LEMMA LeastNatural ==
    ASSUME NEW S \in SUBSET Nat, S # {}
    PROVE  \E m \in S : \A n \in S : m <= n
  <1>1. PICK m \in S : \A n \in S : ~(<<n, m>> \in OpToRel(<, Nat))
    BY NatLessThanWellFounded, WFMin
  <1>2. \A n \in S : ~(n < m)
    BY <1>1 DEF OpToRel
  <1> QED BY <1>2

LEMMA Reaches ==
    ASSUME NEW S \in SUBSET Nat, 0 \in S, \A n \in S : n + 1 \in S
    PROVE  S = Nat
  <1>1. SUFFICES ASSUME Nat \ S # {} PROVE FALSE
    OBVIOUS
  <1>2. PICK m \in Nat \ S : \A n \in Nat \ S : m <= n
    BY <1>1, LeastNatural
  <1>3. m # 0 /\ m - 1 \in Nat /\ m - 1 \in S /\ (m - 1) + 1 = m
    BY <1>2
  <1> QED BY <1>2, <1>3

\* One pass of the loop, and the passes as a function of their number.
Pass(x, n, code) ==
    IF Accepts(waiting[n], code)
    THEN [x EXCEPT !.woken = Append(@, Woken(waiting[n].sleeper))]
    ELSE [x EXCEPT !.kept = Append(@, waiting[n])]
Passes(f, m, code) ==
    f = [n \in 0 .. m |-> IF n = 0 THEN [kept |-> <<>>, woken |-> <<>>]
                          ELSE Pass(f[n - 1], n, code)]

\* The recursion that defines the loop has a solution of every length.
LEMMA PassesExist ==
    ASSUME NEW code, NEW k \in Nat
    PROVE  \E f : Passes(f, k, code)
  <1> DEFINE S == {m \in Nat : \E f : Passes(f, m, code)}
             none == [kept |-> <<>>, woken |-> <<>>]
  <1>1. 0 \in S
    <2>1. PICK f : f = [n \in 0 .. 0 |-> none]
      OBVIOUS
    <2>2. Passes(f, 0, code)
      BY <2>1 DEF Passes
    <2> QED BY <2>2
  <1>2. ASSUME NEW m \in S PROVE m + 1 \in S
    <2>1. PICK f : Passes(f, m, code)
      OBVIOUS
    <2>2. \A n \in 0 .. m : f[n] = IF n = 0 THEN none ELSE Pass(f[n - 1], n, code)
      BY <2>1 DEF Passes
    <2>3. PICK g : g = [n \in 0 .. m + 1 |->
                            IF n = m + 1 THEN Pass(f[m], m + 1, code) ELSE f[n]]
      OBVIOUS
    <2>4. PICK h : h = [n \in 0 .. m + 1 |->
                            IF n = 0 THEN none ELSE Pass(g[n - 1], n, code)]
      OBVIOUS
    <2> HIDE DEF none
    <2>5. ASSUME NEW n \in 0 .. m + 1 PROVE g[n] = h[n]
      <3>1. CASE n = m + 1
        <4>1. n - 1 = m /\ n # 0 /\ m \in 0 .. m + 1 /\ m # m + 1
          BY <3>1
        <4> QED BY <2>3, <2>4, <2>5, <3>1, <4>1
      <3>2. CASE n # m + 1 /\ n # 0
        <4>1. n \in 0 .. m /\ n - 1 \in 0 .. m + 1 /\ n - 1 # m + 1 /\ n - 1 \in 0 .. m
          BY <3>2
        <4> QED BY <2>2, <2>3, <2>4, <3>2, <4>1
      <3>3. CASE n = 0
        <4>1. n \in 0 .. m /\ n # m + 1
          BY <3>3
        <4> QED BY <2>2, <2>3, <2>4, <3>3, <4>1
      <3> QED BY <3>1, <3>2, <3>3
    <2>6. g = h
      BY <2>3, <2>4, <2>5
    <2>7. Passes(g, m + 1, code)
      BY <2>4, <2>6 DEF Passes, none
    <2> QED BY <2>7
  <1>3. S = Nat
    <2> HIDE DEF S
    <2>1. S \in SUBSET Nat
      BY DEF S
    <2> QED BY <1>1, <1>2, <2>1, Reaches
  <1> QED BY <1>3

LEMMA LoopPasses ==
    ASSUME NEW code, Len(waiting) \in Nat
    PROVE  \E f : Passes(f, Len(waiting), code) /\ FireLoop(code) = f[Len(waiting)]
  <1>1. \E f : Passes(f, Len(waiting), code)
    BY PassesExist
  <1> DEFINE loop == CHOOSE f : Passes(f, Len(waiting), code)
  <1>2. Passes(loop, Len(waiting), code)
    BY <1>1, Zenon
  <1>3. FireLoop(code) = loop[Len(waiting)]
    BY DEF FireLoop, Passes, Pass
  <1> QED BY <1>2, <1>3

\* What the first n passes make of the waiting calls.
Sorted(x, n, code) ==
    /\ x \in [kept : Seq(Waiter), woken : Seq(Entry)]
    /\ \A i \in 1 .. Len(x.kept) : \E m \in 1 .. n :
            x.kept[i] = waiting[m] /\ ~Accepts(waiting[m], code)
    /\ \A i \in 1 .. Len(x.woken) : \E m \in 1 .. n :
            x.woken[i] = Woken(waiting[m].sleeper) /\ Accepts(waiting[m], code)
    /\ \A i, j \in 1 .. Len(x.kept) : x.kept[i].sleeper = x.kept[j].sleeper => i = j
    /\ \A i, j \in 1 .. Len(x.woken) : x.woken[i].sleeper = x.woken[j].sleeper => i = j
    /\ \A m \in 1 .. n : ~Accepts(waiting[m], code) =>
            \E i \in 1 .. Len(x.kept) : x.kept[i] = waiting[m]

LEMMA PassSorts ==
    ASSUME NEW code, NEW n \in Nat, waiting \in Seq(Waiter), n + 1 <= Len(waiting),
           \A i, j \in 1 .. Len(waiting) : waiting[i].sleeper = waiting[j].sleeper => i = j,
           NEW x, Sorted(x, n, code)
    PROVE  Sorted(Pass(x, n + 1, code), n + 1, code)
  <1>1. PICK w \in Waiter : w = waiting[n + 1]
    OBVIOUS
  <1>2. PICK kept \in Seq(Waiter), woken \in Seq(Entry) :
            x = [kept |-> kept, woken |-> woken] /\ kept = x.kept /\ woken = x.woken
    BY DEF Sorted
  <1>3. /\ 1 .. n + 1 = (1 .. n) \cup {n + 1}
        /\ \A m \in 1 .. n : m \in 1 .. Len(waiting) /\ m # n + 1
        /\ n + 1 \in 1 .. Len(waiting)
    OBVIOUS
  <1>4. \A m \in 1 .. n : waiting[m].sleeper # w.sleeper
    BY <1>1, <1>3
  <1> DEFINE Kept(i, m) == kept[i] = waiting[m] /\ ~Accepts(waiting[m], code)
             Wakes(i, m) == woken[i] = Woken(waiting[m].sleeper) /\ Accepts(waiting[m], code)
  <1>5. /\ \A i \in 1 .. Len(kept) : \E m \in 1 .. n : Kept(i, m)
        /\ \A i \in 1 .. Len(woken) : \E m \in 1 .. n : Wakes(i, m)
        /\ \A i, j \in 1 .. Len(kept) : kept[i].sleeper = kept[j].sleeper => i = j
        /\ \A i, j \in 1 .. Len(woken) : woken[i].sleeper = woken[j].sleeper => i = j
        /\ \A m \in 1 .. n : ~Accepts(waiting[m], code) =>
                \E i \in 1 .. Len(kept) : kept[i] = waiting[m]
    BY <1>2 DEF Sorted
  <1>6. \A s : Woken(s).sleeper = s
    BY DEF Woken
  <1>7. ASSUME NEW i \in 1 .. Len(woken) PROVE woken[i].sleeper # w.sleeper
    <2>1. PICK m \in 1 .. n : woken[i] = Woken(waiting[m].sleeper)
      BY <1>5
    <2>2. woken[i].sleeper = waiting[m].sleeper
      BY <1>6, <2>1
    <2> QED BY <1>4, <2>2
  <1>8. ASSUME NEW i \in 1 .. Len(kept) PROVE kept[i].sleeper # w.sleeper
    <2>1. PICK m \in 1 .. n : kept[i] = waiting[m]
      BY <1>5
    <2> QED BY <1>4, <2>1
  <1>9. CASE Accepts(w, code)
    <2>1. PICK e : e = Woken(w.sleeper)
      OBVIOUS
    <2>2. e \in Entry /\ e.sleeper = w.sleeper
      BY <1>1, <2>1 DEF Woken, Entry, Waiter
    <2>3. PICK q : q = Append(woken, e)
      OBVIOUS
    <2>4. Pass(x, n + 1, code) = [kept |-> kept, woken |-> q]
      BY <1>1, <1>2, <1>9, <2>1, <2>3 DEF Pass
    <2>5. /\ q \in Seq(Entry) /\ Len(q) = Len(woken) + 1 /\ q[Len(woken) + 1] = e
          /\ Len(woken) \in Nat
          /\ \A i \in 1 .. Len(woken) : q[i] = woken[i]
          /\ 1 .. Len(q) = (1 .. Len(woken)) \cup {Len(woken) + 1}
      BY <2>2, <2>3
    <2>6. \A i \in 1 .. Len(woken) : woken[i].sleeper # e.sleeper
      BY <1>7, <2>2
    <2>7. \A i \in 1 .. Len(q) : \E m \in 1 .. n + 1 :
                q[i] = Woken(waiting[m].sleeper) /\ Accepts(waiting[m], code)
      <3>1. \A i \in 1 .. Len(woken) : \E m \in 1 .. n + 1 :
                q[i] = Woken(waiting[m].sleeper) /\ Accepts(waiting[m], code)
        BY <1>5, <1>3, <2>5
      <3>2. q[Len(woken) + 1] = Woken(waiting[n + 1].sleeper) /\ Accepts(waiting[n + 1], code)
        BY <1>1, <1>9, <2>1, <2>5
      <3> QED BY <1>3, <2>5, <3>1, <3>2
    <2>8. \A i, j \in 1 .. Len(q) : q[i].sleeper = q[j].sleeper => i = j
      BY <1>5, <2>5, <2>6
    <2>9. \A m \in 1 .. n + 1 : ~Accepts(waiting[m], code) =>
                \E i \in 1 .. Len(kept) : kept[i] = waiting[m]
      BY <1>1, <1>5, <1>3, <1>9
    <2>10. \A i \in 1 .. Len(kept) : \E m \in 1 .. n + 1 :
                kept[i] = waiting[m] /\ ~Accepts(waiting[m], code)
      BY <1>5, <1>3
    <2>11. \A i, j \in 1 .. Len(kept) : kept[i].sleeper = kept[j].sleeper => i = j
      BY <1>5
    <2>12. PICK y : y = Pass(x, n + 1, code)
      OBVIOUS
    <2>13. y = [kept |-> kept, woken |-> q] /\ y.kept = kept /\ y.woken = q
      BY <2>4, <2>12
    <2>14. Sorted(y, n + 1, code)
      BY <2>5, <2>7, <2>8, <2>9, <2>10, <2>11, <2>13 DEF Sorted
    <2> QED BY <2>12, <2>14
  <1>10. CASE ~Accepts(w, code)
    <2>3. PICK q : q = Append(kept, w)
      OBVIOUS
    <2>4. Pass(x, n + 1, code) = [kept |-> q, woken |-> woken]
      BY <1>1, <1>2, <1>10, <2>3 DEF Pass
    <2>5. /\ q \in Seq(Waiter) /\ Len(q) = Len(kept) + 1 /\ q[Len(kept) + 1] = w
          /\ Len(kept) \in Nat
          /\ \A i \in 1 .. Len(kept) : q[i] = kept[i]
          /\ 1 .. Len(q) = (1 .. Len(kept)) \cup {Len(kept) + 1}
      BY <2>3
    <2>6. \A i \in 1 .. Len(kept) : kept[i].sleeper # w.sleeper
      BY <1>8
    <2>7. \A i \in 1 .. Len(q) : \E m \in 1 .. n + 1 :
                q[i] = waiting[m] /\ ~Accepts(waiting[m], code)
      <3>1. \A i \in 1 .. Len(kept) : \E m \in 1 .. n + 1 :
                q[i] = waiting[m] /\ ~Accepts(waiting[m], code)
        BY <1>5, <1>3, <2>5
      <3>2. q[Len(kept) + 1] = waiting[n + 1] /\ ~Accepts(waiting[n + 1], code)
        BY <1>1, <1>10, <2>5
      <3> QED BY <1>3, <2>5, <3>1, <3>2
    <2>8. \A i, j \in 1 .. Len(q) : q[i].sleeper = q[j].sleeper => i = j
      BY <1>5, <2>5, <2>6
    <2>9. \A m \in 1 .. n + 1 : ~Accepts(waiting[m], code) =>
                \E i \in 1 .. Len(q) : q[i] = waiting[m]
      <3>1. \A m \in 1 .. n : ~Accepts(waiting[m], code) =>
                \E i \in 1 .. Len(kept) : q[i] = waiting[m]
        BY <1>5, <2>5
      <3> QED BY <1>1, <1>3, <2>5, <3>1
    <2>10. \A i \in 1 .. Len(woken) : \E m \in 1 .. n + 1 :
                woken[i] = Woken(waiting[m].sleeper) /\ Accepts(waiting[m], code)
      BY <1>5, <1>3
    <2>11. \A i, j \in 1 .. Len(woken) : woken[i].sleeper = woken[j].sleeper => i = j
      BY <1>5
    <2>12. PICK y : y = Pass(x, n + 1, code)
      OBVIOUS
    <2>13. y = [kept |-> q, woken |-> woken] /\ y.kept = q /\ y.woken = woken
      BY <2>4, <2>12
    <2>14. Sorted(y, n + 1, code)
      BY <2>5, <2>7, <2>8, <2>9, <2>10, <2>11, <2>13 DEF Sorted
    <2> QED BY <2>12, <2>14
  <1> QED BY <1>9, <1>10

\* fireEvent keeps exactly the calls that do not accept the code, and queues
\* the threads of the others.
LEMMA LoopSorts ==
    ASSUME NEW code, waiting \in Seq(Waiter),
           \A i, j \in 1 .. Len(waiting) : waiting[i].sleeper = waiting[j].sleeper => i = j
    PROVE  Sorted(FireLoop(code), Len(waiting), code)
  <1>1. Len(waiting) \in Nat
    OBVIOUS
  <1>2. PICK f : Passes(f, Len(waiting), code) /\ FireLoop(code) = f[Len(waiting)]
    BY <1>1, LoopPasses
  <1> DEFINE S == {n \in Nat : n <= Len(waiting) => Sorted(f[n], n, code)}
  <1>3. /\ f[0] = [kept |-> <<>>, woken |-> <<>>]
        /\ \A n \in 1 .. Len(waiting) : f[n] = Pass(f[n - 1], n, code)
    <2>1. \A n \in 0 .. Len(waiting) : f[n] =
                IF n = 0 THEN [kept |-> <<>>, woken |-> <<>>] ELSE Pass(f[n - 1], n, code)
      BY <1>2 DEF Passes
    <2>2. 0 \in 0 .. Len(waiting) /\ \A n \in 1 .. Len(waiting) : n \in 0 .. Len(waiting) /\ n # 0
      BY <1>1
    <2> QED BY <2>1, <2>2
  <1>4. 0 \in S
    <2>1. f[0].kept = <<>> /\ f[0].woken = <<>> /\ 1 .. 0 = {} /\ Len(<<>>) = 0
      BY <1>3
    <2>2. f[0] \in [kept : Seq(Waiter), woken : Seq(Entry)]
      BY <1>3
    <2> QED BY <2>1, <2>2 DEF Sorted
  <1>5. ASSUME NEW n \in S PROVE n + 1 \in S
    <2>1. SUFFICES ASSUME n + 1 <= Len(waiting) PROVE Sorted(f[n + 1], n + 1, code)
      OBVIOUS
    <2>2. n \in Nat /\ n <= Len(waiting) /\ n + 1 \in 1 .. Len(waiting) /\ (n + 1) - 1 = n
      BY <1>1, <2>1
    <2>3. Sorted(f[n], n, code) /\ f[n + 1] = Pass(f[n], n + 1, code)
      BY <1>3, <2>2
    <2> QED BY <2>1, <2>2, <2>3, PassSorts
  <1>6. S = Nat
    <2> HIDE DEF S
    <2>1. S \in SUBSET Nat
      BY DEF S
    <2> QED BY <1>4, <1>5, <2>1, Reaches
  <1> QED BY <1>1, <1>2, <1>6

-----------------------------------------------------------------------------
\* The invariant, over a time t, a queue q, a list w of waiting calls and the
\* firings rem that sleepers have to go.

\* The longest sleep, in firings.
Longest == MaxPending + (TimeMod - 1) \div 10 + 1

\* The code of the time x, up to a wrap.
At(code, x) == code \in {x, x - TimeMod, x + TimeMod}

\* All entries of a kind. Fires in the queue are times that were reached and
\* not announced: the last one announced is t - All(q, "fire").
All(q, kind) == N(q, kind, Len(q) + 1)

\* Entries that carry the thread of a sleeper.
Has(e) == e.kind \in {"sleep", "await", "woken"}
Absent(s, q, w) ==
    /\ \A i \in 1 .. Len(q) : Has(q[i]) => q[i].sleeper # s
    /\ \A i \in 1 .. Len(w) : w[i].sleeper # s

Types(t, q, w, rem) ==
    /\ t \in Times
    /\ q \in Seq(Entry)
    /\ w \in Seq(Waiter)
    /\ rem \in [Sleepers -> Int]

\* A sleeper's thread is in one place, and in none while it is awake.
Unique(q, w, rem) ==
    /\ \A i, j \in 1 .. Len(q) :
            Has(q[i]) /\ Has(q[j]) /\ q[i].sleeper = q[j].sleeper => i = j
    /\ \A i \in 1 .. Len(q), j \in 1 .. Len(w) : Has(q[i]) => q[i].sleeper # w[j].sleeper
    /\ \A i, j \in 1 .. Len(w) : w[i].sleeper = w[j].sleeper => i = j
    /\ \A i \in 1 .. Len(q) : Has(q[i]) => rem[q[i].sleeper] # Awake

\* Each code is the time that the ghost count says.
FireCodes(t, q) ==
    \A i \in 1 .. Len(q) : q[i].kind = "fire" =>
        At(q[i].code, t - All(q, "fire") + N(q, "fire", i) + 1)
AwaitCodes(t, q, rem) ==
    \A i \in 1 .. Len(q) : q[i].kind = "await" =>
        /\ rem[q[i].sleeper] > N(q, "fire", i)
        /\ At(q[i].code, t - All(q, "fire") + rem[q[i].sleeper])
WaitCodes(t, q, w, rem) ==
    \A i \in 1 .. Len(w) :
        /\ rem[w[i].sleeper] > 0
        /\ At(w[i].code, t - All(q, "fire") + rem[w[i].sleeper])

Bounds(q, rem) ==
    /\ All(q, "tick") + All(q, "fire") <= MaxPending
    /\ \A s \in Sleepers : rem[s] <= Longest

Good(t, q, w, rem) ==
    /\ Types(t, q, w, rem)
    /\ Unique(q, w, rem)
    /\ FireCodes(t, q)
    /\ AwaitCodes(t, q, rem)
    /\ WaitCodes(t, q, w, rem)
    /\ Bounds(q, rem)

PitInv == Good(systemTime, queue, waiting, remaining)

LEMMA TimeFacts ==
    ASSUME TimeAssumption
    PROVE  /\ TimeMod \in Nat /\ TimeMod > 1 /\ MaxPending \in Nat /\ MaxPending >= 1
           /\ Longest \in Nat /\ Longest < TimeMod /\ MaxPending < Longest
           /\ (TimeMod - 1) \div 10 \in Nat
  BY DEF TimeAssumption, Longest

LEMMA EntryFields ==
    ASSUME NEW e \in Entry
    PROVE  /\ e.kind \in {"tick", "fire", "sleep", "await", "woken"}
           /\ e.kind \in {"fire", "await"} => e.code \in Times
           /\ Has(e) => e.sleeper \in Sleepers
           /\ e.kind = "sleep" => e.millis \in Millis
  BY DEF Entry, Has

\* Counting in a queue that grows by one entry, or loses its first.
Grown(q, e, r) ==
    /\ r \in Seq(Entry) /\ Len(r) = Len(q) + 1 /\ Len(q) \in Nat
    /\ r[Len(q) + 1] = e
    /\ \A i \in 1 .. Len(q) : r[i] = q[i]
    /\ 1 .. Len(r) = (1 .. Len(q)) \cup {Len(q) + 1}
    /\ \A kind \in {"tick", "fire"} :
            /\ \A i \in 1 .. Len(q) + 1 : N(r, kind, i) = N(q, kind, i)
            /\ All(q, kind) \in Nat
            /\ All(r, kind) = All(q, kind) + One(e, kind)

LEMMA AppendCounts ==
    ASSUME NEW q \in Seq(Entry), NEW e \in Entry
    PROVE  Grown(q, e, Append(q, e))
  <1>1. PICK r : r = Append(q, e)
    OBVIOUS
  <1>2. /\ r \in Seq(Entry) /\ Len(r) = Len(q) + 1 /\ Len(q) \in Nat
        /\ r[Len(q) + 1] = e
        /\ \A i \in 1 .. Len(q) : r[i] = q[i]
        /\ 1 .. Len(r) = (1 .. Len(q)) \cup {Len(q) + 1}
    BY <1>1
  <1>3. ASSUME NEW kind \in {"tick", "fire"}
        PROVE  /\ \A i \in 1 .. Len(q) + 1 : N(r, kind, i) = N(q, kind, i)
               /\ All(q, kind) \in Nat
               /\ All(r, kind) = All(q, kind) + One(e, kind)
    <2>1. ASSUME NEW i \in 1 .. Len(q) + 1 PROVE N(r, kind, i) = N(q, kind, i)
      <3>1. i \in Nat /\ \A j \in 1 .. i - 1 : r[j] = q[j]
        BY <1>2
      <3> QED BY <3>1, CountSame
    <2>2. PICK k \in Nat : k = Len(q) + 1 /\ k >= 1
      BY <1>2
    <2>3. N(r, kind, k + 1) = N(r, kind, k) + One(r[k], kind)
      BY <2>2, CountNext
    <2>4. All(q, kind) \in Nat
      BY <1>2, BeforeFinite DEF All
    <2>5. N(r, kind, Len(q) + 1) = All(q, kind)
      BY <1>2, <2>1 DEF All
    <2>6. All(r, kind) = All(q, kind) + One(e, kind)
      BY <1>2, <2>2, <2>3, <2>5 DEF All
    <2> QED BY <2>1, <2>4, <2>6
  <1>4. Grown(q, e, r)
    BY <1>2, <1>3 DEF Grown
  <1> QED BY <1>1, <1>4

TailFacts(q, r, kind) ==
    /\ r \in Seq(Entry) /\ Len(q) \in Nat /\ Len(r) = Len(q) - 1 /\ Len(q) >= 1
    /\ Head(q) = q[1] /\ q[1] \in Entry /\ 1 \in 1 .. Len(q)
    /\ \A i \in 1 .. Len(r) : r[i] = q[i + 1] /\ i + 1 \in 1 .. Len(q)
    /\ \A i \in 1 .. Len(r) : N(r, kind, i) = N(q, kind, i + 1) - One(q[1], kind)
    /\ All(r, kind) = All(q, kind) - One(q[1], kind)
    /\ All(q, kind) \in Nat /\ All(r, kind) \in Nat
LEMMA TailCounts ==
    ASSUME NEW q \in Seq(Entry), q # <<>>, NEW r, r = Tail(q), NEW kind
    PROVE  TailFacts(q, r, kind)
  <1>1. /\ r \in Seq(Entry) /\ Len(q) \in Nat /\ Len(r) = Len(q) - 1 /\ Len(q) >= 1
        /\ Head(q) = q[1] /\ q[1] \in Entry /\ 1 \in 1 .. Len(q)
        /\ \A i \in 1 .. Len(r) : r[i] = q[i + 1] /\ i + 1 \in 1 .. Len(q)
    OBVIOUS
  <1>2. ASSUME NEW i \in 1 .. Len(q)
        PROVE  N(r, kind, i) = N(q, kind, i + 1) - One(q[1], kind)
    <2>1. i \in Nat /\ i >= 1 /\ \A j \in 1 .. i - 1 : r[j] = q[j + 1]
      BY <1>1
    <2> QED BY <2>1, CountShift
  <1>3. All(r, kind) = N(r, kind, Len(q))
    BY <1>1 DEF All
  <1>4. Len(q) \in 1 .. Len(q) /\ Len(q) + 1 \in Nat /\ Len(r) + 1 \in Nat
    BY <1>1
  <1>5. All(r, kind) = All(q, kind) - One(q[1], kind)
    BY <1>2, <1>3, <1>4 DEF All
  <1>6. All(q, kind) \in Nat /\ All(r, kind) \in Nat
    BY <1>4, BeforeFinite DEF All
  <1>7. \A i \in 1 .. Len(r) : i \in 1 .. Len(q)
    BY <1>1
  <1> QED BY <1>1, <1>2, <1>5, <1>6, <1>7 DEF TailFacts

-----------------------------------------------------------------------------
\* What the actions are made of, on good states.

\* The kernel takes the first entry, unless it is a firing.
LEMMA TakeEntry ==
    ASSUME TimeAssumption, NEW t, NEW q, NEW w, NEW rem, Good(t, q, w, rem),
           q # <<>>, Head(q).kind # "fire", NEW r, r = Tail(q)
    PROVE  /\ Good(t, r, w, rem)
           /\ All(r, "fire") = All(q, "fire")
           /\ Has(Head(q)) => Absent(Head(q).sleeper, r, w)
  <1>1. Types(t, q, w, rem)
    BY DEF Good
  <1>2. q \in Seq(Entry)
    BY <1>1 DEF Types
  <1> DEFINE fires(i) == N(r, "fire", i) = N(q, "fire", i + 1)
  <1>3. /\ r \in Seq(Entry) /\ Len(q) \in Nat /\ Len(r) = Len(q) - 1 /\ Len(q) >= 1
        /\ Head(q) = q[1] /\ q[1] \in Entry /\ 1 \in 1 .. Len(q)
        /\ \A i \in 1 .. Len(r) : r[i] = q[i + 1] /\ i + 1 \in 1 .. Len(q)
        /\ \A i \in 1 .. Len(r) : N(r, "fire", i) = N(q, "fire", i + 1) - One(q[1], "fire")
        /\ All(r, "fire") = All(q, "fire") - One(q[1], "fire")
        /\ All(q, "fire") \in Nat
    <2>1. TailFacts(q, r, "fire")
      BY <1>2, TailCounts
    <2> QED BY <2>1 DEF TailFacts
  <1>4. One(q[1], "fire") = 0
    BY <1>3 DEF One
  <1>5. All(r, "fire") = All(q, "fire")
    BY <1>3, <1>4
  <1>6. ASSUME NEW i \in 1 .. Len(r) PROVE fires(i)
    <2>1. i + 1 \in Nat
      BY <1>3
    <2>2. N(q, "fire", i + 1) \in Nat
      BY <2>1, BeforeFinite
    <2> QED BY <1>3, <1>4, <2>2
  <1>7. All(r, "tick") <= All(q, "tick") /\ All(r, "tick") \in Nat /\ All(q, "tick") \in Nat
    <2>1. /\ All(r, "tick") = All(q, "tick") - One(q[1], "tick")
          /\ All(r, "tick") \in Nat /\ All(q, "tick") \in Nat
      BY <1>2, TailCounts DEF TailFacts
    <2> QED BY <2>1 DEF One
  <1>8. Types(t, r, w, rem)
    BY <1>1, <1>3 DEF Types
  <1>9. Unique(r, w, rem)
    <2>1. Unique(q, w, rem)
      BY DEF Good
    <2>2. \A i, j \in 1 .. Len(r) : i + 1 = j + 1 => i = j
      BY <1>3
    <2> QED BY <1>3, <2>1, <2>2 DEF Unique
  <1>10. FireCodes(t, r)
    BY <1>3, <1>5, <1>6 DEF Good, FireCodes
  <1>11. AwaitCodes(t, r, rem)
    BY <1>3, <1>5, <1>6 DEF Good, AwaitCodes
  <1>12. WaitCodes(t, r, w, rem)
    BY <1>5 DEF Good, WaitCodes
  <1>13. Bounds(r, rem)
    BY <1>3, <1>5, <1>7, TimeFacts DEF Good, Bounds
  <1>14. ASSUME Has(Head(q)) PROVE Absent(Head(q).sleeper, r, w)
    <2>1. Unique(q, w, rem)
      BY DEF Good
    <2>2. \A i \in 1 .. Len(r) : i + 1 # 1
      BY <1>3
    <2> QED BY <1>3, <1>14, <2>1, <2>2 DEF Unique, Absent
  <1> QED BY <1>5, <1>8, <1>9, <1>10, <1>11, <1>12, <1>13, <1>14 DEF Good

\* A thread that is in no place may change what it waits for.
LEMMA SetRemaining ==
    ASSUME TimeAssumption, NEW t, NEW q, NEW w, NEW rem, Good(t, q, w, rem),
           NEW s \in Sleepers, Absent(s, q, w), NEW n \in Int, n <= Longest,
           NEW rem2, rem2 = [rem EXCEPT ![s] = n]
    PROVE  Good(t, q, w, rem2)
  <1>1. Types(t, q, w, rem)
    BY DEF Good
  <1>2. /\ rem2 \in [Sleepers -> Int] /\ rem2[s] = n
        /\ \A x \in Sleepers : x # s => rem2[x] = rem[x]
    BY <1>1 DEF Types
  <1>3. \A i \in 1 .. Len(q) : Has(q[i]) => rem2[q[i].sleeper] = rem[q[i].sleeper]
    <2>1. \A i \in 1 .. Len(q) : q[i] \in Entry
      BY <1>1 DEF Types
    <2> QED BY <1>2, <2>1, EntryFields DEF Absent
  <1>4. \A i \in 1 .. Len(w) : rem2[w[i].sleeper] = rem[w[i].sleeper]
    <2>1. \A i \in 1 .. Len(w) : w[i] \in Waiter
      BY <1>1 DEF Types
    <2>2. \A i \in 1 .. Len(w) : w[i].sleeper \in Sleepers
      BY <2>1 DEF Waiter
    <2> QED BY <1>2, <2>2 DEF Absent
  <1>5. Types(t, q, w, rem2)
    BY <1>1, <1>2 DEF Types
  <1>6. Unique(q, w, rem2)
    BY <1>3 DEF Good, Unique
  <1>7. AwaitCodes(t, q, rem2)
    BY <1>3 DEF Good, AwaitCodes, Has
  <1>8. WaitCodes(t, q, w, rem2)
    BY <1>4 DEF Good, WaitCodes
  <1>9. Bounds(q, rem2)
    BY <1>2 DEF Good, Bounds
  <1> QED BY <1>5, <1>6, <1>7, <1>8, <1>9 DEF Good

\* A thread, or the handler of a tick, is queued.
LEMMA QueueEntry ==
    ASSUME TimeAssumption, NEW t, NEW q, NEW w, NEW rem, Good(t, q, w, rem),
           NEW e \in Entry, e.kind # "fire",
           Has(e) => Absent(e.sleeper, q, w) /\ rem[e.sleeper] # Awake,
           e.kind = "tick" => All(q, "tick") + All(q, "fire") < MaxPending,
           e.kind = "await" => /\ rem[e.sleeper] > All(q, "fire")
                               /\ At(e.code, t - All(q, "fire") + rem[e.sleeper]),
           NEW r, r = Append(q, e)
    PROVE  Good(t, r, w, rem)
  <1>1. Types(t, q, w, rem)
    BY DEF Good
  <1>2. q \in Seq(Entry)
    BY <1>1 DEF Types
  <1>3. /\ r \in Seq(Entry) /\ Len(r) = Len(q) + 1 /\ Len(q) \in Nat
        /\ r[Len(q) + 1] = e
        /\ \A i \in 1 .. Len(q) : r[i] = q[i]
        /\ 1 .. Len(r) = (1 .. Len(q)) \cup {Len(q) + 1}
        /\ \A i \in 1 .. Len(q) + 1 : N(r, "fire", i) = N(q, "fire", i)
        /\ All(q, "fire") \in Nat
        /\ All(r, "fire") = All(q, "fire") + One(e, "fire")
    <2>1. Grown(q, e, r)
      BY <1>2, AppendCounts
    <2> QED BY <2>1 DEF Grown
  <1>4. All(r, "fire") = All(q, "fire")
    BY <1>3 DEF One
  <1>5. N(r, "fire", Len(q) + 1) = All(q, "fire")
    BY <1>3 DEF All
  <1>6. \A i \in 1 .. Len(q) : i \in 1 .. Len(q) + 1
    BY <1>3
  <1>7. Types(t, r, w, rem)
    BY <1>1, <1>3 DEF Types
  <1>8. Unique(r, w, rem)
    <2>1. Unique(q, w, rem)
      BY DEF Good
    <2>2. \A i \in 1 .. Len(r) : (i \in 1 .. Len(q) /\ r[i] = q[i]) \/ (i = Len(q) + 1 /\ r[i] = e)
      BY <1>3
    <2>3. Has(e) => /\ \A i \in 1 .. Len(q) : Has(q[i]) => q[i].sleeper # e.sleeper
                    /\ \A i \in 1 .. Len(w) : w[i].sleeper # e.sleeper
                    /\ rem[e.sleeper] # Awake
      BY DEF Absent
    <2> HIDE DEF Has
    <2>4. \A i, j \in 1 .. Len(r) : Has(r[i]) /\ Has(r[j]) /\ r[i].sleeper = r[j].sleeper => i = j
      BY <2>1, <2>2, <2>3 DEF Unique
    <2>5. \A i \in 1 .. Len(r), j \in 1 .. Len(w) : Has(r[i]) => r[i].sleeper # w[j].sleeper
      BY <2>1, <2>2, <2>3 DEF Unique
    <2>6. \A i \in 1 .. Len(r) : Has(r[i]) => rem[r[i].sleeper] # Awake
      BY <2>1, <2>2, <2>3 DEF Unique
    <2> QED BY <2>1, <2>4, <2>5, <2>6 DEF Unique
  <1>9. FireCodes(t, r)
    BY <1>3, <1>4, <1>6 DEF Good, FireCodes
  <1>10. AwaitCodes(t, r, rem)
    <2>1. \A i \in 1 .. Len(q) : r[i].kind = "await" =>
                /\ rem[r[i].sleeper] > N(r, "fire", i)
                /\ At(r[i].code, t - All(r, "fire") + rem[r[i].sleeper])
      BY <1>3, <1>4, <1>6 DEF Good, AwaitCodes
    <2>2. r[Len(q) + 1].kind = "await" =>
                /\ rem[r[Len(q) + 1].sleeper] > N(r, "fire", Len(q) + 1)
                /\ At(r[Len(q) + 1].code, t - All(r, "fire") + rem[r[Len(q) + 1].sleeper])
      BY <1>3, <1>4, <1>5
    <2> QED BY <1>3, <2>1, <2>2 DEF AwaitCodes
  <1>11. WaitCodes(t, r, w, rem)
    BY <1>4 DEF Good, WaitCodes
  <1>12. Bounds(r, rem)
    <2>1. All(r, "tick") = All(q, "tick") + One(e, "tick") /\ All(q, "tick") \in Nat
      <3>1. Grown(q, e, r)
        BY <1>2, AppendCounts
      <3> QED BY <3>1 DEF Grown
    <2> QED BY <1>3, <1>4, <2>1, TimeFacts DEF Good, Bounds, One
  <1> QED BY <1>7, <1>8, <1>9, <1>10, <1>11, <1>12 DEF Good

\* A sleeper's await is put into the event's list.
LEMMA AddWaiter ==
    ASSUME NEW t, NEW q, NEW w, NEW rem, Good(t, q, w, rem),
           NEW c \in Waiter, Absent(c.sleeper, q, w), rem[c.sleeper] > 0,
           At(c.code, t - All(q, "fire") + rem[c.sleeper]),
           NEW v, v = Append(w, c)
    PROVE  Good(t, q, v, rem)
  <1>1. Types(t, q, w, rem)
    BY DEF Good
  <1>2. w \in Seq(Waiter)
    BY <1>1 DEF Types
  <1>3. /\ v \in Seq(Waiter) /\ Len(v) = Len(w) + 1 /\ Len(w) \in Nat
        /\ v[Len(w) + 1] = c
        /\ \A i \in 1 .. Len(w) : v[i] = w[i]
        /\ 1 .. Len(v) = (1 .. Len(w)) \cup {Len(w) + 1}
    BY <1>2
  <1>4. Types(t, q, v, rem)
    BY <1>1, <1>3 DEF Types
  <1>5. Unique(q, v, rem)
    BY <1>3 DEF Good, Unique, Absent
  <1>6. WaitCodes(t, q, v, rem)
    BY <1>3 DEF Good, WaitCodes
  <1> QED BY <1>4, <1>5, <1>6 DEF Good

\* The time after a tick.
LEMMA NextTime ==
    ASSUME TimeAssumption, NEW t \in Times
    PROVE  /\ (t + 1) % TimeMod \in Times
           /\ (t + 1) % TimeMod \in {t + 1, t + 1 - TimeMod}
  <1>1. t \in 0 .. TimeMod - 1 /\ TimeMod \in Nat /\ TimeMod > 1
    BY TimeFacts DEF Times
  <1>2. CASE t < TimeMod - 1
    <2>1. t + 1 \in 0 .. TimeMod - 1
      BY <1>1, <1>2
    <2>2. (t + 1) % TimeMod = t + 1
      BY <1>1, <2>1
    <2> QED BY <2>1, <2>2 DEF Times
  <1>3. CASE t = TimeMod - 1
    <2>1. (t + 1) % TimeMod = 0
      BY <1>1, <1>3
    <2> QED BY <1>1, <1>3, <2>1 DEF Times
  <1> QED BY <1>1, <1>2, <1>3

\* The interrupt handler counts a tick and queues the firing of the new time.
\* At the wrap, all codes are one round ahead.
LEMMA QueueFire ==
    ASSUME TimeAssumption, NEW t, NEW q, NEW w, NEW rem, Good(t, q, w, rem),
           All(q, "tick") + All(q, "fire") < MaxPending,
           NEW t2 \in Times, t2 \in {t + 1, t + 1 - TimeMod},
           NEW r, r = Append(q, Fire(t2))
    PROVE  Good(t2, r, w, rem)
  <1>1. Types(t, q, w, rem)
    BY DEF Good
  <1>2. q \in Seq(Entry)
    BY <1>1 DEF Types
  <1>3. /\ t \in Times /\ t \in Int /\ t2 \in Int
        /\ t2 = t + 1 \/ t2 = t + 1 - TimeMod
    BY <1>1, TimeFacts DEF Types, Times
  <1>4. PICK e \in Entry : e = Fire(t2) /\ e.kind = "fire" /\ e.code = t2
    BY <1>3 DEF Fire, Entry
  <1>5. /\ r \in Seq(Entry) /\ Len(r) = Len(q) + 1 /\ Len(q) \in Nat
        /\ r[Len(q) + 1] = e
        /\ \A i \in 1 .. Len(q) : r[i] = q[i]
        /\ 1 .. Len(r) = (1 .. Len(q)) \cup {Len(q) + 1}
        /\ \A i \in 1 .. Len(q) + 1 : N(r, "fire", i) = N(q, "fire", i)
        /\ All(q, "fire") \in Nat
        /\ All(r, "fire") = All(q, "fire") + One(e, "fire")
    <2>1. Grown(q, e, r)
      BY <1>2, <1>4, AppendCounts
    <2> QED BY <2>1 DEF Grown
  <1>6. All(r, "fire") = All(q, "fire") + 1
    BY <1>4, <1>5 DEF One
  <1>7. N(r, "fire", Len(q) + 1) = All(q, "fire")
    BY <1>5 DEF All
  <1>8. All(q, "tick") \in Nat /\ All(r, "tick") = All(q, "tick")
    <2>1. All(q, "tick") \in Nat /\ All(r, "tick") = All(q, "tick") + One(e, "tick")
      <3>1. Grown(q, e, r)
        BY <1>2, <1>4, AppendCounts
      <3> QED BY <3>1 DEF Grown
    <2> QED BY <1>4, <2>1 DEF One
  <1> DEFINE base == t - All(q, "fire")
             base2 == t2 - All(r, "fire")
  <1>9. /\ base \in Int /\ base2 \in Int
        /\ base2 = base \/ base2 = base - TimeMod
        /\ base >= 0 - MaxPending /\ base2 >= 0 - MaxPending
    <2>1. PICK f \in Nat : f = All(q, "fire") /\ f + 1 = All(r, "fire") /\ f < MaxPending
      BY <1>5, <1>6, <1>8, TimeFacts
    <2>2. t \in Nat /\ t2 \in Nat /\ MaxPending \in Nat /\ TimeMod \in Nat
      BY <1>3, TimeFacts DEF Times
    <2>3. base = t - f /\ base2 = t2 - (f + 1)
      BY <2>1
    <2> HIDE DEF base, base2
    <2> QED BY <1>3, <2>1, <2>2, <2>3
  <1>10. ASSUME NEW code \in Times, NEW d \in Int, d > 0, d <= Longest, At(code, base + d)
         PROVE  At(code, base2 + d)
    <2> HIDE DEF base, base2
    <2>1. MaxPending \in Nat /\ TimeMod \in Nat /\ Longest \in Nat
      BY TimeFacts
    <2>2. MaxPending < TimeMod /\ Longest < TimeMod /\ code \in 0 .. TimeMod - 1
      BY <1>10, TimeFacts DEF Times
    <2>3. PICK x \in Int : x = base + d /\ x > 0 - TimeMod
      BY <1>9, <1>10, <2>1, <2>2
    <2>4. PICK y \in Int : y = base2 + d /\ y > 0 - TimeMod
      BY <1>9, <1>10, <2>1, <2>2
    <2>5. y = x \/ y = x - TimeMod
      BY <1>9, <2>1, <2>3, <2>4
    <2>6. code \in {x, x - TimeMod, x + TimeMod}
      BY <1>10, <2>3 DEF At
    <2>7. code \in {y, y - TimeMod, y + TimeMod}
      BY <2>1, <2>2, <2>3, <2>4, <2>5, <2>6
    <2> QED BY <2>4, <2>7 DEF At
  <1> HIDE DEF base, base2
  <1>11. Types(t2, r, w, rem)
    BY <1>1, <1>3, <1>5 DEF Types
  <1>12. Unique(r, w, rem)
    BY <1>4, <1>5 DEF Good, Unique, Has
  <1>13. FireCodes(t2, r)
    <2>1. ASSUME NEW i \in 1 .. Len(q), r[i].kind = "fire"
          PROVE  At(r[i].code, base2 + N(r, "fire", i) + 1)
      <3>1. PICK n \in Nat : n = N(q, "fire", i) /\ n = N(r, "fire", i)
        <4>1. i \in Nat /\ i \in 1 .. Len(q) + 1
          BY <1>5
        <4> QED BY <1>5, <4>1, BeforeFinite
      <3>2. n <= All(q, "fire")
        BY <1>5, <3>1, CountMono DEF All
      <3>3. PICK d \in Int : d = n + 1 /\ d > 0 /\ d <= Longest
        <4>1. n < MaxPending /\ MaxPending \in Nat /\ Longest \in Nat /\ MaxPending < Longest
          BY <1>5, <1>8, <3>1, <3>2, TimeFacts
        <4> QED BY <3>1, <4>1
      <3>4. q[i].code \in Times
        BY <1>2, <1>5, <2>1, EntryFields
      <3>5. At(q[i].code, base + n + 1)
        BY <1>5, <2>1, <3>1 DEF Good, FireCodes, base
      <3>6. base + n + 1 = base + d /\ base2 + n + 1 = base2 + d
        BY <1>9, <3>1, <3>3
      <3>7. At(q[i].code, base2 + d)
        BY <1>10, <3>3, <3>4, <3>5, <3>6
      <3> QED BY <1>5, <3>1, <3>6, <3>7
    <2>2. At(e.code, base2 + All(q, "fire") + 1)
      <3>1. base2 + All(q, "fire") + 1 = t2
        BY <1>3, <1>5, <1>6 DEF base2
      <3> QED BY <1>4, <3>1 DEF At
    <2> QED BY <1>5, <1>7, <2>1, <2>2 DEF FireCodes, base2
  <1>14. AwaitCodes(t2, r, rem)
    <2>1. ASSUME NEW i \in 1 .. Len(q), q[i].kind = "await"
          PROVE  At(q[i].code, base2 + rem[q[i].sleeper]) /\ rem[q[i].sleeper] > N(r, "fire", i)
      <3>1. q[i] \in Entry /\ i \in Nat /\ i \in 1 .. Len(q) + 1
        BY <1>2, <1>5
      <3>2. q[i].code \in Times /\ q[i].sleeper \in Sleepers
        BY <2>1, <3>1, EntryFields DEF Has
      <3>3. PICK d \in Int : d = rem[q[i].sleeper]
        BY <1>1, <3>2 DEF Types
      <3>4. N(q, "fire", i) \in Nat /\ d > N(q, "fire", i) /\ At(q[i].code, base + d)
        BY <2>1, <3>1, <3>3, BeforeFinite DEF Good, AwaitCodes, base
      <3>5. d > 0 /\ d <= Longest
        BY <3>2, <3>3, <3>4 DEF Good, Bounds
      <3> QED BY <1>5, <1>10, <3>1, <3>2, <3>3, <3>4, <3>5
    <2> QED BY <1>4, <1>5, <2>1 DEF AwaitCodes, base2
  <1>15. WaitCodes(t2, r, w, rem)
    <2>1. ASSUME NEW i \in 1 .. Len(w)
          PROVE  At(w[i].code, base2 + rem[w[i].sleeper]) /\ rem[w[i].sleeper] > 0
      <3>1. w[i] \in Waiter
        BY <1>1 DEF Types
      <3>2. w[i].code \in Times /\ w[i].sleeper \in Sleepers
        BY <3>1 DEF Waiter
      <3>3. PICK d \in Int : d = rem[w[i].sleeper]
        BY <1>1, <3>2 DEF Types
      <3>4. d > 0 /\ d <= Longest /\ At(w[i].code, base + d)
        BY <3>2, <3>3 DEF Good, Bounds, WaitCodes, base
      <3> QED BY <1>10, <3>2, <3>3, <3>4
    <2> QED BY <2>1 DEF WaitCodes, base2
  <1>16. Bounds(r, rem)
    BY <1>5, <1>6, <1>8, TimeFacts DEF Good, Bounds
  <1> QED BY <1>11, <1>12, <1>13, <1>14, <1>15, <1>16 DEF Good

\* Two codes of one time are the same.
LEMMA SameCode ==
    ASSUME TimeAssumption, NEW c \in Times, NEW d \in Times, NEW x \in Int,
           At(c, x), At(d, x)
    PROVE  c = d
  <1>1. TimeMod \in Nat /\ c \in 0 .. TimeMod - 1 /\ d \in 0 .. TimeMod - 1
    BY TimeFacts DEF Times
  <1>2. c \in {x, x - TimeMod, x + TimeMod} /\ d \in {x, x - TimeMod, x + TimeMod}
    BY DEF At
  <1> QED BY <1>1, <1>2

\* A code is announced once in the longest sleep.
LEMMA SameTime ==
    ASSUME TimeAssumption, NEW c \in Times, NEW x \in Int, NEW d \in Int,
           d > 0, d <= Longest, At(c, x + 1), At(c, x + d)
    PROVE  d = 1
  <1>1. TimeMod \in Nat /\ Longest \in Nat /\ Longest < TimeMod /\ TimeMod > 1
        /\ c \in 0 .. TimeMod - 1
    BY TimeFacts DEF Times
  <1>2. /\ c \in {x + 1, (x + 1) - TimeMod, (x + 1) + TimeMod}
        /\ c \in {x + d, (x + d) - TimeMod, (x + d) + TimeMod}
    BY DEF At
  <1> QED BY <1>1, <1>2

Decreased(rem) == [s \in Sleepers |-> IF rem[s] > 0 THEN rem[s] - 1 ELSE rem[s]]

\* The firing at the head of the queue announces the next time: a sleeper with
\* that target has one firing to go, and, unless its code is 0, a sleeper that
\* accepts the code has that target.
LEMMA HeadFires ==
    ASSUME TimeAssumption, NEW t, NEW q, NEW w, NEW rem, Good(t, q, w, rem),
           q # <<>>, Head(q).kind = "fire", NEW i \in 1 .. Len(w)
    PROVE  /\ Head(q).code \in Times
           /\ w[i] \in Waiter
           /\ rem[w[i].sleeper] \in Int /\ rem[w[i].sleeper] > 0
           /\ rem[w[i].sleeper] = 1 => w[i].code = Head(q).code
           /\ w[i].code = Head(q).code => rem[w[i].sleeper] = 1
  <1>1. Types(t, q, w, rem)
    BY DEF Good
  <1>2. q \in Seq(Entry) /\ w \in Seq(Waiter)
    BY <1>1 DEF Types
  <1>3. Head(q) = q[1] /\ q[1] \in Entry /\ 1 \in 1 .. Len(q) /\ All(q, "fire") \in Nat
    BY <1>2, TailCounts DEF TailFacts
  <1>4. PICK code \in Times : code = Head(q).code
    BY <1>3, EntryFields
  <1>5. w[i] \in Waiter
    BY <1>2
  <1>6. w[i].sleeper \in Sleepers /\ w[i].code \in Times
    BY <1>5 DEF Waiter
  <1>7. PICK d \in Int : d = rem[w[i].sleeper]
    BY <1>1, <1>6 DEF Types
  <1>8. PICK x \in Int : x = t - All(q, "fire")
    BY <1>1, <1>3, TimeFacts DEF Types, Times
  <1>9. d > 0 /\ d <= Longest /\ At(w[i].code, x + d)
    BY <1>6, <1>7, <1>8 DEF Good, WaitCodes, Bounds
  <1>10. At(code, x + 1)
    <2>1. N(q, "fire", 1) = 0
      BY CountFirst
    <2>2. At(code, x + 0 + 1)
      BY <1>3, <1>4, <1>8, <2>1 DEF Good, FireCodes
    <2> QED BY <2>2
  <1>11. d = 1 => w[i].code = code
    BY <1>6, <1>9, <1>10, SameCode
  <1>12. w[i].code = code => d = 1
    BY <1>9, <1>10, SameTime
  <1> QED BY <1>4, <1>5, <1>7, <1>9, <1>11, <1>12

\* The firing is taken and the waiting calls that accept it are removed.
Fired(t, r, x, rem) ==
    /\ Good(t, r, x.kept, rem)
    /\ \A i \in 1 .. Len(x.woken) :
            /\ x.woken[i].kind = "woken"
            /\ Absent(x.woken[i].sleeper, r, x.kept)
            /\ rem[x.woken[i].sleeper] # Awake
LEMMA TakeFire ==
    ASSUME TimeAssumption, NEW t, NEW q, NEW rem, Good(t, q, waiting, rem),
           q # <<>>, Head(q).kind = "fire", NEW r, r = Tail(q),
           NEW x, Sorted(x, Len(waiting), Head(q).code),
           NEW rem2, rem2 = Decreased(rem)
    PROVE  Fired(t, r, x, rem2)
  <1>1. Types(t, q, waiting, rem)
    BY DEF Good
  <1>2. q \in Seq(Entry) /\ waiting \in Seq(Waiter)
    BY <1>1 DEF Types
  <1>3. /\ r \in Seq(Entry) /\ Len(q) \in Nat /\ Len(r) = Len(q) - 1 /\ Len(q) >= 1
        /\ Head(q) = q[1] /\ q[1] \in Entry /\ 1 \in 1 .. Len(q)
        /\ \A i \in 1 .. Len(r) : r[i] = q[i + 1] /\ i + 1 \in 1 .. Len(q)
        /\ \A i \in 1 .. Len(r) : N(r, "fire", i) = N(q, "fire", i + 1) - One(q[1], "fire")
        /\ All(r, "fire") = All(q, "fire") - One(q[1], "fire")
        /\ All(q, "fire") \in Nat /\ All(r, "fire") \in Nat
    <2>1. TailFacts(q, r, "fire")
      BY <1>2, TailCounts
    <2> QED BY <2>1 DEF TailFacts
  <1>4. One(q[1], "fire") = 1
    BY <1>3 DEF One
  <1>5. ASSUME NEW i \in 1 .. Len(r)
        PROVE  /\ N(r, "fire", i) = N(q, "fire", i + 1) - 1
               /\ N(r, "fire", i) \in Nat /\ N(q, "fire", i + 1) \in Nat
    <2>1. i \in Nat /\ i + 1 \in Nat
      BY <1>3
    <2> QED BY <1>3, <1>4, <2>1, BeforeFinite
  <1>6. PICK x0 \in Int : x0 = t - All(q, "fire") /\ x0 + 1 = t - All(r, "fire")
    <2>1. t \in Int
      BY <1>1, TimeFacts DEF Types, Times
    <2> QED BY <1>3, <1>4, <2>1
  <1>7. rem2 \in [Sleepers -> Int]
        /\ \A s \in Sleepers :
                /\ rem[s] \in Int
                /\ rem2[s] = IF rem[s] > 0 THEN rem[s] - 1 ELSE rem[s]
    BY <1>1 DEF Types, Decreased
  <1>8. \A s \in Sleepers : rem[s] # Awake => rem2[s] # Awake
    BY <1>7 DEF Awake
  <1>9. \A i \in 1 .. Len(r) : r[i] \in Entry
    BY <1>3
  <1>10. PICK kept \in Seq(Waiter), woken \in Seq(Entry) : kept = x.kept /\ woken = x.woken
    BY DEF Sorted
  <1>11. ASSUME NEW i \in 1 .. Len(kept)
         PROVE  \E m \in 1 .. Len(waiting) :
                    kept[i] = waiting[m] /\ ~Accepts(waiting[m], Head(q).code)
    BY <1>10 DEF Sorted
  <1>12. ASSUME NEW i \in 1 .. Len(woken)
         PROVE  \E m \in 1 .. Len(waiting) :
                    woken[i] = Woken(waiting[m].sleeper) /\ Accepts(waiting[m], Head(q).code)
    BY <1>10 DEF Sorted
  <1>13. Unique(q, waiting, rem)
    BY DEF Good
  <1>14. Types(t, r, kept, rem2)
    BY <1>1, <1>3, <1>7 DEF Types
  <1>15. Unique(r, kept, rem2)
    <2>1. \A i, j \in 1 .. Len(r) :
                Has(r[i]) /\ Has(r[j]) /\ r[i].sleeper = r[j].sleeper => i = j
      <3>1. \A i, j \in 1 .. Len(r) : i + 1 = j + 1 => i = j
        BY <1>3
      <3> QED BY <1>3, <1>13, <3>1 DEF Unique
    <2>2. \A i \in 1 .. Len(r), j \in 1 .. Len(kept) : Has(r[i]) => r[i].sleeper # kept[j].sleeper
      BY <1>3, <1>11, <1>13 DEF Unique
    <2>3. \A i, j \in 1 .. Len(kept) : kept[i].sleeper = kept[j].sleeper => i = j
      BY <1>10 DEF Sorted
    <2>4. \A i \in 1 .. Len(r) : Has(r[i]) => rem2[r[i].sleeper] # Awake
      <3>1. \A i \in 1 .. Len(r) : Has(r[i]) =>
                r[i].sleeper \in Sleepers /\ rem[r[i].sleeper] # Awake
        BY <1>3, <1>9, <1>13, EntryFields DEF Unique
      <3> QED BY <1>8, <3>1
    <2> QED BY <2>1, <2>2, <2>3, <2>4 DEF Unique
  <1>16. FireCodes(t, r)
    <2>1. SUFFICES ASSUME NEW i \in 1 .. Len(r), r[i].kind = "fire"
                   PROVE  At(r[i].code, (x0 + 1) + N(r, "fire", i) + 1)
      BY <1>6 DEF FireCodes
    <2>2. At(r[i].code, x0 + N(q, "fire", i + 1) + 1)
      BY <1>3, <1>6, <2>1 DEF Good, FireCodes
    <2>3. (x0 + 1) + N(r, "fire", i) + 1 = x0 + N(q, "fire", i + 1) + 1
      BY <1>5
    <2> QED BY <2>2, <2>3
  <1>17. AwaitCodes(t, r, rem2)
    <2>1. SUFFICES ASSUME NEW i \in 1 .. Len(r), r[i].kind = "await"
                   PROVE  /\ rem2[r[i].sleeper] > N(r, "fire", i)
                          /\ At(r[i].code, (x0 + 1) + rem2[r[i].sleeper])
      BY <1>6 DEF AwaitCodes
    <2>2. r[i].sleeper \in Sleepers
      BY <1>9, <2>1, EntryFields DEF Has
    <2>3. rem[r[i].sleeper] > N(q, "fire", i + 1) /\ At(r[i].code, x0 + rem[r[i].sleeper])
      BY <1>3, <1>6, <2>1 DEF Good, AwaitCodes
    <2>4. PICK d \in Int : d = rem[r[i].sleeper]
      BY <1>7, <2>2
    <2>5. rem2[r[i].sleeper] = d - 1 /\ d - 1 > N(r, "fire", i)
      <3>1. PICK n \in Nat : n = N(r, "fire", i) /\ n + 1 = N(q, "fire", i + 1)
        BY <1>5
      <3>2. d > n + 1
        BY <2>3, <2>4, <3>1
      <3>3. d > 0 /\ d - 1 > n
        BY <3>2
      <3> QED BY <1>7, <2>2, <2>4, <3>1, <3>3
    <2>6. (x0 + 1) + (d - 1) = x0 + d
      OBVIOUS
    <2> QED BY <2>3, <2>4, <2>5, <2>6
  <1>18. WaitCodes(t, r, kept, rem2)
    <2>1. SUFFICES ASSUME NEW i \in 1 .. Len(kept)
                   PROVE  /\ rem2[kept[i].sleeper] > 0
                          /\ At(kept[i].code, (x0 + 1) + rem2[kept[i].sleeper])
      BY <1>6 DEF WaitCodes
    <2>2. PICK m \in 1 .. Len(waiting) :
                kept[i] = waiting[m] /\ ~Accepts(waiting[m], Head(q).code)
      BY <1>11
    <2>3. PICK d \in Int : d = rem[kept[i].sleeper] /\ d > 0 /\ kept[i] \in Waiter
      BY <2>2, HeadFires
    <2>4. d # 1
      BY <2>2, <2>3, HeadFires DEF Accepts
    <2>5. At(kept[i].code, x0 + d)
      BY <1>6, <2>2, <2>3 DEF Good, WaitCodes
    <2>6. kept[i].sleeper \in Sleepers
      BY <2>3 DEF Waiter
    <2>7. rem2[kept[i].sleeper] = d - 1 /\ d - 1 > 0
      BY <1>7, <2>3, <2>4, <2>6
    <2>8. (x0 + 1) + (d - 1) = x0 + d
      OBVIOUS
    <2> QED BY <2>5, <2>7, <2>8
  <1>19. Bounds(r, rem2)
    <2>1. All(r, "tick") = All(q, "tick") - One(q[1], "tick") /\ All(q, "tick") \in Nat
      <3>1. TailFacts(q, r, "tick")
        BY <1>2, TailCounts
      <3> QED BY <3>1 DEF TailFacts
    <2>2. All(r, "tick") + All(r, "fire") <= MaxPending
      <3>1. PICK a, b \in Nat : a = All(q, "tick") /\ b = All(q, "fire")
        BY <1>3, <2>1
      <3>2. One(q[1], "tick") = 0
        BY <1>3 DEF One
      <3>3. All(r, "tick") = a /\ All(r, "fire") = b - 1
        BY <1>3, <1>4, <2>1, <3>1, <3>2
      <3>4. a + b <= MaxPending
        BY <3>1 DEF Good, Bounds
      <3>5. MaxPending \in Nat
        BY TimeFacts
      <3>6. a + (b - 1) <= MaxPending
        BY <3>4, <3>5
      <3> QED BY <3>3, <3>6
    <2>3. ASSUME NEW s \in Sleepers PROVE rem2[s] <= Longest
      <3>1. PICK d \in Int : d = rem[s] /\ d <= Longest
        BY <1>7 DEF Good, Bounds
      <3>2. Longest \in Nat
        BY TimeFacts
      <3>3. rem2[s] = d \/ rem2[s] = d - 1
        BY <1>7, <3>1
      <3> QED BY <3>1, <3>2, <3>3
    <2> QED BY <2>2, <2>3 DEF Bounds
  <1>20. ASSUME NEW i \in 1 .. Len(woken)
         PROVE  /\ woken[i].kind = "woken"
                /\ Absent(woken[i].sleeper, r, kept)
                /\ rem2[woken[i].sleeper] # Awake
    <2>1. PICK m \in 1 .. Len(waiting) :
                woken[i] = Woken(waiting[m].sleeper) /\ Accepts(waiting[m], Head(q).code)
      BY <1>12
    <2>2. woken[i].kind = "woken" /\ woken[i].sleeper = waiting[m].sleeper
      BY <2>1 DEF Woken
    <2>3. \A j \in 1 .. Len(r) : Has(r[j]) => r[j].sleeper # waiting[m].sleeper
      BY <1>3, <1>13 DEF Unique
    <2>4. ASSUME NEW j \in 1 .. Len(kept) PROVE kept[j].sleeper # waiting[m].sleeper
      <3>1. PICK k \in 1 .. Len(waiting) :
                kept[j] = waiting[k] /\ ~Accepts(waiting[k], Head(q).code)
        BY <1>11
      <3>2. k # m
        BY <2>1, <3>1
      <3> QED BY <1>13, <3>1, <3>2 DEF Unique
    <2>5. waiting[m].sleeper \in Sleepers /\ rem[waiting[m].sleeper] > 0
      BY HeadFires DEF Waiter
    <2>6. rem2[waiting[m].sleeper] # Awake
      BY <1>7, <2>5 DEF Awake
    <2> QED BY <2>2, <2>3, <2>4, <2>6 DEF Absent
  <1>21. FireCodes(t, r) /\ Good(t, r, kept, rem2)
    BY <1>14, <1>15, <1>16, <1>17, <1>18, <1>19 DEF Good
  <1> QED BY <1>10, <1>20, <1>21 DEF Fired

\* The threads that a firing wakes are queued together.
LEMMA QueueWoken ==
    ASSUME NEW t, NEW q, NEW w, NEW rem, Good(t, q, w, rem),
           NEW v \in Seq(Entry),
           \A i \in 1 .. Len(v) : /\ v[i].kind = "woken"
                                  /\ Absent(v[i].sleeper, q, w)
                                  /\ rem[v[i].sleeper] # Awake,
           \A i, j \in 1 .. Len(v) : v[i].sleeper = v[j].sleeper => i = j,
           NEW r, r = q \o v
    PROVE  Good(t, r, w, rem)
  <1>1. Types(t, q, w, rem) /\ Unique(q, w, rem)
    BY DEF Good
  <1>2. q \in Seq(Entry)
    BY <1>1 DEF Types
  <1>3. /\ r \in Seq(Entry) /\ Len(q) \in Nat /\ Len(v) \in Nat
        /\ Len(r) = Len(q) + Len(v)
        /\ \A i \in 1 .. Len(q) : r[i] = q[i]
        /\ \A i \in Len(q) + 1 .. Len(r) : r[i] = v[i - Len(q)] /\ i - Len(q) \in 1 .. Len(v)
    BY <1>2
  <1>4. \A i \in 1 .. Len(r) : i \in 1 .. Len(q) \/ i \in Len(q) + 1 .. Len(r)
    BY <1>3
  <1>5. \A i \in Len(q) + 1 .. Len(r) :
            /\ r[i].kind = "woken"
            /\ Absent(r[i].sleeper, q, w)
            /\ rem[r[i].sleeper] # Awake
    BY <1>3
  <1>6. ASSUME NEW kind \in {"tick", "fire"} PROVE All(r, kind) = All(q, kind)
    <2>1. PICK a \in Nat, b \in Nat : a = Len(q) + 1 /\ b = Len(r) + 1 /\ a <= b
      BY <1>3
    <2>2. \A j \in a .. b - 1 : r[j].kind # kind
      BY <1>3, <1>5, <2>1
    <2>3. N(r, kind, b) = N(r, kind, a)
      BY <2>1, <2>2, CountOthers
    <2>4. N(r, kind, a) = N(q, kind, a)
      <3>1. \A j \in 1 .. a - 1 : r[j] = q[j]
        BY <1>3, <2>1
      <3>2. Before(r, kind, a) = Before(q, kind, a)
        BY <3>1 DEF Before
      <3> QED BY <3>2 DEF N
    <2> QED BY <2>1, <2>3, <2>4 DEF All
  <1>7. ASSUME NEW i \in 1 .. Len(q) PROVE N(r, "fire", i) = N(q, "fire", i)
    <2>1. i \in Nat /\ \A j \in 1 .. i - 1 : r[j] = q[j]
      BY <1>3
    <2>2. Before(r, "fire", i) = Before(q, "fire", i)
      BY <2>1 DEF Before
    <2> QED BY <2>2 DEF N
  <1>8. Types(t, r, w, rem)
    BY <1>1, <1>3 DEF Types
  <1>9. Unique(r, w, rem)
    <2>1. ASSUME NEW i \in 1 .. Len(r), NEW j \in 1 .. Len(r),
                 Has(r[i]), Has(r[j]), r[i].sleeper = r[j].sleeper
          PROVE  i = j
      <3>1. CASE i \in 1 .. Len(q) /\ j \in 1 .. Len(q)
        BY <1>1, <1>3, <2>1, <3>1 DEF Unique
      <3>2. CASE i \in 1 .. Len(q) /\ j \in Len(q) + 1 .. Len(r)
        BY <1>3, <1>5, <2>1, <3>2 DEF Absent
      <3>3. CASE i \in Len(q) + 1 .. Len(r) /\ j \in 1 .. Len(q)
        BY <1>3, <1>5, <2>1, <3>3 DEF Absent
      <3>4. CASE i \in Len(q) + 1 .. Len(r) /\ j \in Len(q) + 1 .. Len(r)
        <4>1. i - Len(q) = j - Len(q)
          BY <1>3, <2>1, <3>4
        <4> QED BY <1>3, <4>1
      <3> QED BY <1>4, <3>1, <3>2, <3>3, <3>4
    <2>2. \A i \in 1 .. Len(r), j \in 1 .. Len(w) : Has(r[i]) => r[i].sleeper # w[j].sleeper
      BY <1>1, <1>3, <1>4, <1>5 DEF Unique, Absent
    <2>3. \A i \in 1 .. Len(r) : Has(r[i]) => rem[r[i].sleeper] # Awake
      BY <1>1, <1>3, <1>4, <1>5 DEF Unique
    <2> QED BY <1>1, <2>1, <2>2, <2>3 DEF Unique
  <1>10. FireCodes(t, r)
    BY <1>3, <1>4, <1>5, <1>6, <1>7 DEF Good, FireCodes
  <1>11. AwaitCodes(t, r, rem)
    BY <1>3, <1>4, <1>5, <1>6, <1>7 DEF Good, AwaitCodes
  <1>12. WaitCodes(t, r, w, rem)
    BY <1>6 DEF Good, WaitCodes
  <1>13. Bounds(r, rem)
    BY <1>6 DEF Good, Bounds
  <1> QED BY <1>8, <1>9, <1>10, <1>11, <1>12, <1>13 DEF Good

\* What is counted in the queue.
LEMMA CountAll ==
    ASSUME queue \in Seq(Entry), NEW kind
    PROVE  Count(kind) = All(queue, kind)
  <1>1. {i \in DOMAIN queue : queue[i].kind = kind} = Before(queue, kind, Len(queue) + 1)
    BY DEF Before
  <1> QED BY <1>1 DEF Count, All, N

\* A sleep takes at least one tick, and no more than the longest duration does.
LEMMA TicksBounds ==
    ASSUME TimeAssumption, NEW millis \in Millis
    PROVE  /\ Ticks(millis) \in Nat /\ Ticks(millis) >= 1
           /\ Ticks(millis) <= (TimeMod - 1) \div 10 + 1
  <1>1. TimeMod \in Nat /\ TimeMod > 1 /\ millis \in 0 .. TimeMod - 1
    BY DEF TimeAssumption
  <1>2. PICK x \in Nat : x = (millis - 1) % TimeMod /\ x <= TimeMod - 1
    <2>1. (millis - 1) % TimeMod \in 0 .. TimeMod - 1
      BY <1>1
    <2> QED BY <1>1, <2>1
  <1>3. PICK y \in Nat : y = TimeMod - 1
    BY <1>1
  <1>4. x \div 10 \in Nat /\ y \div 10 \in Nat /\ x \div 10 <= y \div 10
    BY <1>2, <1>3
  <1> QED BY <1>2, <1>3, <1>4 DEF Ticks

-----------------------------------------------------------------------------
\* The invariant, action by action.

LEMMA NewEntries ==
    ASSUME NEW s \in Sleepers, NEW millis \in Millis, NEW code \in Times
    PROVE  /\ SleepRun(s, millis) \in Entry
           /\ SleepRun(s, millis).kind = "sleep" /\ SleepRun(s, millis).sleeper = s
           /\ Await(s, code) \in Entry
           /\ Await(s, code).kind = "await"
           /\ Await(s, code).sleeper = s /\ Await(s, code).code = code
  <1>1. SleepRun(s, millis) \in Entry /\ Await(s, code) \in Entry
    BY DEF SleepRun, Await, Entry
  <1> QED BY <1>1 DEF SleepRun, Await

LEMMA InitGood ==
    ASSUME TimeAssumption, Init
    PROVE  PitInv
  <1>1. Types(systemTime, queue, waiting, remaining)
    BY DEF Init, Types, Awake
  <1>2. Len(queue) = 0 /\ Len(waiting) = 0 /\ 1 .. 0 = {} /\ 0 + 1 = 1
    BY DEF Init
  <1>3. All(queue, "tick") = 0 /\ All(queue, "fire") = 0
    BY <1>2, CountFirst DEF All
  <1>4. Bounds(queue, remaining)
    BY <1>3, TimeFacts DEF Bounds, Init, Awake
  <1> QED BY <1>1, <1>2, <1>4 DEF PitInv, Good, Unique, FireCodes, AwaitCodes, WaitCodes

LEMMA TickGood ==
    ASSUME TimeAssumption, PitInv, Tick
    PROVE  PitInv'
  <1>1. Types(systemTime, queue, waiting, remaining)
    BY DEF PitInv, Good
  <1>2. queue \in Seq(Entry)
    BY <1>1 DEF Types
  <1>3. All(queue, "tick") + All(queue, "fire") < MaxPending
    BY <1>2, CountAll DEF Tick
  <1>4. PICK e \in Entry : e = TickRun /\ e.kind = "tick" /\ ~Has(e)
    <2>1. TickRun \in Entry
      BY DEF TickRun, Entry
    <2>2. TickRun.kind = "tick" /\ ~Has(TickRun)
      BY DEF TickRun, Has
    <2> QED BY <2>1, <2>2
  <1>5. PICK r : r = Append(queue, e)
    OBVIOUS
  <1>6. Good(systemTime, r, waiting, remaining)
    BY <1>3, <1>4, <1>5, QueueEntry DEF PitInv
  <1>7. r = queue' /\ systemTime' = systemTime /\ waiting' = waiting /\ remaining' = remaining
    BY <1>4, <1>5 DEF Tick
  <1> QED BY <1>6, <1>7 DEF PitInv

LEMMA RequestGood ==
    ASSUME TimeAssumption, PitInv, NEW s \in Sleepers, NEW millis \in Millis,
           Request(s, millis)
    PROVE  PitInv'
  <1>1. Types(systemTime, queue, waiting, remaining) /\ Unique(queue, waiting, remaining)
        /\ WaitCodes(systemTime, queue, waiting, remaining)
    BY DEF PitInv, Good
  <1>2. Absent(s, queue, waiting)
    BY <1>1 DEF Request, Absent, Unique, WaitCodes, Awake
  <1>3. PICK rem : rem = [remaining EXCEPT ![s] = Asked]
    OBVIOUS
  <1>4. Good(systemTime, queue, waiting, rem)
    <2>1. Asked \in Int /\ Asked <= Longest
      BY TimeFacts DEF Asked
    <2> QED BY <1>2, <1>3, <2>1, SetRemaining DEF PitInv
  <1>5. rem[s] # Awake
    BY <1>1, <1>3 DEF Types, Asked, Awake
  <1>6. PICK e \in Entry : e = SleepRun(s, millis) /\ e.kind = "sleep" /\ e.sleeper = s
    <2>1. 0 \in Times
      BY TimeFacts DEF Times
    <2> QED BY <2>1, NewEntries
  <1>7. PICK r : r = Append(queue, e)
    OBVIOUS
  <1>8. Good(systemTime, r, waiting, rem)
    BY <1>2, <1>4, <1>5, <1>6, <1>7, QueueEntry
  <1>9. r = queue' /\ systemTime' = systemTime /\ waiting' = waiting /\ remaining' = rem
    BY <1>3, <1>6, <1>7 DEF Request
  <1> QED BY <1>8, <1>9 DEF PitInv

LEMMA InterruptGood ==
    ASSUME TimeAssumption, PitInv, InterruptHandler
    PROVE  PitInv'
  <1>1. Types(systemTime, queue, waiting, remaining)
        /\ All(queue, "tick") + All(queue, "fire") <= MaxPending
    BY DEF PitInv, Good, Bounds
  <1>2. queue \in Seq(Entry) /\ systemTime \in Times
    BY <1>1 DEF Types
  <1>3. queue # <<>> /\ Head(queue).kind = "tick"
    BY DEF InterruptHandler, Runs
  <1>4. PICK r : r = Tail(queue)
    OBVIOUS
  <1>5. Good(systemTime, r, waiting, remaining) /\ All(r, "fire") = All(queue, "fire")
    BY <1>3, <1>4, TakeEntry DEF PitInv
  <1>6. All(r, "tick") + All(r, "fire") < MaxPending
    <2>1. /\ All(r, "tick") = All(queue, "tick") - One(queue[1], "tick") /\ Head(queue) = queue[1]
          /\ All(queue, "tick") \in Nat
      BY <1>2, <1>3, <1>4, TailCounts DEF TailFacts
    <2>2. All(queue, "fire") \in Nat
      BY <1>2, <1>3, <1>4, TailCounts DEF TailFacts
    <2>3. One(queue[1], "tick") = 1
      BY <1>3, <2>1 DEF One
    <2> QED BY <1>1, <1>5, <2>1, <2>2, <2>3, TimeFacts
  <1>7. PICK t \in Times : t = (systemTime + 1) % TimeMod
                           /\ t \in {systemTime + 1, systemTime + 1 - TimeMod}
    BY <1>2, NextTime
  <1>8. PICK r2 : r2 = Append(r, Fire(t))
    OBVIOUS
  <1>9. Good(t, r2, waiting, remaining)
    BY <1>5, <1>6, <1>7, <1>8, QueueFire
  <1>10. r2 = queue' /\ systemTime' = t /\ waiting' = waiting /\ remaining' = remaining
    BY <1>4, <1>7, <1>8 DEF InterruptHandler
  <1> QED BY <1>9, <1>10 DEF PitInv

LEMMA SleepGood ==
    ASSUME TimeAssumption, PitInv, DoSleep
    PROVE  PitInv'
  <1>1. Types(systemTime, queue, waiting, remaining) /\ Bounds(queue, remaining)
    BY DEF PitInv, Good
  <1>2. queue \in Seq(Entry) /\ systemTime \in Times
    BY <1>1 DEF Types
  <1>3. queue # <<>> /\ Head(queue).kind = "sleep"
    BY DEF DoSleep, Runs
  <1>4. Head(queue) \in Entry /\ All(queue, "fire") \in Nat /\ All(queue, "tick") \in Nat
    BY <1>2, <1>3, TailCounts DEF TailFacts
  <1>5. PICK s \in Sleepers, millis \in Millis :
            s = Head(queue).sleeper /\ millis = Head(queue).millis /\ Has(Head(queue))
    BY <1>3, <1>4, EntryFields DEF Has
  <1>6. PICK r : r = Tail(queue)
    OBVIOUS
  <1>7. /\ Good(systemTime, r, waiting, remaining) /\ All(r, "fire") = All(queue, "fire")
        /\ Absent(s, r, waiting)
    BY <1>3, <1>5, <1>6, TakeEntry DEF PitInv
  <1>8. PICK k \in Nat : k = Ticks(millis) /\ k >= 1 /\ k <= (TimeMod - 1) \div 10 + 1
    BY TicksBounds
  <1>9. PICK f \in Nat : f = All(r, "fire") /\ f = Count("fire") /\ f <= MaxPending
    BY <1>1, <1>2, <1>4, <1>7, CountAll, TimeFacts DEF Bounds
  <1>10. PICK n \in Int : n = f + k /\ n <= Longest /\ n > f
    BY <1>8, <1>9, TimeFacts DEF Longest
  <1>11. PICK rem : rem = [remaining EXCEPT ![s] = n]
    OBVIOUS
  <1>12. Good(systemTime, r, waiting, rem)
    BY <1>7, <1>10, <1>11, SetRemaining
  <1>13. rem[s] = n
    BY <1>1, <1>11 DEF Types
  <1>14. PICK code \in Times : code = (systemTime + k) % TimeMod /\ At(code, systemTime + k)
    <2>1. TimeMod \in Nat /\ systemTime \in 0 .. TimeMod - 1 /\ k < TimeMod
      BY <1>2, <1>8, TimeFacts DEF Times, Longest
    <2>2. PICK x \in Nat : x = systemTime + k /\ x < TimeMod + TimeMod
      BY <2>1
    <2>3. CASE x < TimeMod
      <3>1. x \in 0 .. TimeMod - 1
        BY <2>1, <2>2, <2>3
      <3>2. x % TimeMod = x
        BY <2>1, <3>1
      <3> QED BY <2>2, <3>1, <3>2 DEF At, Times
    <2>4. CASE x >= TimeMod
      <3>1. x \in TimeMod .. 2 * TimeMod - 1 /\ x - TimeMod \in 0 .. TimeMod - 1
        BY <2>1, <2>2, <2>4
      <3>2. x % TimeMod = x - TimeMod
        BY <2>1, <3>1
      <3> QED BY <2>2, <3>1, <3>2 DEF At, Times
    <2> QED BY <2>1, <2>2, <2>3, <2>4
  <1>15. PICK e \in Entry : /\ e = Await(s, code) /\ e.kind = "await"
                            /\ e.sleeper = s /\ e.code = code
    BY NewEntries
  <1>16. PICK r2 : r2 = Append(r, e)
    OBVIOUS
  <1>17. Good(systemTime, r2, waiting, rem)
    <2>1. systemTime - f + n = systemTime + k
      BY <1>2, <1>10, TimeFacts DEF Times
    <2>2. At(e.code, systemTime - All(r, "fire") + rem[e.sleeper])
      BY <1>9, <1>13, <1>14, <1>15, <2>1
    <2>3. rem[e.sleeper] > All(r, "fire") /\ rem[e.sleeper] # Awake
      BY <1>9, <1>10, <1>13, <1>15 DEF Awake
    <2>4. Absent(e.sleeper, r, waiting) /\ e.kind # "fire" /\ e.kind # "tick"
      BY <1>7, <1>15
    <2> QED BY <1>12, <1>16, <2>2, <2>3, <2>4, QueueEntry
  <1>18. r2 = queue' /\ systemTime' = systemTime /\ waiting' = waiting /\ remaining' = rem
    BY <1>5, <1>6, <1>8, <1>9, <1>10, <1>11, <1>14, <1>15, <1>16 DEF DoSleep
  <1> QED BY <1>17, <1>18 DEF PitInv

LEMMA AwaitGood ==
    ASSUME TimeAssumption, PitInv, HandleAwait
    PROVE  PitInv'
  <1>1. Types(systemTime, queue, waiting, remaining)
        /\ AwaitCodes(systemTime, queue, remaining)
    BY DEF PitInv, Good
  <1>2. queue \in Seq(Entry)
    BY <1>1 DEF Types
  <1>3. queue # <<>> /\ Head(queue).kind = "await"
    BY DEF HandleAwait, Runs
  <1>4. Head(queue) = queue[1] /\ queue[1] \in Entry /\ 1 \in 1 .. Len(queue)
    BY <1>2, <1>3, TailCounts DEF TailFacts
  <1>5. PICK s \in Sleepers, code \in Times :
            s = Head(queue).sleeper /\ code = Head(queue).code /\ Has(Head(queue))
    BY <1>3, <1>4, EntryFields DEF Has
  <1>6. PICK r : r = Tail(queue)
    OBVIOUS
  <1>7. /\ Good(systemTime, r, waiting, remaining) /\ All(r, "fire") = All(queue, "fire")
        /\ Absent(s, r, waiting)
    BY <1>3, <1>5, <1>6, TakeEntry DEF PitInv
  <1>8. remaining[s] > 0 /\ At(code, systemTime - All(r, "fire") + remaining[s])
    <2>1. N(queue, "fire", 1) = 0
      BY CountFirst
    <2> QED BY <1>1, <1>3, <1>4, <1>5, <1>7, <2>1 DEF AwaitCodes
  <1>9. PICK c \in Waiter : c = [sleeper |-> s, code |-> code] /\ c.sleeper = s /\ c.code = code
    <2>1. [sleeper |-> s, code |-> code] \in Waiter
      BY DEF Waiter
    <2> QED BY <2>1
  <1>10. PICK v : v = Append(waiting, c)
    OBVIOUS
  <1>11. Good(systemTime, r, v, remaining)
    BY <1>7, <1>8, <1>9, <1>10, AddWaiter
  <1>12. r = queue' /\ systemTime' = systemTime /\ waiting' = v /\ remaining' = remaining
    BY <1>5, <1>6, <1>9, <1>10 DEF HandleAwait
  <1> QED BY <1>11, <1>12 DEF PitInv

LEMMA FireGood ==
    ASSUME TimeAssumption, PitInv, HandleFire
    PROVE  PitInv'
  <1>1. Types(systemTime, queue, waiting, remaining) /\ Unique(queue, waiting, remaining)
    BY DEF PitInv, Good
  <1>2. waiting \in Seq(Waiter)
        /\ \A i, j \in 1 .. Len(waiting) : waiting[i].sleeper = waiting[j].sleeper => i = j
    BY <1>1 DEF Types, Unique
  <1>3. queue # <<>> /\ Head(queue).kind = "fire"
    BY DEF HandleFire, Runs
  <1>4. PICK x : x = FireLoop(Head(queue).code)
    OBVIOUS
  <1>5. Sorted(x, Len(waiting), Head(queue).code)
    BY <1>2, <1>4, LoopSorts
  <1>6. PICK r, rem : r = Tail(queue) /\ rem = Decreased(remaining)
    OBVIOUS
  <1>7. /\ Good(systemTime, r, x.kept, rem)
        /\ \A i \in 1 .. Len(x.woken) :
                /\ x.woken[i].kind = "woken"
                /\ Absent(x.woken[i].sleeper, r, x.kept)
                /\ rem[x.woken[i].sleeper] # Awake
    <2>1. Good(systemTime, queue, waiting, remaining)
      BY DEF PitInv
    <2>2. Fired(systemTime, r, x, rem)
      BY <1>3, <1>5, <1>6, <2>1, TakeFire
    <2> QED BY <2>2 DEF Fired
  <1>8. PICK kept \in Seq(Waiter), woken \in Seq(Entry) : kept = x.kept /\ woken = x.woken
    BY <1>5 DEF Sorted
  <1>9. \A i, j \in 1 .. Len(woken) : woken[i].sleeper = woken[j].sleeper => i = j
    BY <1>5, <1>8 DEF Sorted
  <1>10. PICK r2 : r2 = r \o woken
    OBVIOUS
  <1>11. Good(systemTime, r2, kept, rem)
    BY <1>7, <1>8, <1>9, <1>10, QueueWoken
  <1>12. r2 = queue' /\ systemTime' = systemTime /\ waiting' = kept /\ remaining' = rem
    BY <1>4, <1>6, <1>8, <1>10 DEF HandleFire, Decreased
  <1> QED BY <1>11, <1>12 DEF PitInv

LEMMA ReturnGood ==
    ASSUME TimeAssumption, PitInv, Return
    PROVE  PitInv'
  <1>1. Types(systemTime, queue, waiting, remaining)
    BY DEF PitInv, Good
  <1>2. queue \in Seq(Entry)
    BY <1>1 DEF Types
  <1>3. queue # <<>> /\ Head(queue).kind = "woken"
    BY DEF Return, Runs
  <1>4. Head(queue) = queue[1] /\ queue[1] \in Entry
    BY <1>2, <1>3, TailCounts DEF TailFacts
  <1>5. PICK s \in Sleepers : s = Head(queue).sleeper /\ Has(Head(queue))
    BY <1>3, <1>4, EntryFields DEF Has
  <1>6. PICK r : r = Tail(queue)
    OBVIOUS
  <1>7. Good(systemTime, r, waiting, remaining) /\ Absent(s, r, waiting)
    BY <1>3, <1>5, <1>6, TakeEntry DEF PitInv
  <1>8. PICK rem : rem = [remaining EXCEPT ![s] = Awake]
    OBVIOUS
  <1>9. Awake \in Int /\ Awake <= Longest
    BY TimeFacts DEF Awake
  <1>10. Good(systemTime, r, waiting, rem)
    BY <1>7, <1>8, <1>9, SetRemaining
  <1>11. r = queue' /\ systemTime' = systemTime /\ waiting' = waiting /\ remaining' = rem
    BY <1>5, <1>6, <1>8 DEF Return
  <1> QED BY <1>10, <1>11 DEF PitInv

-----------------------------------------------------------------------------
\* The codes of firings and sleepers agree with the ghost count in every
\* reachable state.
THEOREM CodesInvariant ==
    ASSUME TimeAssumption
    PROVE  Spec => []PitInv
  <1>1. Init => PitInv
    BY InitGood
  <1>2. PitInv /\ [Next]_vars => PitInv'
    <2>1. SUFFICES ASSUME PitInv, [Next]_vars PROVE PitInv'
      OBVIOUS
    <2>2. CASE Next
      BY <2>1, <2>2, TickGood, RequestGood, InterruptGood, SleepGood, AwaitGood, FireGood,
         ReturnGood DEF Next, Run
    <2>3. CASE UNCHANGED vars
      BY <2>1, <2>3 DEF vars, PitInv
    <2> QED BY <2>1, <2>2, <2>3
  <1> QED BY <1>1, <1>2, PTL DEF Spec

\* The firing of a sleeper's target is still to come, however the ticks, the
\* requests and the runs of the service interleave.
THEOREM TicksSeen ==
    ASSUME TimeAssumption
    PROVE  Spec => []NoMissedTick
  <1>1. ASSUME PitInv PROVE NoMissedTick
    <2>1. Types(systemTime, queue, waiting, remaining)
          /\ AwaitCodes(systemTime, queue, remaining)
          /\ WaitCodes(systemTime, queue, waiting, remaining)
      BY <1>1 DEF PitInv, Good
    <2>2. DOMAIN queue = 1 .. Len(queue) /\ DOMAIN waiting = 1 .. Len(waiting)
      BY <2>1 DEF Types
    <2>3. \A i : PendingFires(i) = N(queue, "fire", i)
      BY DEF PendingFires, N, Before
    <2> QED BY <2>1, <2>2, <2>3 DEF NoMissedTick, AwaitCodes, WaitCodes
  <1> QED BY <1>1, CodesInvariant, PTL

\* A sleeper leaves the list of fireEvent at its target time only, unless its
\* code is 0.
THEOREM WakesRight ==
    ASSUME TimeAssumption
    PROVE  Spec => WakesOnTarget
  <1>1. ASSUME PitInv, [Next]_vars PROVE [OnTarget]_vars
    <2>1. SUFFICES ASSUME NEW s \in Sleepers, NEW code \in Times \ {0},
                          WaitsFor(s, code), ~WaitsFor(s, code)'
                   PROVE  remaining'[s] = 0
      BY DEF OnTarget
    <2>2. PICK i \in DOMAIN waiting : waiting[i] = [sleeper |-> s, code |-> code]
      BY <2>1 DEF WaitsFor
    <2>3. Types(systemTime, queue, waiting, remaining) /\ Unique(queue, waiting, remaining)
      BY <1>1 DEF PitInv, Good
    <2>4. /\ waiting \in Seq(Waiter) /\ i \in 1 .. Len(waiting)
          /\ waiting[i].sleeper = s /\ waiting[i].code = code
      BY <2>2, <2>3 DEF Types
    <2>5. waiting' # waiting
      BY <2>1 DEF WaitsFor
    <2>6. ~HandleAwait
      <3>1. SUFFICES ASSUME HandleAwait PROVE FALSE
        OBVIOUS
      <3>2. PICK c : waiting' = Append(waiting, c)
        BY <3>1 DEF HandleAwait
      <3>3. i \in DOMAIN waiting' /\ waiting'[i] = waiting[i]
        BY <2>4, <3>2
      <3> QED BY <2>1, <2>2, <3>3 DEF WaitsFor
    <2>7. HandleFire
      BY <1>1, <2>5, <2>6 DEF Next, Run, vars, Tick, Request, InterruptHandler, DoSleep, Return
    <2>8. queue # <<>> /\ Head(queue).kind = "fire"
      BY <2>7 DEF HandleFire, Runs
    <2>9. PICK x : x = FireLoop(Head(queue).code)
      OBVIOUS
    <2>10. Sorted(x, Len(waiting), Head(queue).code)
      BY <2>3, <2>4, <2>9, LoopSorts DEF Unique
    <2>11. waiting' = x.kept
      BY <2>7, <2>9 DEF HandleFire
    <2>12. Accepts(waiting[i], Head(queue).code)
      <3>1. SUFFICES ASSUME ~Accepts(waiting[i], Head(queue).code) PROVE FALSE
        OBVIOUS
      <3>2. PICK j \in 1 .. Len(x.kept) : x.kept[j] = waiting[i]
        BY <2>4, <2>10, <3>1 DEF Sorted
      <3>3. j \in DOMAIN x.kept
        BY <2>10, <3>2 DEF Sorted
      <3> QED BY <2>1, <2>2, <2>11, <3>2, <3>3 DEF WaitsFor
    <2>13. waiting[i].code = Head(queue).code
      BY <2>1, <2>4, <2>12 DEF Accepts
    <2>14. remaining[s] = 1
      BY <1>1, <2>4, <2>8, <2>13, HeadFires DEF PitInv
    <2> QED BY <2>7, <2>14 DEF HandleFire
  <1> QED BY <1>1, CodesInvariant, PTL DEF Spec, WakesOnTarget

-----------------------------------------------------------------------------
\* Pic: lines, threads and what they owe.

Lines == Lines1 \cup Lines2 \cup {Cascade}
Thread == [at : {"idle", "read1", "read2", "fire", "eoi2"}, isr : SUBSET Lines,
           sendPic2EOI : BOOLEAN]

\* A non-empty set of lines has a line of the highest priority.
LEMMA HighestLine ==
    ASSUME NEW S \in SUBSET Nat, S # {}
    PROVE  Min(S) \in S
  <1>1. PICK m \in S : \A n \in S : ~(<<n, m>> \in OpToRel(<, Nat))
    BY NatLessThanWellFounded, WFMin
  <1>2. \A n \in S : ~(n < m)
    BY <1>1 DEF OpToRel
  <1>3. \E x \in S : \A n \in S : x <= n
    BY <1>2
  <1> QED BY <1>3 DEF Min

\* The lines are numbers, and every set of lines or threads has a size.
LEMMA LinesType ==
    ASSUME LinesAssumption
    PROVE  /\ Lines \subseteq Nat /\ Lines1 \subseteq Lines /\ Lines2 \subseteq Lines
           /\ Cascade \in Lines
           /\ \A i \in Lines2 : i >= 8
           /\ \A S \in SUBSET Lines : IsFiniteSet(S) /\ Cardinality(S) \in Nat
           /\ \A S \in SUBSET Threads : IsFiniteSet(S) /\ Cardinality(S) \in Nat
  <1>1. Lines \subseteq 0 .. 15 /\ \A i \in Lines2 : i \in 8 .. 15
    BY DEF LinesAssumption, Lines, Cascade
  <1>2. IsFiniteSet(0 .. 15)
    <2>1. PICK a \in Int, b \in Int : a = 0 /\ b = 15
      OBVIOUS
    <2> QED BY <2>1, FS_Interval
  <1>3. \A S \in SUBSET Lines : IsFiniteSet(S) /\ Cardinality(S) \in Nat
    BY <1>1, <1>2, FS_Subset, FS_CardinalityType
  <1>4. \A S \in SUBSET Threads : IsFiniteSet(S) /\ Cardinality(S) \in Nat
    BY FS_Subset, FS_CardinalityType DEF LinesAssumption
  <1> QED BY <1>1, <1>3, <1>4 DEF LinesAssumption, Lines

LEMMA TypeParts ==
    ASSUME TypeOK
    PROVE  thread \in [Threads -> Thread]
  BY DEF TypeOK, Thread, Lines

-----------------------------------------------------------------------------
\* Type correctness.

LEMMA InitType ==
    ASSUME LinesAssumption, PicInit PROVE TypeOK
  BY DEF LinesAssumption, PicInit, TypeOK, Idle

LEMMA DeliverType ==
    ASSUME LinesAssumption, TypeOK, NEW t \in Threads, Deliver(t)
    PROVE  TypeOK' /\ \E i, j \in Lines : isr1' = isr1 \cup {i} /\ isr2' \subseteq isr2 \cup {j}
  <1> USE LinesType
  <1>1. PICK i : i = Min(Requests1)
    OBVIOUS
  <1>2. /\ Requests1 # {} /\ isr1' = isr1 \cup {i}
        /\ thread' = [thread EXCEPT ![t].at = "read1"] /\ UNCHANGED raised
        /\ \/ i # Cascade /\ irr' = irr \ {i} /\ UNCHANGED isr2
           \/ i = Cascade /\ irr' = irr \ {Min(Requests2)} /\ isr2' = isr2 \cup {Min(Requests2)}
    BY <1>1 DEF Deliver
  <1>3. Requests1 \subseteq Lines1 \cup {Cascade} /\ Requests1 \subseteq Nat
    BY DEF Requests1, TypeOK, Lines
  <1>4. i \in Requests1
    BY <1>1, <1>2, <1>3, HighestLine
  <1>5. ASSUME i = Cascade PROVE Min(Requests2) \in Lines2
    <2>1. Requests2 # {}
      BY <1>4, <1>5 DEF Requests1, LinesAssumption
    <2>2. Requests2 \subseteq Nat /\ Requests2 \subseteq Lines2
      BY DEF Requests2
    <2> QED BY <2>1, <2>2, HighestLine
  <1>6. thread' \in [Threads -> Thread]
    BY <1>2, TypeParts DEF Thread
  <1>7. TypeOK'
    BY <1>2, <1>3, <1>4, <1>5, <1>6 DEF TypeOK, Thread, Lines
  <1> QED BY <1>2, <1>3, <1>4, <1>5, <1>7 DEF Lines

LEMMA StepType ==
    ASSUME LinesAssumption, TypeOK, NEW t \in Threads, Step(t) PROVE TypeOK'
  <1> USE LinesType, TypeParts
  <1>1. isr1 \subseteq Lines /\ isr2 \subseteq Lines
    BY DEF TypeOK, Lines
  <1>2. thread' \in [Threads -> Thread]
    <2>1. CASE Read1(t)
      BY <1>1, <2>1 DEF Read1, Thread
    <2>2. CASE Read2(t)
      BY <1>1, <2>2 DEF Read2, Thread, Idle
    <2>3. CASE FireLine(t)
      BY <2>3 DEF FireLine, Thread
    <2>4. CASE Eoi1(t)
      BY <2>4 DEF Eoi1, Thread, Idle
    <2>5. CASE Eoi2(t)
      BY <2>5 DEF Eoi2, Thread, Idle
    <2> QED BY <2>1, <2>2, <2>3, <2>4, <2>5 DEF Step
  <1>3. UNCHANGED <<irr, raised>>
    BY DEF Step, Read1, Read2, FireLine, Eoi1, Eoi2
  <1>4. isr1' \subseteq isr1 /\ isr2' \subseteq isr2
    BY DEF Step, Read1, Read2, FireLine, Eoi1, Eoi2, Cleared
  <1> QED BY <1>2, <1>3, <1>4 DEF TypeOK, Thread, Lines

LEMMA NextType ==
    ASSUME LinesAssumption, TypeOK, [PicNext]_picVars PROVE TypeOK'
  <1>1. CASE UNCHANGED picVars
    BY <1>1 DEF picVars, TypeOK
  <1>2. ASSUME NEW line \in Lines1 \cup Lines2, Raise(line) PROVE TypeOK'
    <2>1. raised' \in 0 .. MaxInterrupts
      BY <1>2 DEF Raise, TypeOK, LinesAssumption
    <2> QED BY <1>2, <2>1 DEF Raise, TypeOK
  <1> QED BY <1>1, <1>2, DeliverType, StepType DEF PicNext

-----------------------------------------------------------------------------
\* The commands that are still owed.

\* The count for one controller: lines are cleared no slower than handlers stop
\* owing, and put in service no faster than handlers start.
LEMMA OwedStays ==
    ASSUME LinesAssumption, NEW A \in SUBSET Lines, NEW B \in SUBSET Lines,
           NEW S \in SUBSET Threads, NEW T \in SUBSET Threads,
           Cardinality(A) <= Cardinality(S), B \subseteq A, S \subseteq T
    PROVE  Cardinality(B) <= Cardinality(T)
  <1>1. /\ IsFiniteSet(A) /\ IsFiniteSet(T)
        /\ Cardinality(A) \in Nat /\ Cardinality(B) \in Nat
        /\ Cardinality(S) \in Nat /\ Cardinality(T) \in Nat
    BY LinesType
  <1>2. Cardinality(B) <= Cardinality(A) /\ Cardinality(S) <= Cardinality(T)
    BY <1>1, FS_Subset
  <1> QED BY <1>1, <1>2

LEMMA OwedStarts ==
    ASSUME LinesAssumption, NEW A \in SUBSET Lines, NEW B \in SUBSET Lines,
           NEW S \in SUBSET Threads, NEW T \in SUBSET Threads, NEW i, NEW t \in Threads,
           Cardinality(A) <= Cardinality(S), B \subseteq A \cup {i},
           t \notin S, S \cup {t} \subseteq T
    PROVE  Cardinality(B) <= Cardinality(T)
  <1>1. /\ IsFiniteSet(A) /\ IsFiniteSet(S) /\ IsFiniteSet(T)
        /\ Cardinality(A) \in Nat /\ Cardinality(B) \in Nat
        /\ Cardinality(S) \in Nat /\ Cardinality(T) \in Nat
    BY LinesType
  <1>2. /\ IsFiniteSet(A \cup {i}) /\ Cardinality(A \cup {i}) <= Cardinality(A) + 1
        /\ Cardinality(A \cup {i}) \in Nat
    <2>1. IsFiniteSet(A \cup {i}) /\ Cardinality(A \cup {i}) =
                IF i \in A THEN Cardinality(A) ELSE Cardinality(A) + 1
      BY <1>1, FS_AddElement
    <2> QED BY <1>1, <2>1
  <1>3. Cardinality(S \cup {t}) = Cardinality(S) + 1
    BY <1>1, FS_AddElement
  <1>4. Cardinality(B) <= Cardinality(A \cup {i}) /\ Cardinality(S \cup {t}) <= Cardinality(T)
    BY <1>1, <1>2, FS_Subset
  <1> QED BY <1>1, <1>2, <1>3, <1>4

LEMMA OwedPaid ==
    ASSUME LinesAssumption, NEW A \in SUBSET Lines, NEW S \in SUBSET Threads,
           NEW T \in SUBSET Threads, NEW t,
           Cardinality(A) <= Cardinality(S), S \ {t} \subseteq T
    PROVE  Cardinality(Cleared(A)) <= Cardinality(T)
  <1>1. /\ IsFiniteSet(A) /\ IsFiniteSet(S) /\ IsFiniteSet(T)
        /\ Cardinality(A) \in Nat /\ Cardinality(S) \in Nat /\ Cardinality(T) \in Nat
    BY LinesType
  <1>2. CASE A = {}
    BY <1>1, <1>2, FS_EmptySet DEF Cleared
  <1>3. CASE A # {}
    <2>1. Min(A) \in A
      BY <1>3, LinesType, HighestLine
    <2>2. Cardinality(Cleared(A)) = Cardinality(A) - 1
      BY <1>1, <1>3, <2>1, FS_RemoveElement DEF Cleared
    <2>3. IsFiniteSet(S \ {t}) /\ Cardinality(S \ {t}) >= Cardinality(S) - 1
          /\ Cardinality(S \ {t}) \in Nat
      <3>1. IsFiniteSet(S \ {t}) /\ Cardinality(S \ {t}) =
                IF t \in S THEN Cardinality(S) - 1 ELSE Cardinality(S)
        BY <1>1, FS_RemoveElement
      <3>2. Cardinality(S \ {t}) \in Nat
        BY <3>1, FS_CardinalityType
      <3> QED BY <1>1, <3>1, <3>2
    <2>4. Cardinality(S \ {t}) <= Cardinality(T)
      BY <1>1, FS_Subset
    <2> QED BY <1>1, <2>2, <2>3, <2>4
  <1> QED BY <1>2, <1>3

\* An empty register owes nothing.
LEMMA OwedNone ==
    ASSUME LinesAssumption, NEW T \in SUBSET Threads
    PROVE  Cardinality({}) <= Cardinality(T)
  BY LinesType, FS_EmptySet

\* The sets that are counted.
LEMMA OwingTypes ==
    ASSUME LinesAssumption, TypeOK
    PROVE  /\ isr1 \in SUBSET Lines /\ isr2 \in SUBSET Lines
           /\ Owing1 \in SUBSET Threads /\ Owing2 \in SUBSET Threads
  BY DEF TypeOK, Lines, Owing1, Owing2

\* A step of one handler changes what only this handler owes.
LEMMA OthersOwe ==
    ASSUME TypeOK, NEW t \in Threads, NEW x, thread' = [thread EXCEPT ![t] = x]
    PROVE  /\ thread'[t] = x
           /\ \A u \in Threads \ {t} : /\ u \in Owing1' <=> u \in Owing1
                                       /\ u \in Owing2' <=> u \in Owing2
  <1>1. thread'[t] = x /\ \A u \in Threads \ {t} : thread'[u] = thread[u]
    BY TypeParts
  <1> QED BY <1>1 DEF Owing1, Owing2

LEMMA DeliverOwed ==
    ASSUME LinesAssumption, TypeOK, TypeOK', EoiOwed, NEW t \in Threads, Deliver(t)
    PROVE  EoiOwed'
  <1> USE LinesType
  <1>1. PICK i, j \in Lines : isr1' = isr1 \cup {i} /\ isr2' \subseteq isr2 \cup {j}
    BY DeliverType
  <1>2. thread[t] = Idle /\ thread' = [thread EXCEPT ![t] = [Idle EXCEPT !.at = "read1"]]
    BY DEF Deliver
  <1>3. t \notin Owing1 /\ t \notin Owing2
    BY <1>2 DEF Owing1, Owing2, Idle
  <1>4. t \in Owing1' /\ t \in Owing2'
    <2>1. thread'[t] = [Idle EXCEPT !.at = "read1"]
      BY <1>2, OthersOwe
    <2>2. thread'[t].at = "read1"
      BY <2>1 DEF Idle
    <2> QED BY <2>2 DEF Owing1, Owing2
  <1>5. Owing1 \cup {t} \subseteq Owing1' /\ Owing2 \cup {t} \subseteq Owing2'
    BY <1>2, <1>3, <1>4, OthersOwe, OwingTypes
  <1>6. /\ isr1 \in SUBSET Lines /\ isr2 \in SUBSET Lines
        /\ isr1' \in SUBSET Lines /\ isr2' \in SUBSET Lines
        /\ Owing1 \in SUBSET Threads /\ Owing2 \in SUBSET Threads
        /\ Owing1' \in SUBSET Threads /\ Owing2' \in SUBSET Threads
    BY OwingTypes DEF TypeOK, Lines, Owing1, Owing2
  <1>7. Cardinality(isr1') <= Cardinality(Owing1')
    BY <1>1, <1>3, <1>5, <1>6, OwedStarts DEF EoiOwed
  <1>8. Cardinality(isr2') <= Cardinality(Owing2')
    BY <1>1, <1>3, <1>5, <1>6, OwedStarts DEF EoiOwed
  <1> QED BY <1>7, <1>8 DEF EoiOwed

LEMMA StepOwed ==
    ASSUME LinesAssumption, TypeOK, TypeOK', EoiOwed, NEW t \in Threads, Step(t)
    PROVE  EoiOwed'
  <1> USE LinesType
  <1>1. /\ isr1 \in SUBSET Lines /\ isr2 \in SUBSET Lines
        /\ isr1' \in SUBSET Lines /\ isr2' \in SUBSET Lines
        /\ Owing1 \in SUBSET Threads /\ Owing2 \in SUBSET Threads
        /\ Owing1' \in SUBSET Threads /\ Owing2' \in SUBSET Threads
    BY DEF TypeOK, Lines, Owing1, Owing2
  <1>2. /\ Cardinality(isr1) <= Cardinality(Owing1)
        /\ Cardinality(isr2) <= Cardinality(Owing2)
    BY DEF EoiOwed
  <1>3. PICK x \in Thread : x = thread[t]
    BY TypeParts
  <1>4. CASE Read1(t)
    <2>1. /\ thread' = [thread EXCEPT ![t] = [x EXCEPT !.at = "read2", !.isr = isr1]]
          /\ x.at = "read1" /\ UNCHANGED <<isr1, isr2>>
      BY <1>3, <1>4 DEF Read1
    <2>2. thread'[t].at = "read2" /\ thread'[t].isr = isr1
      BY <1>3, <2>1, TypeParts DEF Thread
    <2>3. Owing2 \subseteq Owing2'
      BY <1>1, <2>1, <2>2, OthersOwe DEF Owing2
    <2>4. isr1 # {} => Owing1 \subseteq Owing1'
      BY <1>1, <2>1, <2>2, OthersOwe DEF Owing1
    <2>5. Cardinality(isr1') <= Cardinality(Owing1')
      BY <1>1, <1>2, <2>1, <2>4, OwedStays, OwedNone
    <2> QED BY <1>1, <1>2, <2>1, <2>3, <2>5, OwedStays DEF EoiOwed
  <1>5. CASE Read2(t)
    <2>1. PICK isr : isr = x.isr \cup isr2
      OBVIOUS
    <2>2. PICK y : y = IF isr = {} THEN Idle ELSE [x EXCEPT !.at = "fire", !.isr = isr]
      OBVIOUS
    <2>3. /\ thread' = [thread EXCEPT ![t] = y]
          /\ x.at = "read2" /\ UNCHANGED <<isr1, isr2>>
      BY <1>3, <1>5, <2>1, <2>2 DEF Read2
    <2>4. thread'[t] = y
      BY <2>3, OthersOwe
    <2>5. Owing1 \subseteq Owing1'
      <3>1. isr # {} => y.at = "fire"
        BY <1>3, <2>2 DEF Thread
      <3>3. isr # {} => t \in Owing1'
        BY <2>4, <3>1 DEF Owing1
      <3>2. isr = {} => t \notin Owing1
        BY <1>3, <2>1, <2>3 DEF Owing1
      <3> QED BY <1>1, <2>3, <3>2, <3>3, OthersOwe
    <2>6. isr2 # {} => Owing2 \subseteq Owing2'
      <3>1. ASSUME isr2 # {} PROVE t \in Owing2'
        <4>1. PICK i \in isr2 : i >= 8
          BY <3>1 DEF TypeOK
        <4>2. y.at = "fire" /\ y.isr = isr /\ i \in isr
          BY <1>3, <2>1, <2>2, <4>1 DEF Thread
        <4> QED BY <2>4, <4>1, <4>2 DEF Owing2
      <3> QED BY <1>1, <2>3, <3>1, OthersOwe
    <2>7. Cardinality(isr2') <= Cardinality(Owing2')
      BY <1>1, <1>2, <2>3, <2>6, OwedStays, OwedNone
    <2> QED BY <1>1, <1>2, <2>3, <2>5, <2>7, OwedStays DEF EoiOwed
  <1>6. CASE FireLine(t)
    <2>1. PICK i : i = Min(x.isr)
      OBVIOUS
    <2>2. PICK y : y = [x EXCEPT !.isr = x.isr \ {i}, !.sendPic2EOI = x.sendPic2EOI \/ i >= 8]
      OBVIOUS
    <2>3. /\ thread' = [thread EXCEPT ![t] = y] /\ x.at = "fire"
          /\ UNCHANGED <<isr1, isr2>>
      BY <1>3, <1>6, <2>1, <2>2 DEF FireLine
    <2>4. /\ thread'[t] = y /\ y.at = "fire" /\ y.isr = x.isr \ {i}
          /\ y.sendPic2EOI = (x.sendPic2EOI \/ i >= 8)
      BY <1>3, <2>2, <2>3, OthersOwe DEF Thread
    <2>5. Owing1 \subseteq Owing1'
      BY <1>1, <2>3, <2>4, OthersOwe DEF Owing1
    <2>6. Owing2 \subseteq Owing2'
      <3>1. t \in Owing2 => t \in Owing2'
        BY <1>3, <2>3, <2>4 DEF Owing2
      <3> QED BY <1>1, <2>3, <3>1, OthersOwe
    <2> QED BY <1>1, <1>2, <2>3, <2>5, <2>6, OwedStays DEF EoiOwed
  <1>7. CASE Eoi1(t)
    <2>1. PICK y : y = IF x.sendPic2EOI THEN [x EXCEPT !.at = "eoi2"] ELSE Idle
      OBVIOUS
    <2>2. /\ thread' = [thread EXCEPT ![t] = y] /\ x.at = "fire" /\ x.isr = {}
          /\ isr1' = Cleared(isr1) /\ UNCHANGED isr2
      BY <1>3, <1>7, <2>1 DEF Eoi1
    <2>3. thread'[t] = y /\ (x.sendPic2EOI => y.at = "eoi2")
      BY <1>3, <2>1, <2>2, OthersOwe DEF Thread
    <2>4. Owing1 \ {t} \subseteq Owing1'
      BY <1>1, <2>2, OthersOwe
    <2>5. Owing2 \subseteq Owing2'
      <3>1. t \in Owing2 => t \in Owing2'
        BY <1>3, <2>2, <2>3 DEF Owing2
      <3> QED BY <1>1, <2>2, <3>1, OthersOwe
    <2>6. Cardinality(isr1') <= Cardinality(Owing1')
      BY <1>1, <1>2, <2>2, <2>4, OwedPaid
    <2> QED BY <1>1, <1>2, <2>2, <2>5, <2>6, OwedStays DEF EoiOwed
  <1>8. CASE Eoi2(t)
    <2>1. /\ thread' = [thread EXCEPT ![t] = Idle] /\ x.at = "eoi2"
          /\ isr2' = Cleared(isr2) /\ UNCHANGED isr1
      BY <1>3, <1>8 DEF Eoi2
    <2>2. Owing2 \ {t} \subseteq Owing2'
      BY <1>1, <2>1, OthersOwe
    <2>3. Owing1 \subseteq Owing1'
      <3>1. t \notin Owing1
        BY <1>3, <2>1 DEF Owing1
      <3> QED BY <1>1, <2>1, <3>1, OthersOwe
    <2>4. Cardinality(isr2') <= Cardinality(Owing2')
      BY <1>1, <1>2, <2>1, <2>2, OwedPaid
    <2> QED BY <1>1, <1>2, <2>1, <2>3, <2>4, OwedStays DEF EoiOwed
  <1> QED BY <1>4, <1>5, <1>6, <1>7, <1>8 DEF Step

LEMMA NextOwed ==
    ASSUME LinesAssumption, TypeOK, TypeOK', EoiOwed, [PicNext]_picVars PROVE EoiOwed'
  <1>1. CASE UNCHANGED <<isr1, isr2, thread>>
    BY <1>1 DEF EoiOwed, Owing1, Owing2
  <1>2. UNCHANGED <<isr1, isr2, thread>> \/ \E t \in Threads : Deliver(t) \/ Step(t)
    BY DEF PicNext, picVars, Raise
  <1> QED BY <1>1, <1>2, DeliverOwed, StepOwed

\* The registers and handlers keep their types, for any devices and threads.
THEOREM LinesTyped ==
    ASSUME LinesAssumption PROVE PicSpec => []TypeOK
  <1>1. PicInit => TypeOK
    BY InitType
  <1>2. TypeOK /\ [PicNext]_picVars => TypeOK'
    BY NextType
  <1> QED BY <1>1, <1>2, PTL DEF PicSpec

\* For any devices and any number of handlers of irqMaster, enough of them will
\* still send an end-of-interrupt command for every line in service.
THEOREM NoLineStuck ==
    ASSUME LinesAssumption PROVE PicSpec => []EoiOwed
  <1>1. PicInit => TypeOK /\ EoiOwed
    <2>1. ASSUME PicInit PROVE EoiOwed
      <3>1. isr1 = {} /\ isr2 = {}
        BY <2>1 DEF PicInit
      <3>2. Owing1 \in SUBSET Threads /\ Owing2 \in SUBSET Threads
        BY DEF Owing1, Owing2
      <3> QED BY <3>1, <3>2, OwedNone DEF EoiOwed
    <2> QED BY <2>1, InitType
  <1>2. TypeOK /\ EoiOwed /\ [PicNext]_picVars => TypeOK' /\ EoiOwed'
    BY NextType, NextOwed
  <1> QED BY <1>1, <1>2, PTL DEF PicSpec

-----------------------------------------------------------------------------

-----------------------------------------------------------------------------
\* Ps2: the instructions of a stretch and their types.

Configurations == [irq1 : BOOLEAN, irq12 : BOOLEAN, off : [Ports -> BOOLEAN],
                   translation : BOOLEAN]
Bytes == {"AD", "A7", "20", "60", "AA", "AB", "A9", "AE", "A8", "FF", "F5", "F2", "F6", "F3",
          "10", "F0", "00", "01", "F4", "FA", "02", "83", "55", "FC", "config", "key"}
Instructions ==
    {F, R, Ack} \cup {C(b) : b \in Bytes} \cup {D(d, b) : d \in Ports, b \in Bytes}
        \cup {<<"config", c>> : c \in Configurations}

Labels == {"configure", "selfTest", "failed", "testPort", "reset", "identify",
           "identifyKeyboard", "mouse", "keyboard", "secondPort", "enable", "done"}

\* The whole stretch that begins at a label.
Stretch(label, d, c) ==
    CASE label = "configure" -> <<C("AD"), C("A7"), F, F, C("20"), R>>
      [] label = "selfTest" ->
            <<C("60"), <<"config", c>>, F, F, C("20"), R, C("AA"), R>>
      [] label = "testPort" -> IF d = 0 THEN <<F, C("AB"), R>>
                               ELSE <<C("A7"), F, C("A9"), R>>
      [] label = "reset" ->
            <<C(IF d = 0 THEN "AE" ELSE "A8"), F, D(d, "FF"), R, R>>
      [] label = "identify" -> <<D(d, "F5"), Ack, D(d, "F2"), Ack, R>>
      [] label = "identifyKeyboard" -> <<R>>
      [] label = "mouse" ->
            <<D(d, "F6"), Ack, F, D(d, "F3"), Ack, F, D(d, "10"), Ack, F>>
      [] label = "keyboard" ->
            <<F, D(d, "F0"), D(d, "00"), Ack, R, F, D(d, "F0"), D(d, "01"), Ack>>
      [] label = "secondPort" -> <<C("A8"), F, C("20"), R>>
      [] label = "enable" -> IF d = 0 THEN <<D(0, "F4"), F, C("20"), R>>
                             ELSE <<D(1, "F4"), D(0, "F4"), F, C("20"), R>>
      [] label = "done" -> <<C("60"), <<"config", c>>, F>>
      [] OTHER -> <<>>

\* The bytes that have been read when n instructions of a stretch are left.
BytesRead(label, n) ==
    CASE label = "selfTest" -> IF n >= 3 THEN 0 ELSE IF n >= 1 THEN 1 ELSE 2
      [] label = "reset" -> IF n >= 2 THEN 0 ELSE IF n = 1 THEN 1 ELSE 2
      [] label = "keyboard" -> IF n >= 5 THEN 0 ELSE 1
      [] label \in {"mouse", "failed", "done"} -> 0
      [] OTHER -> IF n >= 1 THEN 0 ELSE 1

\* What is left to do is the end of the stretch.
EndOf(s, t) ==
    /\ t \in Seq(Instructions) /\ s \in Seq(Instructions)
    /\ Len(t) <= Len(s)
    /\ \A i \in 1 .. Len(t) : t[i] = s[Len(s) - Len(t) + i]

Ps2Types ==
    /\ plugged \in [Ports -> Kinds] /\ prompt \in BOOLEAN
    /\ pc \in Labels /\ device \in Ports
    /\ config \in Configurations /\ ctrl \in Configurations
    /\ registered \in [Ports -> {"none", "mouse", "keyboard"}]
    /\ got \in Seq(Bytes) /\ out \in Seq(Bytes) /\ owed \in [Ports -> Seq(Bytes)]
    /\ param \in [Ports -> {"", "F0", "F3"}] /\ scanning \in [Ports -> BOOLEAN] /\ keys \in Nat
    /\ EndOf(Stretch(pc, device, config), todo)
    /\ Len(got) = BytesRead(pc, Len(todo))
    /\ pc \in {"configure", "selfTest", "secondPort"} => device = 0

LEMMA SameSequence ==
    ASSUME NEW S, NEW s \in Seq(S), NEW t \in Seq(S), Len(s) = Len(t),
           \A i \in 1 .. Len(s) : s[i] = t[i]
    PROVE  s = t
  OBVIOUS

LEMMA Concatenation ==
    ASSUME NEW S, NEW s, NEW t, s \in Seq(S), t \in Seq(S), NEW u, u = s \o t
    PROVE  /\ u \in Seq(S) /\ Len(u) = Len(s) + Len(t)
           /\ \A i \in 1 .. Len(s) : u[i] = s[i]
           /\ \A i \in 1 .. Len(t) : u[Len(s) + i] = t[i]
  OBVIOUS

LEMMA Join33 ==
    ASSUME NEW a, NEW b, NEW c, NEW d, NEW e, NEW f
    PROVE  <<a, b, c>> \o <<d, e, f>> = <<a, b, c, d, e, f>>
  <1> DEFINE s == <<a, b, c>> \o <<d, e, f>>
             t == <<a, b, c, d, e, f>>
  <1>1. PICK S : S = {a, b, c, d, e, f}
    OBVIOUS
  <1>2. s \in Seq(S) /\ Len(s) = 6
    BY <1>1
  <1>3. t \in Seq(S) /\ Len(t) = 6
    BY <1>1
  <1>4. s[1] = a /\ s[2] = b /\ s[3] = c /\ s[4] = d /\ s[5] = e /\ s[6] = f
    OBVIOUS
  <1>5. \A i \in 1 .. 6 : s[i] = t[i]
    BY <1>4
  <1> HIDE DEF s, t
  <1>6. s = t
    BY <1>2, <1>3, <1>5, SameSequence
  <1> QED BY <1>6 DEF s, t

LEMMA Join62 ==
    ASSUME NEW a, NEW b, NEW c, NEW d, NEW e, NEW f, NEW g, NEW h
    PROVE  <<a, b, c, d, e, f>> \o <<g, h>> = <<a, b, c, d, e, f, g, h>>
  <1> DEFINE s == <<a, b, c, d, e, f>> \o <<g, h>>
             t == <<a, b, c, d, e, f, g, h>>
  <1>1. PICK S : S = {a, b, c, d, e, f, g, h}
    OBVIOUS
  <1>2. s \in Seq(S) /\ Len(s) = 8
    BY <1>1
  <1>3. t \in Seq(S) /\ Len(t) = 8
    BY <1>1
  <1>4. /\ s[1] = a /\ s[2] = b /\ s[3] = c /\ s[4] = d /\ s[5] = e /\ s[6] = f
        /\ s[7] = g /\ s[8] = h
    OBVIOUS
  <1>5. \A i \in 1 .. 8 : s[i] = t[i]
    BY <1>4
  <1> HIDE DEF s, t
  <1>6. s = t
    BY <1>2, <1>3, <1>5, SameSequence
  <1> QED BY <1>6 DEF s, t

LEMMA Join13 ==
    ASSUME NEW a, NEW b, NEW c, NEW d
    PROVE  <<a>> \o <<b, c, d>> = <<a, b, c, d>>
  <1> DEFINE s == <<a>> \o <<b, c, d>>
             t == <<a, b, c, d>>
  <1>1. PICK S : S = {a, b, c, d}
    OBVIOUS
  <1>2. s \in Seq(S) /\ Len(s) = 4
    BY <1>1
  <1>3. t \in Seq(S) /\ Len(t) = 4
    BY <1>1
  <1>4. s[1] = a /\ s[2] = b /\ s[3] = c /\ s[4] = d
    OBVIOUS
  <1>5. \A i \in 1 .. 4 : s[i] = t[i]
    BY <1>4
  <1> HIDE DEF s, t
  <1>6. s = t
    BY <1>2, <1>3, <1>5, SameSequence
  <1> QED BY <1>6 DEF s, t

LEMMA Join23 ==
    ASSUME NEW a, NEW b, NEW c, NEW d, NEW e
    PROVE  <<a, b>> \o <<c, d, e>> = <<a, b, c, d, e>>
  <1> DEFINE s == <<a, b>> \o <<c, d, e>>
             t == <<a, b, c, d, e>>
  <1>1. PICK S : S = {a, b, c, d, e}
    OBVIOUS
  <1>2. s \in Seq(S) /\ Len(s) = 5
    BY <1>1
  <1>3. t \in Seq(S) /\ Len(t) = 5
    BY <1>1
  <1>4. s[1] = a /\ s[2] = b /\ s[3] = c /\ s[4] = d /\ s[5] = e
    OBVIOUS
  <1>5. \A i \in 1 .. 5 : s[i] = t[i]
    BY <1>4
  <1> HIDE DEF s, t
  <1>6. s = t
    BY <1>2, <1>3, <1>5, SameSequence
  <1> QED BY <1>6 DEF s, t

LEMMA InstructionTypes ==
    /\ F \in Instructions /\ R \in Instructions /\ Ack \in Instructions
    /\ \A b \in Bytes : C(b) \in Instructions
    /\ \A d \in Ports, b \in Bytes : D(d, b) \in Instructions
    /\ \A c \in Configurations : <<"config", c>> \in Instructions
  BY DEF Instructions

LEMMA StretchTypes ==
    ASSUME NEW label \in Labels, NEW d \in Ports, NEW c \in Configurations
    PROVE  Stretch(label, d, c) \in Seq(Instructions)
  <1>1. \A b \in {"AD", "A7", "20", "60", "AA", "AB", "A9", "AE", "A8"} : C(b) \in Instructions
    BY InstructionTypes DEF Bytes
  <1>2. \A b \in {"FF", "F5", "F2", "F6", "F3", "10", "F0", "00", "01", "F4"} :
            D(d, b) \in Instructions /\ D(0, b) \in Instructions /\ D(1, b) \in Instructions
    BY InstructionTypes DEF Ports, Bytes
  <1>3. /\ F \in Instructions /\ R \in Instructions /\ Ack \in Instructions
        /\ <<"config", c>> \in Instructions
    BY InstructionTypes
  <1>4. CASE label \in {"configure", "selfTest", "failed"}
    BY <1>1, <1>3, <1>4 DEF Stretch
  <1>5. CASE label \in {"testPort", "reset"}
    BY <1>1, <1>2, <1>3, <1>5 DEF Stretch
  <1>6. CASE label \in {"identify", "identifyKeyboard"}
    BY <1>2, <1>3, <1>6 DEF Stretch
  <1>7. CASE label = "mouse"
    BY <1>2, <1>3, <1>7 DEF Stretch
  <1>8. CASE label = "keyboard"
    BY <1>2, <1>3, <1>8 DEF Stretch
  <1>9. CASE label \in {"secondPort", "enable", "done"}
    BY <1>1, <1>2, <1>3, <1>9 DEF Stretch
  <1> QED BY <1>4, <1>5, <1>6, <1>7, <1>8, <1>9 DEF Labels
-----------------------------------------------------------------------------
\* Ps2: which bytes are under way. A byte is held in what was read, in the output
\* buffer or on the wire of a port.

Holds(s, b) == \E i \in DOMAIN s : s[i] = b
Single(s, b) == \A i, j \in DOMAIN s : s[i] = b /\ s[j] = b => i = j

NoneOf(g, o, w, b) == ~Holds(g, b) /\ ~Holds(o, b) /\ \A p \in Ports : ~Holds(w[p], b)
OneOf(g, o, w, b) ==
    /\ Single(g, b) /\ Single(o, b) /\ Single(w[0], b) /\ ~Holds(w[1], b)
    /\ ~(Holds(g, b) /\ Holds(o, b)) /\ ~(Holds(g, b) /\ Holds(w[0], b))
    /\ ~(Holds(o, b) /\ Holds(w[0], b))
None(b) == NoneOf(got, out, owed, b)
AtMostOne(b) == OneOf(got, out, owed, b)

Identifying == {"identify", "identifyKeyboard", "mouse", "keyboard"}
left == Len(todo)

\* Without a mouse a "00" is the answer of a port test. What is left of it in the
\* buffer is flushed before a device is asked for its type.
NoMouseSeen ==
    (\A q \in Ports : plugged[q] \notin Mice) =>
        /\ pc # "mouse" /\ \A p \in Ports : registered[p] # "mouse" /\ ~Holds(owed[p], "00")
        /\ \/ None("00")
           \/ pc \in {"testPort", "enable", "done"}
           \/ pc = "reset" /\ left >= 4
           \/ pc = "secondPort" /\ left >= 3

\* Before the second port is tried, nothing acknowledges on an empty first one.
FirstPortEmpty ==
    plugged[0] = "none" =>
        /\ registered[0] = "none"
        /\ device = 0 =>
            None("FA") /\ ~scanning[1] /\ owed[0] = <<>> /\ owed[1] = <<>> /\ pc \notin Identifying

\* On an empty second port: the first device acknowledges its reset once. If that
\* reset was given up, one acknowledgement at most can pass for the second port's
\* and none is left for the question that follows; if it succeeded, no answer to
\* a reset is left.
SecondPortEmpty ==
    plugged[1] = "none" =>
        /\ registered[1] = "none" /\ owed[1] = <<>>
        /\ pc \in {"configure", "selfTest"} => None("FA") /\ None("AA")
        /\ device = 0 =>
            /\ pc = "testPort" \/ (pc = "reset" /\ left >= 3) => None("FA") /\ None("AA")
            /\ pc = "reset" => AtMostOne("FA") /\ AtMostOne("AA")
            /\ pc \in Identifying => None("AA")
            /\ pc = "secondPort" => None("AA") \/ AtMostOne("FA")
        /\ device = 1 =>
            /\ pc \in {"testPort", "reset"} => None("AA") \/ AtMostOne("FA")
            /\ pc = "identify" => None("FA") /\ left >= 4
            /\ pc \notin {"identifyKeyboard", "mouse", "keyboard"}

-----------------------------------------------------------------------------
\* Ps2: the undisturbed start-up, point by point.

Registration(p) ==
    CASE plugged[p] \in Mice -> "mouse" [] plugged[p] \in Keyboards -> "keyboard" [] OTHER -> "none"
Here == plugged[device]
Closed(c) == ~c.irq1 /\ ~c.irq12 /\ ~c.translation
Open == Closed(ctrl) /\ \A p \in Ports : p <= device => ~ctrl.off[p]
RegisteredBefore(d) ==
    \A p \in Ports : registered[p] = IF p < d THEN Registration(p) ELSE "none"

Configuring ==
    pc = "configure" =>
        /\ device = 0
        /\ left <= 5 => ctrl.off[0]
        /\ left <= 4 => ctrl.off[1]
        /\ out = IF left = 1 THEN <<"config">> ELSE <<>>
        /\ left = 0 => got = <<"config">>

SelfTesting ==
    pc = "selfTest" =>
        /\ device = 0 /\ Closed(config) /\ config.off[0] /\ config.off[1]
        /\ left <= 6 => ctrl = config
        /\ left \in {4, 2} => out = <<>>
        /\ left = 3 => out = <<"config">>
        /\ left = 1 => Len(out) = 1
        /\ left = 0 => out = <<>>
        /\ left <= 2 => got[1] = "config"

TestingPort ==
    pc = "testPort" =>
        /\ Closed(ctrl) /\ \A p \in Ports : p < device => ~ctrl.off[p]
        /\ left \in {0, 2} => out = <<>>
        /\ left = 1 => out = <<"00">>
        /\ left = 0 => got = <<"00">>

Resetting ==
    pc = "reset" =>
        /\ Closed(ctrl) /\ \A p \in Ports : p < device \/ (left <= 4 /\ p = device) => ~ctrl.off[p]
        /\ left = 3 => out = <<>>
        /\ Here = "none" =>
            /\ left <= 3 => out = <<>>
            /\ left = 0 => got # <<"FA", "AA">>
        /\ Here # "none" =>
            /\ left = 2 => out = IF Here \in Mice THEN <<"FA", "AA", "00">> ELSE <<"FA", "AA">>
            /\ left = 1 => got = <<"FA">>
                           /\ out = IF Here \in Mice THEN <<"AA", "00">> ELSE <<"AA">>
            /\ left = 0 => got = <<"FA", "AA">> /\ out = IF Here \in Mice THEN <<"00">> ELSE <<>>

MouseIdentified ==
    /\ left = 5 => out = <<"00">>
    /\ left = 2 => out = <<"FA", "00">>
    /\ left = 1 => out = <<"00">>
    /\ left = 0 => got[1] = "00" /\ out = <<>>
Mf2Identified ==
    /\ left = 5 => out = <<>>
    /\ left = 2 => out = <<"FA", "AB", "83">>
    /\ left = 1 => out = <<"AB", "83">>
    /\ left = 0 => got[1] = "AB" /\ out = <<"83">>
AtIdentified ==
    /\ left = 5 => out = <<>>
    /\ left = 2 => out = <<"FA">>
    /\ left = 1 => out = <<>>
    /\ left = 0 => got[1] = Timeout
IdentifyingDevice ==
    pc = "identify" =>
        /\ Here # "none" /\ Open
        /\ left = 4 => out = <<"FA">> \/ out = <<"00", "FA">>
        /\ left = 3 => out = <<>>
        /\ Here = "mouse" => MouseIdentified
        /\ Here = "mf2" => Mf2Identified
        /\ Here = "at" => AtIdentified

IdentifyingKeyboard ==
    pc = "identifyKeyboard" =>
        /\ Here = "mf2" /\ Open
        /\ left = 1 => out = <<"83">>
        /\ left = 0 => got[1] = "83"

SettingUpMouse ==
    pc = "mouse" =>
        /\ Here \in Mice /\ Open
        /\ left \in {8, 5, 2} => out = <<"FA">>
        /\ left \in {9, 6, 3} => out = <<>>

SettingUpKeyboard ==
    pc = "keyboard" =>
        /\ Here \in Keyboards /\ Open
        /\ left \in {8, 3} => out = <<>>
        /\ left \in {7, 2} => out = <<"FA">>
        /\ left = 6 => out = <<"FA", "FA", "02">>
        /\ left = 1 => out = <<"FA", "FA">>

LookingForSecondPort ==
    pc = "secondPort" =>
        /\ device = 0 /\ Open
        /\ left <= 3 => ~ctrl.off[1]
        /\ left = 2 => out = <<>>
        /\ left = 1 => out = <<"config">>
        /\ left = 0 => got[1] = "config"

Enabling ==
    pc = "enable" =>
        /\ device = 1 /\ Open
        /\ left <= 4 /\ plugged[1] # "none" => scanning[1]
        /\ left <= 3 /\ plugged[0] # "none" => scanning[0]
        /\ left = 2 => out = <<>>
        /\ left = 1 => out = <<"config">>
        /\ left = 0 => got[1] = "config"

Finishing ==
    pc = "done" =>
        /\ config.irq1 /\ config.irq12 /\ ~config.translation
        /\ \A p \in Ports : ~config.off[p] /\ (plugged[p] # "none" => scanning[p])
        /\ left <= 1 => ctrl = config

Expected ==
    CASE pc = "mouse" /\ left \in {5, 4, 3} -> "F3"
      [] pc = "keyboard" /\ left \in {7, 2} -> "F0"
      [] OTHER -> ""
Parameters == \A p \in Ports : param[p] = IF p = device THEN Expected ELSE ""

Registering ==
    CASE pc \in {"configure", "selfTest", "failed"} -> RegisteredBefore(0)
      [] pc \in {"enable", "done"} -> RegisteredBefore(2)
      [] pc = "secondPort" -> RegisteredBefore(1)
      [] OTHER -> RegisteredBefore(device)

Calm ==
    /\ \A p \in Ports : owed[p] = <<>>
    /\ pc \notin {"configure", "selfTest", "failed", "secondPort", "enable", "done"} /\ device = 0
            => config.off[1]
    /\ Configuring /\ SelfTesting /\ TestingPort /\ Resetting /\ IdentifyingDevice
    /\ IdentifyingKeyboard /\ SettingUpMouse /\ SettingUpKeyboard /\ LookingForSecondPort
    /\ Enabling /\ Finishing /\ Parameters /\ Registering

UndisturbedCalm == Undisturbed => Calm
Ps2Inv == Ps2Types /\ NoMouseSeen /\ FirstPortEmpty /\ SecondPortEmpty /\ UndisturbedCalm
-----------------------------------------------------------------------------
\* Ps2: the types and the place in the conversation.

LEMMA OneFewer ==
    ASSUME NEW s, NEW t, EndOf(s, t), t # <<>>, NEW u, u = Tail(t)
    PROVE  /\ EndOf(s, u) /\ Len(t) \in Nat /\ Len(t) >= 1 /\ Len(u) = Len(t) - 1
           /\ Head(t) = s[Len(s) - Len(t) + 1] /\ Head(t) = t[1] /\ Head(t) \in Instructions
  <1>1. t \in Seq(Instructions) /\ s \in Seq(Instructions) /\ Len(t) <= Len(s)
        /\ \A i \in 1 .. Len(t) : t[i] = s[Len(s) - Len(t) + i]
    BY DEF EndOf
  <1>2. Len(t) \in Nat /\ Len(t) >= 1 /\ Len(s) \in Nat
    BY <1>1
  <1>3. u \in Seq(Instructions) /\ Len(u) = Len(t) - 1 /\ \A i \in 1 .. Len(u) : u[i] = t[i + 1]
    BY <1>1, <1>2
  <1>4. Head(t) = t[1] /\ Head(t) \in Instructions
    BY <1>1, <1>2
  <1>5. \A i \in 1 .. Len(u) : u[i] = s[Len(s) - Len(u) + i]
    BY <1>1, <1>2, <1>3
  <1> QED BY <1>1, <1>2, <1>3, <1>4, <1>5 DEF EndOf

LEMMA WholeStretch ==
    ASSUME NEW s \in Seq(Instructions) PROVE EndOf(s, s)
  BY DEF EndOf

\* The instruction that is next, by the label and by what is left.
LEMMA InstructionAhead ==
    ASSUME Ps2Types, todo # <<>>
    PROVE  /\ left \in Nat /\ left >= 1 /\ left <= Len(Stretch(pc, device, config))
           /\ Head(todo) = Stretch(pc, device, config)[
                               Len(Stretch(pc, device, config)) - left + 1]
           /\ Head(todo) \in Instructions
  <1>1. PICK u : u = Tail(todo)
    OBVIOUS
  <1>2. EndOf(Stretch(pc, device, config), todo)
    BY DEF Ps2Types
  <1> QED BY <1>1, <1>2, OneFewer DEF left, EndOf

LEMMA LeftType ==
    ASSUME Ps2Types PROVE left \in Nat /\ (left = 0 <=> todo = <<>>)
  <1>1. todo \in Seq(Instructions)
    BY DEF Ps2Types, EndOf
  <1> QED BY <1>1 DEF left

\* The facts about single instructions on which the bytes under way depend.
LEMMA Program ==
    ASSUME Ps2Types, todo # <<>>
    PROVE  /\ Head(todo)[1] = "device" =>
                /\ Head(todo)[2] \in Ports /\ Head(todo)[3] \in Bytes
                /\ Head(todo)[2] = device \/ pc = "enable"
                /\ Head(todo)[2] = 1 => device = 1
                /\ Head(todo)[3] = "FF" => pc = "reset" /\ left = 3
                /\ pc \in {"identify", "mouse", "keyboard", "enable"}
                        \/ (pc = "reset" /\ Head(todo)[3] = "FF")
           /\ Head(todo)[1] = "command" =>
                /\ Head(todo)[2] \in Bytes
                /\ Head(todo)[2] \in {"AB", "A9"} => pc = "testPort"
           /\ Head(todo)[1] = "config" => Head(todo)[2] = config
           /\ pc = "reset" /\ left = 3 => Head(todo) = D(device, "FF")
           /\ pc = "reset" /\ left = 4 => Head(todo) = F
           /\ pc = "secondPort" /\ left = 3 => Head(todo) = F
           /\ pc = "identify" /\ left = 4 => Head(todo) = Ack
           /\ pc # "failed"
  <1>1. /\ left \in Nat /\ left >= 1 /\ left <= Len(Stretch(pc, device, config))
        /\ Head(todo) = Stretch(pc, device, config)[Len(Stretch(pc, device, config)) - left + 1]
    BY InstructionAhead
  <1>2. pc \in Labels /\ device \in Ports /\ Ports = {0, 1}
    BY DEF Ps2Types, Ports
  <1>3. CASE pc = "configure"
    BY <1>1, <1>2, <1>3 DEF Stretch, C, D, F, R, Ack, Bytes
  <1>4. CASE pc = "selfTest"
    BY <1>1, <1>2, <1>4 DEF Stretch, C, D, F, R, Ack, Bytes
  <1>5. CASE pc = "failed"
    BY <1>1, <1>2, <1>5 DEF Stretch, C, D, F, R, Ack, Bytes
  <1>6. CASE pc = "testPort"
    <2>1. CASE device = 0
      BY <1>1, <1>2, <1>6, <2>1 DEF Stretch, C, D, F, R, Ack, Bytes
    <2>2. CASE device = 1
      BY <1>1, <1>2, <1>6, <2>2 DEF Stretch, C, D, F, R, Ack, Bytes
    <2> QED BY <1>2, <2>1, <2>2
  <1>7. CASE pc = "reset"
    <2>1. CASE device = 0
      BY <1>1, <1>2, <1>7, <2>1 DEF Stretch, C, D, F, R, Ack, Bytes
    <2>2. CASE device = 1
      BY <1>1, <1>2, <1>7, <2>2 DEF Stretch, C, D, F, R, Ack, Bytes
    <2> QED BY <1>2, <2>1, <2>2
  <1>8. CASE pc = "identify"
    BY <1>1, <1>2, <1>8 DEF Stretch, C, D, F, R, Ack, Bytes
  <1>9. CASE pc = "identifyKeyboard"
    BY <1>1, <1>2, <1>9 DEF Stretch, C, D, F, R, Ack, Bytes
  <1>10. CASE pc = "mouse"
    BY <1>1, <1>2, <1>10 DEF Stretch, C, D, F, R, Ack, Bytes
  <1>11. CASE pc = "keyboard"
    BY <1>1, <1>2, <1>11 DEF Stretch, C, D, F, R, Ack, Bytes
  <1>12. CASE pc = "secondPort"
    BY <1>1, <1>2, <1>12 DEF Stretch, C, D, F, R, Ack, Bytes
  <1>13. CASE pc = "enable"
    <2>1. CASE device = 0
      BY <1>1, <1>2, <1>13, <2>1 DEF Stretch, C, D, F, R, Ack, Bytes
    <2>2. CASE device = 1
      BY <1>1, <1>2, <1>13, <2>2 DEF Stretch, C, D, F, R, Ack, Bytes
    <2> QED BY <1>2, <2>1, <2>2
  <1>14. CASE pc = "done"
    BY <1>1, <1>2, <1>14 DEF Stretch, C, D, F, R, Ack, Bytes
  <1> QED BY <1>2, <1>3, <1>4, <1>5, <1>6, <1>7, <1>8, <1>9, <1>10, <1>11, <1>12, <1>13,
             <1>14 DEF Labels

\* Where the reads are, and how many bytes have been read.
LEMMA ReadAhead ==
    ASSUME Ps2Types, todo # <<>>
    PROVE  BytesRead(pc, left - 1) = BytesRead(pc, left) + (IF Head(todo) = R THEN 1 ELSE 0)
  <1>1. /\ left \in Nat /\ left >= 1 /\ left <= Len(Stretch(pc, device, config))
        /\ Head(todo) = Stretch(pc, device, config)[Len(Stretch(pc, device, config)) - left + 1]
    BY InstructionAhead
  <1>2. pc \in Labels /\ device \in Ports /\ Ports = {0, 1}
    BY DEF Ps2Types, Ports
  <1>3. CASE pc = "configure"
    BY <1>1, <1>2, <1>3 DEF Stretch, C, D, F, R, Ack, BytesRead
  <1>4. CASE pc = "selfTest"
    BY <1>1, <1>2, <1>4 DEF Stretch, C, D, F, R, Ack, BytesRead
  <1>5. CASE pc = "failed"
    BY <1>1, <1>2, <1>5 DEF Stretch, C, D, F, R, Ack, BytesRead
  <1>6. CASE pc = "testPort"
    <2>1. CASE device = 0
      BY <1>1, <1>2, <1>6, <2>1 DEF Stretch, C, D, F, R, Ack, BytesRead
    <2>2. CASE device = 1
      BY <1>1, <1>2, <1>6, <2>2 DEF Stretch, C, D, F, R, Ack, BytesRead
    <2> QED BY <1>2, <2>1, <2>2
  <1>7. CASE pc = "reset"
    <2>1. CASE device = 0
      BY <1>1, <1>2, <1>7, <2>1 DEF Stretch, C, D, F, R, Ack, BytesRead
    <2>2. CASE device = 1
      BY <1>1, <1>2, <1>7, <2>2 DEF Stretch, C, D, F, R, Ack, BytesRead
    <2> QED BY <1>2, <2>1, <2>2
  <1>8. CASE pc = "identify"
    BY <1>1, <1>2, <1>8 DEF Stretch, C, D, F, R, Ack, BytesRead
  <1>9. CASE pc = "identifyKeyboard"
    BY <1>1, <1>2, <1>9 DEF Stretch, C, D, F, R, Ack, BytesRead
  <1>10. CASE pc = "mouse"
    BY <1>1, <1>2, <1>10 DEF Stretch, C, D, F, R, Ack, BytesRead
  <1>11. CASE pc = "keyboard"
    BY <1>1, <1>2, <1>11 DEF Stretch, C, D, F, R, Ack, BytesRead
  <1>12. CASE pc = "secondPort"
    BY <1>1, <1>2, <1>12 DEF Stretch, C, D, F, R, Ack, BytesRead
  <1>13. CASE pc = "enable"
    <2>1. CASE device = 0
      BY <1>1, <1>2, <1>13, <2>1 DEF Stretch, C, D, F, R, Ack, BytesRead
    <2>2. CASE device = 1
      BY <1>1, <1>2, <1>13, <2>2 DEF Stretch, C, D, F, R, Ack, BytesRead
    <2> QED BY <1>2, <2>1, <2>2
  <1>14. CASE pc = "done"
    BY <1>1, <1>2, <1>14 DEF Stretch, C, D, F, R, Ack, BytesRead
  <1> QED BY <1>2, <1>3, <1>4, <1>5, <1>6, <1>7, <1>8, <1>9, <1>10, <1>11, <1>12, <1>13,
             <1>14 DEF Labels

\* What the instructions have in common.
Advances == todo # <<>> /\ Advance
LEMMA AdvanceTypes ==
    ASSUME Ps2Types, Advances
    PROVE  /\ EndOf(Stretch(pc', device', config'), todo') /\ left' = left - 1
           /\ left \in Nat /\ left >= 1
           /\ pc' = pc /\ device' = device /\ config' = config /\ registered' = registered
  <1>1. todo' = Tail(todo) /\ UNCHANGED <<pc, device, config, registered>>
    BY DEF Advances, Advance
  <1>2. PICK u : u = todo'
    OBVIOUS
  <1>3. u = Tail(todo) /\ todo # <<>> /\ EndOf(Stretch(pc, device, config), todo)
    BY <1>1, <1>2 DEF Advances, Ps2Types
  <1>4. EndOf(Stretch(pc, device, config), u) /\ Len(u) = Len(todo) - 1 /\ Len(todo) \in Nat
        /\ Len(todo) >= 1
    BY <1>3, OneFewer
  <1> QED BY <1>1, <1>2, <1>4 DEF left
LEMMA OnlyReadIsRead ==
    ASSUME NEW i \in Instructions
    PROVE  /\ i[1] = "read" <=> i = R
           /\ i[1] \in {"read", "flush", "ack", "command", "device", "config"}
  BY DEF Instructions, R, F, Ack, C, D

LEMMA AnswerTypes ==
    ASSUME Ps2Types, NEW p \in Ports, NEW byte \in Bytes
    PROVE  Answers(p, byte) \in Seq(Bytes)
  <1>1. /\ <<"FA", "02">> \in Seq(Bytes) /\ <<"FA">> \in Seq(Bytes)
        /\ <<"FA", "AA", "00">> \in Seq(Bytes) /\ <<"FA", "AA">> \in Seq(Bytes)
        /\ <<"FA", "00">> \in Seq(Bytes) /\ <<"FA", "AB", "83">> \in Seq(Bytes)
    BY DEF Bytes
  <1> QED BY <1>1 DEF Answers

LEMMA ReceiveTypes ==
    ASSUME Ps2Types, NEW p \in Ports, NEW byte \in Bytes, Receive(p, byte)
    PROVE  /\ out' \in Seq(Bytes) /\ owed' \in [Ports -> Seq(Bytes)]
           /\ param' \in [Ports -> {"", "F0", "F3"}] /\ scanning' \in [Ports -> BOOLEAN]
           /\ UNCHANGED <<plugged, prompt, ctrl, keys>>
  <1>1. PICK a : a = Answers(p, byte)
    OBVIOUS
  <1>2. a \in Seq(Bytes)
    BY <1>1, AnswerTypes
  <1>3. /\ out \in Seq(Bytes) /\ owed \in [Ports -> Seq(Bytes)]
        /\ param \in [Ports -> {"", "F0", "F3"}] /\ scanning \in [Ports -> BOOLEAN]
    BY DEF Ps2Types
  <1>4. UNCHANGED <<plugged, prompt, ctrl, keys>>
    BY DEF Receive
  <1>5. CASE UNCHANGED <<out, owed, param, scanning>>
    BY <1>3, <1>4, <1>5
  <1>6. CASE ~UNCHANGED <<out, owed, param, scanning>>
    <2>1. /\ param' = [param EXCEPT ![p] = IF @ = "" /\ byte \in {"F0", "F3"} THEN byte ELSE ""]
          /\ scanning' = [scanning EXCEPT ![p] =
                CASE param[p] = "" /\ byte = "F5" -> FALSE
                  [] param[p] = "" /\ byte = "FF" -> plugged[p] \in Keyboards
                  [] param[p] = "" /\ byte = "F4" -> TRUE
                  [] OTHER -> @]
          /\ IF prompt THEN out' = out \o a /\ UNCHANGED owed
             ELSE owed' = [owed EXCEPT ![p] = @ \o a] /\ UNCHANGED out
      BY <1>1, <1>6 DEF Receive
    <2>2. param' \in [Ports -> {"", "F0", "F3"}]
      BY <1>3, <2>1
    <2>3. scanning' \in [Ports -> BOOLEAN]
      <3> DEFINE k == plugged[p] \in Keyboards
      <3>1. k \in BOOLEAN
        OBVIOUS
      <3>2. scanning' = [scanning EXCEPT ![p] =
                CASE param[p] = "" /\ byte = "F5" -> FALSE
                  [] param[p] = "" /\ byte = "FF" -> k
                  [] param[p] = "" /\ byte = "F4" -> TRUE
                  [] OTHER -> @]
        BY <2>1
      <3> HIDE DEF k
      <3>3. PICK v : v = (CASE param[p] = "" /\ byte = "F5" -> FALSE
                            [] param[p] = "" /\ byte = "FF" -> k
                            [] param[p] = "" /\ byte = "F4" -> TRUE
                            [] OTHER -> scanning[p])
        OBVIOUS
      <3>4. v \in BOOLEAN
        BY <1>3, <3>1, <3>3
      <3> QED BY <1>3, <3>2, <3>3, <3>4
    <2>4. PICK u : u = out \o a
      OBVIOUS
    <2>5. PICK w : w = owed[p] \o a
      OBVIOUS
    <2>6. u \in Seq(Bytes) /\ w \in Seq(Bytes)
      BY <1>2, <1>3, <2>4, <2>5, Concatenation
    <2>7. out' \in Seq(Bytes) /\ owed' \in [Ports -> Seq(Bytes)]
      BY <1>3, <2>1, <2>4, <2>5, <2>6
    <2> QED BY <1>4, <2>2, <2>3, <2>7
  <1> QED BY <1>5, <1>6

\* What the controller answers to a command.
Answered(byte, a) ==
    \/ byte = "20" /\ a = <<"config">>
    \/ byte = "AA" /\ a \in {<<"55">>, <<"FC">>}
    \/ byte \in {"AB", "A9"} /\ a = <<"00">>
    \/ byte \notin {"20", "AA", "AB", "A9"} /\ a = <<>>

LEMMA CommandAnswer ==
    ASSUME NEW byte, Command(byte)
    PROVE  \E a : Answered(byte, a) /\ out' = out \o a
  BY DEF Command, Answered

LEMMA CommandTypes ==
    ASSUME Ps2Types, NEW byte, Command(byte)
    PROVE  /\ out' \in Seq(Bytes) /\ ctrl' \in Configurations
           /\ UNCHANGED <<plugged, prompt, owed, param, scanning, keys>>
  <1>1. PICK a : Answered(byte, a) /\ out' = out \o a
    BY CommandAnswer
  <1>2. /\ <<"config">> \in Seq(Bytes) /\ <<"55">> \in Seq(Bytes) /\ <<"FC">> \in Seq(Bytes)
        /\ <<"00">> \in Seq(Bytes) /\ <<>> \in Seq(Bytes)
    BY DEF Bytes
  <1>3. a \in Seq(Bytes)
    BY <1>1, <1>2 DEF Answered
  <1>4. out' \in Seq(Bytes)
    <2>1. PICK u : u = out \o a
      OBVIOUS
    <2>2. out \in Seq(Bytes)
      BY DEF Ps2Types
    <2> QED BY <1>1, <1>3, <2>1, <2>2, Concatenation
  <1>5. ctrl \in Configurations /\ 0 \in Ports /\ 1 \in Ports
    BY DEF Ps2Types, Ports
  <1>6. \/ ctrl' = ctrl
        \/ \E p \in Ports, b \in BOOLEAN : ctrl' = [ctrl EXCEPT !.off[p] = b]
    BY <1>5 DEF Command
  <1>7. ctrl' \in Configurations
    BY <1>5, <1>6 DEF Configurations
  <1> QED BY <1>4, <1>7 DEF Command

\* An instruction that is done keeps the types if the hardware's keep theirs and
\* a byte was read by the reading one only.
HardwareTypes ==
    /\ plugged \in [Ports -> Kinds] /\ prompt \in BOOLEAN /\ ctrl \in Configurations
    /\ out \in Seq(Bytes) /\ owed \in [Ports -> Seq(Bytes)]
    /\ param \in [Ports -> {"", "F0", "F3"}] /\ scanning \in [Ports -> BOOLEAN] /\ keys \in Nat

LEMMA InstructionDone ==
    ASSUME Ps2Types, Advances, HardwareTypes', got' \in Seq(Bytes),
           Len(got') = Len(got) + (IF Head(todo) = R THEN 1 ELSE 0)
    PROVE  Ps2Types'
  <1>1. /\ EndOf(Stretch(pc', device', config'), todo') /\ left' = left - 1
        /\ pc' = pc /\ device' = device /\ config' = config /\ registered' = registered
    BY AdvanceTypes
  <1>2. BytesRead(pc, left - 1) = BytesRead(pc, left) + (IF Head(todo) = R THEN 1 ELSE 0)
    BY ReadAhead DEF Advances
  <1>3. Len(got') = BytesRead(pc', Len(todo'))
    BY <1>1, <1>2 DEF Ps2Types, left
  <1> QED BY <1>1, <1>3 DEF Ps2Types, HardwareTypes

LEMMA ByteType ==
    ASSUME Ps2Types PROVE Byte \in Bytes /\ (out # <<>> => Head(out) = out[1] /\ Len(out) >= 1)
  <1>1. out \in Seq(Bytes)
    BY DEF Ps2Types
  <1> QED BY <1>1 DEF Byte, Timeout, Bytes

LEMMA TakenTypes ==
    ASSUME Ps2Types, Taken PROVE out' \in Seq(Bytes)
  <1>1. out \in Seq(Bytes)
    BY DEF Ps2Types
  <1> QED BY <1>1 DEF Taken

LEMMA DriverInstructionTypes ==
    ASSUME Ps2Types,
           writeController \/ writeDevice \/ writeConfigurationByte \/ flushOutputBuffer
               \/ read \/ WaitForAck
    PROVE  Ps2Types'
  <1>1. todo # <<>>
    BY DEF writeController, writeDevice, writeConfigurationByte, flushOutputBuffer, read,
           WaitForAck, Instruction
  <1>2. Head(todo) \in Instructions
    BY <1>1, InstructionAhead
  <1>3. Head(todo) = R <=> Head(todo)[1] = "read"
    BY <1>2, OnlyReadIsRead
  <1>4. /\ got \in Seq(Bytes) /\ Len(got) \in Nat /\ out \in Seq(Bytes)
        /\ config \in Configurations /\ <<>> \in Seq(Bytes)
    <2>1. got \in Seq(Bytes) /\ out \in Seq(Bytes) /\ config \in Configurations
      BY DEF Ps2Types
    <2> QED BY <2>1
  <1>5. CASE writeController
    <2>1. HardwareTypes'
      BY <1>5, CommandTypes DEF writeController, HardwareTypes, Ps2Types
    <2> QED BY <1>1, <1>3, <1>4, <1>5, <2>1, InstructionDone
            DEF writeController, Instruction, Advances
  <1>6. CASE writeDevice
    <2>1. Head(todo)[2] \in Ports /\ Head(todo)[3] \in Bytes
      BY <1>1, <1>6, Program DEF writeDevice, Instruction
    <2>2. HardwareTypes'
      BY <1>6, <2>1, ReceiveTypes DEF writeDevice, HardwareTypes, Ps2Types
    <2> QED BY <1>1, <1>3, <1>4, <1>6, <2>2, InstructionDone
            DEF writeDevice, Instruction, Advances
  <1>7. CASE writeConfigurationByte
    <2>1. Head(todo)[2] = config
      BY <1>1, <1>7, Program DEF writeConfigurationByte, Instruction
    <2>2. HardwareTypes'
      BY <1>4, <1>7, <2>1 DEF writeConfigurationByte, HardwareTypes, Ps2Types
    <2> QED BY <1>1, <1>3, <1>4, <1>7, <2>2, InstructionDone
            DEF writeConfigurationByte, Instruction, Advances
  <1>8. CASE flushOutputBuffer
    <2>1. HardwareTypes'
      BY <1>4, <1>8 DEF flushOutputBuffer, HardwareTypes, Ps2Types
    <2> QED BY <1>1, <1>3, <1>4, <1>8, <2>1, InstructionDone
            DEF flushOutputBuffer, Instruction, Advances
  <1>9. CASE read
    <2>1. HardwareTypes'
      BY <1>9, TakenTypes DEF read, HardwareTypes, Ps2Types
    <2>2. got' \in Seq(Bytes) /\ Len(got') = Len(got) + 1
      BY <1>4, <1>9, ByteType DEF read
    <2> QED BY <1>1, <1>3, <1>9, <2>1, <2>2, InstructionDone DEF read, Instruction, Advances
  <1>10. CASE WaitForAck
    <2>1. HardwareTypes' /\ got' = got
      BY <1>10, TakenTypes DEF WaitForAck, HardwareTypes, Ps2Types
    <2>2. CASE Byte = "FA"
      BY <1>1, <1>3, <1>4, <1>10, <2>1, <2>2, InstructionDone
         DEF WaitForAck, Instruction, Advances
    <2>3. CASE Byte # "FA"
      BY <1>10, <2>1, <2>3 DEF WaitForAck, Ps2Types, HardwareTypes
    <2> QED BY <2>2, <2>3
  <1> QED BY <1>5, <1>6, <1>7, <1>8, <1>9, <1>10
LEMMA NothingReadYet ==
    ASSUME NEW label \in Labels, NEW d \in Ports, NEW c
    PROVE  BytesRead(label, Len(Stretch(label, d, c))) = 0
  <1>1. CASE label \in {"configure", "selfTest"}
    BY <1>1 DEF Stretch, BytesRead
  <1>2. CASE label \in {"testPort", "enable"}
    BY <1>2 DEF Stretch, BytesRead
  <1>3. CASE label \in {"reset", "identify", "identifyKeyboard"}
    BY <1>3 DEF Stretch, BytesRead
  <1>4. CASE label \in {"mouse", "failed", "done"}
    BY <1>4 DEF BytesRead
  <1>5. CASE label = "keyboard"
    BY <1>5 DEF Stretch, BytesRead
  <1>6. CASE label = "secondPort"
    BY <1>6 DEF Stretch, BytesRead
  <1> QED BY <1>1, <1>2, <1>3, <1>4, <1>5, <1>6 DEF Labels

\* The stretches as the branches put them together.
LEMMA StretchesJoined ==
    ASSUME NEW c
    PROVE  /\ writeConfiguration(c) \o readConfiguration \o <<C("AA"), R>>
                  = <<C("60"), <<"config", c>>, F, F, C("20"), R, C("AA"), R>>
           /\ <<C("A8")>> \o readConfiguration = <<C("A8"), F, C("20"), R>>
           /\ <<D(0, "F4")>> \o readConfiguration = <<D(0, "F4"), F, C("20"), R>>
           /\ <<D(1, "F4"), D(0, "F4")>> \o readConfiguration
                  = <<D(1, "F4"), D(0, "F4"), F, C("20"), R>>
           /\ <<C("AD"), C("A7"), F>> \o readConfiguration
                  = <<C("AD"), C("A7"), F, F, C("20"), R>>
  <1>1. writeConfiguration(c) \o readConfiguration
            = <<C("60"), <<"config", c>>, F, F, C("20"), R>>
    BY Join33 DEF writeConfiguration, readConfiguration
  <1>2. <<C("60"), <<"config", c>>, F, F, C("20"), R>> \o <<C("AA"), R>>
            = <<C("60"), <<"config", c>>, F, F, C("20"), R, C("AA"), R>>
    BY Join62
  <1>3. /\ <<C("A8")>> \o readConfiguration = <<C("A8"), F, C("20"), R>>
        /\ <<D(0, "F4")>> \o readConfiguration = <<D(0, "F4"), F, C("20"), R>>
    BY Join13 DEF readConfiguration
  <1>4. <<D(1, "F4"), D(0, "F4")>> \o readConfiguration
            = <<D(1, "F4"), D(0, "F4"), F, C("20"), R>>
    BY Join23 DEF readConfiguration
  <1>5. <<C("AD"), C("A7"), F>> \o readConfiguration = <<C("AD"), C("A7"), F, F, C("20"), R>>
    BY Join33 DEF readConfiguration
  <1> QED BY <1>1, <1>2, <1>3, <1>4, <1>5

\* A stretch begins.
Begins ==
    /\ pc' \in Labels /\ device' \in Ports /\ config' \in Configurations
    /\ registered' \in [Ports -> {"none", "mouse", "keyboard"}]
    /\ got' = <<>> /\ todo' = Stretch(pc', device', config')
    /\ pc' \in {"configure", "selfTest", "secondPort"} => device' = 0

LEMMA BeginTypes ==
    ASSUME Ps2Types, Begins, UNCHANGED hardware
    PROVE  Ps2Types'
  <1>1. Stretch(pc', device', config') \in Seq(Instructions)
    BY StretchTypes DEF Begins
  <1>2. EndOf(Stretch(pc', device', config'), todo')
    BY <1>1, WholeStretch DEF Begins
  <1>3. Len(got') = BytesRead(pc', Len(todo'))
    BY NothingReadYet DEF Begins
  <1>4. got' \in Seq(Bytes)
    BY DEF Begins
  <1> QED BY <1>2, <1>3, <1>4 DEF Begins, Ps2Types, hardware

\* Where initDevice leads when it returns.
LEMMA LeaveBegins ==
    ASSUME Ps2Types, Leave, UNCHANGED <<device, config>>
    PROVE  /\ pc' \in Labels /\ got' = <<>> /\ todo' = Stretch(pc', device', config')
           /\ pc' = IF device = 0 /\ config.off[1] THEN "secondPort" ELSE "enable"
  <1>1. device \in Ports /\ Ports = {0, 1}
    BY DEF Ps2Types, Ports
  <1>2. /\ <<C("A8")>> \o readConfiguration = <<C("A8"), F, C("20"), R>>
        /\ <<D(0, "F4")>> \o readConfiguration = <<D(0, "F4"), F, C("20"), R>>
        /\ <<D(1, "F4"), D(0, "F4")>> \o readConfiguration
               = <<D(1, "F4"), D(0, "F4"), F, C("20"), R>>
    BY StretchesJoined
  <1>3. CASE device = 0 /\ config.off[1]
    <2>1. pc' = "secondPort" /\ got' = <<>> /\ todo' = <<C("A8"), F, C("20"), R>>
      <3>1. Goto("secondPort", <<C("A8")>> \o readConfiguration)
        BY <1>3 DEF Leave
      <3> QED BY <1>2, <3>1 DEF Goto
    <2> QED BY <1>3, <2>1 DEF Stretch, Labels
  <1>4. CASE device = 0 /\ ~config.off[1]
    <2>1. pc' = "enable" /\ got' = <<>> /\ todo' = <<D(0, "F4"), F, C("20"), R>>
      <3>1. Goto("enable", <<D(0, "F4")>> \o readConfiguration)
        BY <1>4 DEF Leave
      <3> QED BY <1>2, <3>1 DEF Goto
    <2> QED BY <1>4, <2>1 DEF Stretch, Labels
  <1>5. CASE device = 1
    <2>1. pc' = "enable" /\ got' = <<>> /\ todo' = <<D(1, "F4"), D(0, "F4"), F, C("20"), R>>
      <3>1. Goto("enable", <<D(1, "F4"), D(0, "F4")>> \o readConfiguration)
        BY <1>5 DEF Leave
      <3> QED BY <1>2, <3>1 DEF Goto
    <2> QED BY <1>5, <2>1 DEF Stretch, Labels
  <1> QED BY <1>1, <1>3, <1>4, <1>5

LEMMA BitsType ==
    ASSUME Ps2Types, NEW byte PROVE Bits(byte) \in Configurations
  <1>1. ctrl \in Configurations
    BY DEF Ps2Types
  <1>2. CASE byte = "config"
    BY <1>1, <1>2 DEF Bits
  <1>3. CASE byte # "config"
    <2> DEFINE f1 == byte \in {"FF", "AB", "83", "55"}
               f2 == byte \in {"FF", "FA", "AA", "AB", "83", "02", "key"}
               g0 == byte \in {"FF", "FA", "55", "key"}
               g1 == byte \in {"FF", "FA", "AA", "AB"}
               f3 == byte \in {"FF", "FA", "55"}
    <2>1. f1 \in BOOLEAN /\ f2 \in BOOLEAN /\ g0 \in BOOLEAN /\ g1 \in BOOLEAN /\ f3 \in BOOLEAN
      OBVIOUS
    <2>2. Bits(byte) = [irq1 |-> f1, irq12 |-> f2,
                        off |-> [p \in Ports |-> IF p = 0 THEN g0 ELSE g1],
                        translation |-> f3]
      BY <1>3 DEF Bits
    <2> HIDE DEF f1, f2, g0, g1, f3
    <2>3. PICK o : o = [p \in Ports |-> IF p = 0 THEN g0 ELSE g1]
      OBVIOUS
    <2>4. o \in [Ports -> BOOLEAN]
      BY <2>1, <2>3
    <2> QED BY <2>1, <2>2, <2>3, <2>4 DEF Configurations
  <1> QED BY <1>2, <1>3

\* The branches, each with what it leads to.
LEMMA ConfigureGoes ==
    ASSUME Ps2Types, configure
    PROVE  Begins /\ pc' = "selfTest" /\ UNCHANGED <<device, registered>>
           /\ config' = [Bits(got[1]) EXCEPT !.irq1 = FALSE, !.irq12 = FALSE, !.translation = FALSE]
  <1>1. /\ config' = [Bits(got[1]) EXCEPT !.irq1 = FALSE, !.irq12 = FALSE, !.translation = FALSE]
        /\ Goto("selfTest", writeConfiguration(config') \o readConfiguration \o <<C("AA"), R>>)
        /\ UNCHANGED <<device, registered>>
    BY DEF configure
  <1>2. config' \in Configurations
    BY <1>1, BitsType DEF Configurations
  <1>3. PICK c : c = config'
    OBVIOUS
  <1>4. todo' = Stretch("selfTest", device', config')
    BY <1>1, <1>3, StretchesJoined DEF Goto, Stretch
  <1>5. device = 0
    BY DEF configure, Ps2Types
  <1> QED BY <1>1, <1>2, <1>4, <1>5 DEF Begins, Goto, Labels, Ps2Types

LEMMA SelfTestGoes ==
    ASSUME Ps2Types, selfTest
    PROVE  /\ Begins /\ UNCHANGED registered /\ config' = Bits(got[1])
           /\ \/ pc' = "failed" /\ UNCHANGED device
              \/ pc' = "testPort" /\ device' = 0
  <1>1. config' \in Configurations
    BY BitsType DEF selfTest
  <1>2. CASE Goto("failed", <<>>) /\ UNCHANGED device
    BY <1>1, <1>2 DEF selfTest, Begins, Goto, Labels, Ps2Types, Stretch
  <1>3. CASE initDevice(0)
    BY <1>1, <1>3 DEF selfTest, initDevice, Begins, Goto, Labels, Ps2Types, Stretch, Ports
  <1> QED BY <1>2, <1>3 DEF selfTest

LEMMA TestPortGoes ==
    ASSUME Ps2Types, testPort
    PROVE  /\ Begins /\ UNCHANGED <<device, config, registered>>
           /\ \/ got[1] # "00" /\ Leave
              \/ got[1] = "00" /\ pc' = "reset"
  <1>1. CASE got[1] # "00" /\ Leave
    BY <1>1, LeaveBegins DEF testPort, Begins, Ps2Types
  <1>2. CASE got[1] = "00"
    BY <1>2 DEF testPort, Begins, Goto, Labels, Ps2Types, Stretch
  <1> QED BY <1>1, <1>2 DEF testPort

LEMMA ResetGoes ==
    ASSUME Ps2Types, reset
    PROVE  /\ Begins /\ UNCHANGED <<device, config, registered>>
           /\ \/ got # <<"FA", "AA">> /\ Leave
              \/ got = <<"FA", "AA">> /\ pc' = "identify"
  <1>1. CASE got # <<"FA", "AA">> /\ Leave
    BY <1>1, LeaveBegins DEF reset, Begins, Ps2Types
  <1>2. CASE got = <<"FA", "AA">>
    BY <1>2 DEF reset, Begins, Goto, Labels, Ps2Types, Stretch
  <1> QED BY <1>1, <1>2 DEF reset

LEMMA KeyboardGoes ==
    ASSUME Ps2Types, setupKeyboard, UNCHANGED <<device, config, registered>>
    PROVE  Begins /\ pc' = "keyboard"
  BY DEF setupKeyboard, Begins, Goto, Labels, Ps2Types, Stretch

LEMMA IdentifyGoes ==
    ASSUME Ps2Types, identify
    PROVE  /\ Begins /\ UNCHANGED <<device, config, registered>>
           /\ \/ got[1] = Timeout /\ pc' = "keyboard"
              \/ got[1] = "00" /\ pc' = "mouse"
              \/ got[1] = "AB" /\ pc' = "identifyKeyboard"
              \/ got[1] \notin {Timeout, "00", "AB"} /\ Leave
  <1>1. CASE got[1] = Timeout
    BY <1>1, KeyboardGoes DEF identify, Timeout
  <1>2. CASE got[1] = "00"
    BY <1>2 DEF identify, setupMouse, Begins, Goto, Labels, Ps2Types, Stretch, Timeout
  <1>3. CASE got[1] = "AB"
    BY <1>3 DEF identify, Begins, Goto, Labels, Ps2Types, Stretch, Timeout
  <1>4. CASE got[1] \notin {Timeout, "00", "AB"}
    BY <1>4, LeaveBegins DEF identify, Begins, Ps2Types
  <1> QED BY <1>1, <1>2, <1>3, <1>4

LEMMA IdentifyKeyboardGoes ==
    ASSUME Ps2Types, identifyKeyboard
    PROVE  /\ Begins /\ UNCHANGED <<device, config, registered>>
           /\ \/ got[1] = "83" /\ pc' = "keyboard"
              \/ got[1] # "83" /\ Leave
  <1>1. CASE got[1] = "83"
    BY <1>1, KeyboardGoes DEF identifyKeyboard
  <1>2. CASE got[1] # "83"
    BY <1>2, LeaveBegins DEF identifyKeyboard, Begins, Ps2Types
  <1> QED BY <1>1, <1>2

LEMMA RegisterGoes ==
    ASSUME Ps2Types, register
    PROVE  /\ Begins /\ UNCHANGED <<device, config>> /\ Leave
           /\ registered' = [registered EXCEPT ![device] = pc]
           /\ pc \in {"mouse", "keyboard"}
  <1>1. registered' \in [Ports -> {"none", "mouse", "keyboard"}]
    BY DEF register, Ps2Types
  <1> QED BY <1>1, LeaveBegins DEF register, Begins, Ps2Types

LEMMA SecondPortGoes ==
    ASSUME Ps2Types, secondPort
    PROVE  /\ Begins /\ UNCHANGED registered /\ config' = Bits(got[1])
           /\ \/ pc' = "enable" /\ UNCHANGED device /\ config'.off[1]
              \/ pc' = "testPort" /\ device' = 1 /\ ~config'.off[1]
  <1>1. config' \in Configurations
    BY BitsType DEF secondPort
  <1>2. CASE config'.off[1]
    <2>1. device = 0 /\ device' = 0
      BY <1>2 DEF secondPort, Ps2Types
    <2>2. <<D(0, "F4")>> \o readConfiguration = <<D(0, "F4"), F, C("20"), R>>
      BY StretchesJoined
    <2>3. pc' = "enable" /\ got' = <<>> /\ todo' = <<D(0, "F4"), F, C("20"), R>>
      BY <1>2, <2>2 DEF secondPort, Goto
    <2> QED BY <1>1, <1>2, <2>1, <2>3 DEF secondPort, Begins, Labels, Ps2Types, Stretch
  <1>3. CASE ~config'.off[1]
    <2>1. /\ pc' = "testPort" /\ got' = <<>> /\ todo' = <<C("A7"), F, C("A9"), R>>
          /\ device' = 1
      BY <1>3 DEF secondPort, Goto
    <2>2. todo' = Stretch(pc', device', config')
      BY <2>1 DEF Stretch
    <2>3. UNCHANGED registered /\ config' = Bits(got[1])
      BY DEF secondPort
    <2> QED BY <1>1, <1>3, <2>1, <2>2, <2>3 DEF Begins, Labels, Ps2Types, Ports
  <1> QED BY <1>2, <1>3

LEMMA EnableGoes ==
    ASSUME Ps2Types, enable
    PROVE  /\ Begins /\ UNCHANGED <<device, registered>> /\ pc' = "done"
           /\ config' = [Bits(got[1]) EXCEPT !.irq1 = TRUE, !.irq12 = TRUE]
  <1>1. config' \in Configurations
    BY BitsType DEF enable, Configurations
  <1> QED BY <1>1 DEF enable, Begins, Goto, Labels, Ps2Types, Stretch, writeConfiguration

LEMMA BranchBegins ==
    ASSUME Ps2Types, Branch
    PROVE  Begins /\ UNCHANGED hardware /\ left = 0
  <1>1. Begins
    BY ConfigureGoes, SelfTestGoes, TestPortGoes, ResetGoes, IdentifyGoes, IdentifyKeyboardGoes,
       RegisterGoes, SecondPortGoes, EnableGoes DEF Branch
  <1>2. left = 0
    BY LeftType DEF Branch
  <1> QED BY <1>1, <1>2 DEF Branch
LEMMA ArriveTypes ==
    ASSUME Ps2Types, NEW p \in Ports, Arrive(p)
    PROVE  Ps2Types' /\ UNCHANGED driver
  <1>1. owed[p] \in Seq(Bytes) /\ owed[p] # <<>> /\ out \in Seq(Bytes)
        /\ owed \in [Ports -> Seq(Bytes)]
    BY DEF Ps2Types, Arrive
  <1>2. PICK w : w = Tail(owed[p])
    OBVIOUS
  <1>3. PICK o : o = Append(out, Head(owed[p]))
    OBVIOUS
  <1>4. w \in Seq(Bytes) /\ o \in Seq(Bytes)
    BY <1>1, <1>2, <1>3
  <1>5. /\ out' = o /\ owed' = [owed EXCEPT ![p] = w]
        /\ UNCHANGED <<driver, plugged, prompt, ctrl, param, scanning, keys>>
    BY <1>2, <1>3 DEF Arrive
  <1>6. out' \in Seq(Bytes) /\ owed' \in [Ports -> Seq(Bytes)]
    BY <1>1, <1>4, <1>5
  <1> QED BY <1>5, <1>6 DEF Ps2Types, driver

LEMMA TypeTypes ==
    ASSUME Ps2Types, NEW p \in Ports, Type(p)
    PROVE  Ps2Types' /\ UNCHANGED driver /\ keys' # 0
  <1>1. owed[p] \in Seq(Bytes) /\ out \in Seq(Bytes) /\ owed \in [Ports -> Seq(Bytes)]
        /\ "key" \in Bytes
    BY DEF Ps2Types, Bytes
  <1>2. PICK w : w = Append(owed[p], "key")
    OBVIOUS
  <1>3. PICK o : o = Append(out, "key")
    OBVIOUS
  <1>4. w \in Seq(Bytes) /\ o \in Seq(Bytes)
    BY <1>1, <1>2, <1>3
  <1>5. /\ \/ out' = o /\ owed' = owed
           \/ out' = out /\ owed' = [owed EXCEPT ![p] = w]
        /\ UNCHANGED <<driver, plugged, prompt, ctrl, param, scanning>>
        /\ keys' = keys + 1
    <2>1. /\ \/ out' = Append(out, "key") /\ owed' = owed
             \/ out' = out /\ owed' = [owed EXCEPT ![p] = Append(owed[p], "key")]
          /\ UNCHANGED <<driver, plugged, prompt, ctrl, param, scanning>>
          /\ keys' = keys + 1
      BY DEF Type
    <2> QED BY <1>2, <1>3, <2>1
  <1>6. out' \in Seq(Bytes) /\ owed' \in [Ports -> Seq(Bytes)]
    BY <1>1, <1>4, <1>5
  <1>7. keys' \in Nat /\ keys' # 0
    <2>1. keys \in Nat
      BY DEF Ps2Types
    <2> QED BY <1>5, <2>1
  <1> QED BY <1>5, <1>6, <1>7 DEF Ps2Types, driver

LEMMA Ps2InitTypes ==
    ASSUME Ps2Assumption, Ps2Init PROVE Ps2Types
  <1>1. PICK m \in Machines : plugged = [p \in Ports |-> m[p + 1]]
    BY DEF Ps2Init
  <1>2. m \in Kinds \X Kinds
    BY <1>1 DEF Ps2Assumption
  <1>3. plugged \in [Ports -> Kinds]
    BY <1>1, <1>2 DEF Ports
  <1>4. todo = Stretch("configure", device, config)
    BY StretchesJoined DEF Ps2Init, Stretch
  <1>5. ctrl \in Configurations
    BY DEF Ps2Init, Configurations
  <1>6. device \in Ports /\ device = 0 /\ pc = "configure" /\ pc \in Labels /\ config = ctrl
    BY DEF Ps2Init, Ports, Labels
  <1>7. EndOf(Stretch(pc, device, config), todo)
    BY <1>4, <1>5, <1>6, StretchTypes, WholeStretch
  <1>8. Len(got) = BytesRead(pc, Len(todo))
    BY <1>4, <1>6, NothingReadYet DEF Ps2Init
  <1>9. /\ got \in Seq(Bytes) /\ out \in Seq(Bytes) /\ owed \in [Ports -> Seq(Bytes)]
        /\ registered \in [Ports -> {"none", "mouse", "keyboard"}]
    <2>1. /\ got = <<>> /\ out = <<>> /\ owed = [p \in Ports |-> <<>>]
          /\ registered = [p \in Ports |-> "none"]
      BY DEF Ps2Init
    <2>2. <<>> \in Seq(Bytes)
      OBVIOUS
    <2> QED BY <2>1, <2>2
  <1>10. param \in [Ports -> {"", "F0", "F3"}] /\ keys \in Nat
    BY DEF Ps2Init
  <1>11. scanning \in [Ports -> BOOLEAN]
    BY DEF Ps2Init
  <1>12. prompt \in BOOLEAN
    BY DEF Ps2Init
  <1> QED BY <1>3, <1>5, <1>6, <1>7, <1>8, <1>9, <1>10, <1>11, <1>12 DEF Ps2Types

LEMMA Ps2NextTypes ==
    ASSUME Ps2Types, [Ps2Next]_ps2Vars PROVE Ps2Types'
  <1>1. CASE UNCHANGED ps2Vars
    BY <1>1 DEF ps2Vars, Ps2Types
  <1>2. CASE Driver
    BY <1>2, DriverInstructionTypes, BranchBegins, BeginTypes DEF Driver
  <1>3. CASE \E p \in Ports : Arrive(p) \/ Type(p)
    BY <1>3, ArriveTypes, TypeTypes
  <1> QED BY <1>1, <1>2, <1>3 DEF Ps2Next

-----------------------------------------------------------------------------
\* Ps2: how a sequence of bytes grows and shrinks.

LEMMA HasAppended ==
    ASSUME NEW s \in Seq(Bytes), NEW x, NEW b, NEW t, t = Append(s, x)
    PROVE  /\ Holds(t, b) <=> Holds(s, b) \/ x = b
           /\ Single(s, b) /\ (x = b => ~Holds(s, b)) => Single(t, b)
           /\ Single(t, b) => Single(s, b)
  <1>1. /\ DOMAIN s = 1 .. Len(s) /\ Len(s) \in Nat /\ DOMAIN t = 1 .. Len(s) + 1
        /\ t[Len(s) + 1] = x /\ \A i \in 1 .. Len(s) : t[i] = s[i]
    OBVIOUS
  <1> QED BY <1>1 DEF Holds, Single

LEMMA HasTail ==
    ASSUME NEW s \in Seq(Bytes), s # <<>>, NEW b, NEW t, t = Tail(s), NEW x, x = Head(s)
    PROVE  /\ Holds(s, b) <=> Holds(t, b) \/ x = b
           /\ Single(s, b) => Single(t, b) /\ (x = b => ~Holds(t, b))
  <1>1. /\ DOMAIN s = 1 .. Len(s) /\ Len(s) \in Nat /\ Len(s) >= 1 /\ DOMAIN t = 1 .. Len(s) - 1
        /\ x = s[1] /\ \A i \in 1 .. Len(s) - 1 : t[i] = s[i + 1]
    OBVIOUS
  <1>2. Holds(s, b) => Holds(t, b) \/ x = b
    <2>1. SUFFICES ASSUME NEW i \in 1 .. Len(s), s[i] = b, i # 1 PROVE Holds(t, b)
      BY <1>1 DEF Holds
    <2>2. i - 1 \in 1 .. Len(s) - 1 /\ t[i - 1] = s[i]
      BY <1>1, <2>1
    <2> QED BY <1>1, <2>1, <2>2 DEF Holds
  <1>3. Holds(t, b) \/ x = b => Holds(s, b)
    BY <1>1 DEF Holds
  <1>4. Single(s, b) => Single(t, b) /\ (x = b => ~Holds(t, b))
    BY <1>1 DEF Holds, Single
  <1> QED BY <1>2, <1>3, <1>4

LEMMA HasConcatenated ==
    ASSUME NEW s \in Seq(Bytes), NEW t \in Seq(Bytes), NEW b, NEW u, u = s \o t
    PROVE  /\ Holds(u, b) <=> Holds(s, b) \/ Holds(t, b)
           /\ Single(s, b) /\ ~Holds(t, b) => Single(u, b)
           /\ Single(t, b) /\ ~Holds(s, b) => Single(u, b)
  <1>1. /\ DOMAIN s = 1 .. Len(s) /\ Len(s) \in Nat /\ DOMAIN t = 1 .. Len(t) /\ Len(t) \in Nat
        /\ DOMAIN u = 1 .. Len(s) + Len(t)
        /\ \A i \in 1 .. Len(s) : u[i] = s[i]
        /\ \A i \in 1 .. Len(t) : u[Len(s) + i] = t[i]
    <2>1. u \in Seq(Bytes) /\ Len(u) = Len(s) + Len(t)
      BY Concatenation
    <2>2. /\ \A i \in 1 .. Len(s) : u[i] = s[i]
          /\ \A i \in 1 .. Len(t) : u[Len(s) + i] = t[i]
      BY Concatenation
    <2> QED BY <2>1, <2>2
  <1>2. \A i \in 1 .. Len(s) + Len(t) :
            i \in 1 .. Len(s) \/ \E j \in 1 .. Len(t) : i = Len(s) + j /\ u[i] = t[j]
    <2>1. SUFFICES ASSUME NEW i \in 1 .. Len(s) + Len(t), i \notin 1 .. Len(s)
                   PROVE  \E j \in 1 .. Len(t) : i = Len(s) + j /\ u[i] = t[j]
      OBVIOUS
    <2>2. i - Len(s) \in 1 .. Len(t) /\ i = Len(s) + (i - Len(s))
      BY <1>1, <2>1
    <2> QED BY <1>1, <2>2
  <1>3. \A j \in 1 .. Len(t) : Len(s) + j \in 1 .. Len(s) + Len(t)
    BY <1>1
  <1>4. \A i \in 1 .. Len(s) : i \in 1 .. Len(s) + Len(t)
    BY <1>1
  <1>5. Holds(u, b) => Holds(s, b) \/ Holds(t, b)
    <2>1. SUFFICES ASSUME NEW i \in 1 .. Len(s) + Len(t), u[i] = b PROVE Holds(s, b) \/ Holds(t, b)
      BY <1>1 DEF Holds
    <2> QED BY <1>1, <1>2, <2>1 DEF Holds
  <1>6. Holds(s, b) => Holds(u, b)
    <2>1. SUFFICES ASSUME NEW i \in 1 .. Len(s), s[i] = b PROVE Holds(u, b)
      BY <1>1 DEF Holds
    <2> QED BY <1>1, <1>4, <2>1 DEF Holds
  <1>7. Holds(t, b) => Holds(u, b)
    <2>1. SUFFICES ASSUME NEW i \in 1 .. Len(t), t[i] = b PROVE Holds(u, b)
      BY <1>1 DEF Holds
    <2> QED BY <1>1, <1>3, <2>1 DEF Holds
  <1>8. ASSUME Single(s, b), ~Holds(t, b) PROVE Single(u, b)
    <2>1. SUFFICES ASSUME NEW i \in 1 .. Len(s) + Len(t), NEW j \in 1 .. Len(s) + Len(t),
                          u[i] = b, u[j] = b
                   PROVE  i = j
      BY <1>1 DEF Single
    <2>2. i \in 1 .. Len(s)
      <3>1. SUFFICES ASSUME i \notin 1 .. Len(s) PROVE FALSE
        OBVIOUS
      <3>2. PICK k \in 1 .. Len(t) : u[i] = t[k]
        BY <1>2, <2>1, <3>1
      <3> QED BY <1>1, <1>8, <2>1, <3>2 DEF Holds
    <2>3. j \in 1 .. Len(s)
      <3>1. SUFFICES ASSUME j \notin 1 .. Len(s) PROVE FALSE
        OBVIOUS
      <3>2. PICK k \in 1 .. Len(t) : u[j] = t[k]
        BY <1>2, <2>1, <3>1
      <3> QED BY <1>1, <1>8, <2>1, <3>2 DEF Holds
    <2> QED BY <1>1, <1>8, <2>1, <2>2, <2>3 DEF Single
  <1>9. ASSUME Single(t, b), ~Holds(s, b) PROVE Single(u, b)
    <2>1. SUFFICES ASSUME NEW i \in 1 .. Len(s) + Len(t), NEW j \in 1 .. Len(s) + Len(t),
                          u[i] = b, u[j] = b
                   PROVE  i = j
      BY <1>1 DEF Single
    <2>2. i \notin 1 .. Len(s) /\ j \notin 1 .. Len(s)
      BY <1>1, <1>9, <2>1 DEF Holds
    <2>3. PICK k \in 1 .. Len(t) : i = Len(s) + k /\ u[i] = t[k]
      BY <1>2, <2>1, <2>2
    <2>4. PICK l \in 1 .. Len(t) : j = Len(s) + l /\ u[j] = t[l]
      BY <1>2, <2>1, <2>2
    <2> QED BY <1>1, <1>9, <2>1, <2>3, <2>4 DEF Single
  <1> QED BY <1>5, <1>6, <1>7, <1>8, <1>9

LEMMA HasNothing ==
    ASSUME NEW b PROVE ~Holds(<<>>, b) /\ Single(<<>>, b)
  BY DEF Holds, Single

LEMMA NoneIsSingle ==
    ASSUME NEW s, NEW b, ~Holds(s, b) PROVE Single(s, b)
  BY DEF Holds, Single

-----------------------------------------------------------------------------
\* Ps2: no step adds a byte to those under way but the ones that produce it.

Keeps(b) == (None(b) => None(b)') /\ (AtMostOne(b) => AtMostOne(b)')

LEMMA SameBytesKept ==
    ASSUME NEW b, UNCHANGED <<got, out, owed>> PROVE Keeps(b)
  BY DEF Keeps, None, NoneOf, AtMostOne, OneOf

LEMMA BytesHeld ==
    ASSUME Ps2Types
    PROVE  /\ got \in Seq(Bytes) /\ out \in Seq(Bytes) /\ owed \in [Ports -> Seq(Bytes)]
           /\ owed[0] \in Seq(Bytes) /\ owed[1] \in Seq(Bytes) /\ Ports = {0, 1}
           /\ <<>> \in Seq(Bytes)
  <1>1. got \in Seq(Bytes) /\ out \in Seq(Bytes) /\ owed \in [Ports -> Seq(Bytes)]
    BY DEF Ps2Types
  <1>2. Ports = {0, 1}
    BY DEF Ports
  <1> QED BY <1>1, <1>2

LEMMA ArriveKeeps ==
    ASSUME Ps2Types, NEW p \in Ports, Arrive(p), NEW b PROVE Keeps(b)
  <1>1. /\ owed[p] \in Seq(Bytes) /\ owed[p] # <<>> /\ out \in Seq(Bytes) /\ p \in {0, 1}
        /\ owed \in [Ports -> Seq(Bytes)] /\ Ports = {0, 1}
    BY BytesHeld DEF Arrive
  <1>2. PICK s : s = owed[p]
    OBVIOUS
  <1>3. PICK w : w = Tail(s)
    OBVIOUS
  <1>4. PICK x : x = Head(s)
    OBVIOUS
  <1>5. PICK o : o = Append(out, x)
    OBVIOUS
  <1>6. out' = o /\ owed' = [owed EXCEPT ![p] = w] /\ got' = got
    BY <1>2, <1>3, <1>4, <1>5 DEF Arrive, driver
  <1>7. /\ Holds(s, b) <=> Holds(w, b) \/ x = b
        /\ Single(s, b) => Single(w, b) /\ (x = b => ~Holds(w, b))
    BY <1>1, <1>2, <1>3, <1>4, HasTail
  <1>8. /\ Holds(o, b) <=> Holds(out, b) \/ x = b
        /\ Single(out, b) /\ (x = b => ~Holds(out, b)) => Single(o, b)
    <2>1. out \in Seq(Bytes)
      BY <1>1
    <2> QED BY <1>5, <2>1, HasAppended
  <1>9. owed'[p] = w /\ \A q \in Ports : q # p => owed'[q] = owed[q]
    BY <1>1, <1>6
  <1>10. None(b) => None(b)'
    BY <1>1, <1>2, <1>6, <1>7, <1>8, <1>9 DEF None, NoneOf
  <1>11. AtMostOne(b) => AtMostOne(b)'
    BY <1>1, <1>2, <1>6, <1>7, <1>8, <1>9 DEF AtMostOne, OneOf
  <1> QED BY <1>10, <1>11 DEF Keeps

LEMMA TypeKeeps ==
    ASSUME Ps2Types, NEW p \in Ports, Type(p), NEW b, b # "key",
           owed[1] = <<>> \/ None(b) \/ p = 0
    PROVE  Keeps(b)
  <1>1. /\ owed[p] \in Seq(Bytes) /\ out \in Seq(Bytes) /\ p \in {0, 1}
        /\ owed \in [Ports -> Seq(Bytes)] /\ Ports = {0, 1}
    BY BytesHeld
  <1>2. PICK w : w = Append(owed[p], "key")
    OBVIOUS
  <1>3. PICK o : o = Append(out, "key")
    OBVIOUS
  <1>4. /\ \/ out' = Append(out, "key") /\ owed' = owed
           \/ out' = out /\ owed' = [owed EXCEPT ![p] = Append(owed[p], "key")]
        /\ got' = got
    BY DEF Type, driver
  <1>5. (Holds(w, b) <=> Holds(owed[p], b)) /\ (Single(owed[p], b) => Single(w, b))
    <2>1. PICK s : s = owed[p]
      OBVIOUS
    <2>2. s \in Seq(Bytes) /\ w = Append(s, "key")
      BY <1>1, <1>2, <2>1
    <2>3. (Holds(w, b) <=> Holds(s, b)) /\ (Single(s, b) => Single(w, b))
      BY <2>2, HasAppended
    <2> QED BY <2>1, <2>3
  <1>6. (Holds(o, b) <=> Holds(out, b)) /\ (Single(out, b) => Single(o, b))
    BY <1>1, <1>3, HasAppended
  <1>7. CASE out' = o /\ owed' = owed
    BY <1>4, <1>6, <1>7 DEF Keeps, None, NoneOf, AtMostOne, OneOf
  <1>8. CASE out' = out /\ owed' = [owed EXCEPT ![p] = w]
    <2>1. owed'[p] = w /\ \A q \in Ports : q # p => owed'[q] = owed[q]
      BY <1>1, <1>8
    <2> QED BY <1>1, <1>4, <1>5, <1>8, <2>1 DEF Keeps, None, NoneOf, AtMostOne, OneOf
  <1> QED BY <1>2, <1>3, <1>4, <1>7, <1>8

\* Bytes that are taken from the buffer, read or dropped.
LEMMA TakenKeeps ==
    ASSUME Ps2Types, Taken, NEW b, b # Timeout, got' = got \/ got' = Append(got, Byte),
           owed' = owed
    PROVE  Keeps(b)
  <1>1. got \in Seq(Bytes) /\ out \in Seq(Bytes)
    BY BytesHeld
  <1>2. PICK g : g = Append(got, Byte)
    OBVIOUS
  <1>3. /\ Holds(g, b) <=> Holds(got, b) \/ Byte = b
        /\ Single(got, b) /\ (Byte = b => ~Holds(got, b)) => Single(g, b)
    BY <1>1, <1>2, HasAppended
  <1>4. got' = got \/ got' = g
    BY <1>2
  <1>5. CASE out = <<>>
    <2>1. out' = out /\ Byte = Timeout
      BY <1>5 DEF Taken, Byte
    <2> QED BY <1>3, <1>4, <2>1 DEF Keeps, None, NoneOf, AtMostOne, OneOf
  <1>6. CASE out # <<>>
    <2>1. PICK o : o = Tail(out)
      OBVIOUS
    <2>2. PICK x : x = Head(out)
      OBVIOUS
    <2>3. out' = o /\ Byte = x
      BY <1>6, <2>1, <2>2 DEF Taken, Byte
    <2>4. /\ Holds(out, b) <=> Holds(o, b) \/ x = b
          /\ Single(out, b) => Single(o, b) /\ (x = b => ~Holds(o, b))
      BY <1>1, <1>6, <2>1, <2>2, HasTail
    <2> QED BY <1>3, <1>4, <2>3, <2>4 DEF Keeps, None, NoneOf, AtMostOne, OneOf
  <1> QED BY <1>5, <1>6

LEMMA EmptiedKeeps ==
    ASSUME NEW b, owed' = owed,
           (got' = got /\ out' = <<>>) \/ (got' = <<>> /\ out' = out)
    PROVE  Keeps(b)
  BY HasNothing DEF Keeps, None, NoneOf, AtMostOne, OneOf

LEMMA CommandKeeps ==
    ASSUME Ps2Types, NEW byte, Command(byte), got' = got, NEW b, b \notin {"config", "55", "FC"},
           b = "00" => byte \notin {"AB", "A9"}
    PROVE  Keeps(b)
  <1>1. PICK a : Answered(byte, a) /\ out' = out \o a
    BY CommandAnswer
  <1>2. /\ <<"config">> \in Seq(Bytes) /\ <<"55">> \in Seq(Bytes) /\ <<"FC">> \in Seq(Bytes)
        /\ <<"00">> \in Seq(Bytes) /\ <<>> \in Seq(Bytes)
    BY DEF Bytes
  <1>3. a \in Seq(Bytes)
    BY <1>1, <1>2 DEF Answered
  <1>4. ~Holds(a, b)
    BY <1>1 DEF Answered, Holds
  <1>5. out \in Seq(Bytes)
    BY BytesHeld
  <1>6. PICK u : u = out \o a
    OBVIOUS
  <1>7. (Holds(u, b) <=> Holds(out, b)) /\ (Single(out, b) => Single(u, b))
    BY <1>3, <1>4, <1>5, <1>6, HasConcatenated
  <1>8. owed' = owed
    BY DEF Command
  <1> QED BY <1>1, <1>6, <1>7, <1>8 DEF Keeps, None, NoneOf, AtMostOne, OneOf

\* A byte that a device is sent.
LEMMA ReceiveKeeps ==
    ASSUME Ps2Types, NEW p \in Ports, NEW byte \in Bytes, Receive(p, byte), got' = got,
           NEW b, plugged[p] = "none" \/ ~Holds(Answers(p, byte), b)
    PROVE  Keeps(b)
  <1>1. CASE UNCHANGED <<out, owed>>
    BY <1>1, SameBytesKept
  <1>2. CASE ~UNCHANGED <<out, owed>>
    <2>1. PICK a : a = Answers(p, byte)
      OBVIOUS
    <2>2. /\ IF prompt THEN out' = out \o a /\ UNCHANGED owed
             ELSE owed' = [owed EXCEPT ![p] = @ \o a] /\ UNCHANGED out
          /\ plugged[p] # "none"
      BY <1>2, <2>1 DEF Receive
    <2>3. a \in Seq(Bytes) /\ ~Holds(a, b)
      BY <2>1, <2>2, AnswerTypes
    <2>4. /\ out \in Seq(Bytes) /\ owed \in [Ports -> Seq(Bytes)] /\ owed[p] \in Seq(Bytes)
          /\ Ports = {0, 1}
      BY BytesHeld
    <2>5. PICK u : u = out \o a
      OBVIOUS
    <2>6. PICK w : w = owed[p] \o a
      OBVIOUS
    <2>7. /\ (Holds(u, b) <=> Holds(out, b)) /\ (Single(out, b) => Single(u, b))
          /\ (Holds(w, b) <=> Holds(owed[p], b)) /\ (Single(owed[p], b) => Single(w, b))
      BY <2>3, <2>4, <2>5, <2>6, HasConcatenated
    <2>8. CASE prompt
      BY <2>2, <2>5, <2>7, <2>8 DEF Keeps, None, NoneOf, AtMostOne, OneOf
    <2>9. CASE ~prompt
      <3>1. out' = out /\ owed' = [owed EXCEPT ![p] = w]
        BY <2>2, <2>6, <2>9
      <3>2. owed'[p] = w /\ \A q \in Ports : q # p => owed'[q] = owed[q]
        BY <2>4, <3>1
      <3> QED BY <2>4, <2>7, <3>1, <3>2 DEF Keeps, None, NoneOf, AtMostOne, OneOf
    <2> QED BY <2>8, <2>9
  <1> QED BY <1>1, <1>2

LEMMA AnswersLack ==
    ASSUME NEW p, NEW byte
    PROVE  /\ plugged[p] \notin Mice => ~Holds(Answers(p, byte), "00")
           /\ byte # "FF" => ~Holds(Answers(p, byte), "AA")
           /\ Single(Answers(p, "FF"), "FA") /\ Single(Answers(p, "FF"), "AA")
  <1>1. Answers(p, byte) \in {<<"FA", "02">>, <<"FA">>, <<"FA", "AA", "00">>, <<"FA", "AA">>,
                              <<"FA", "00">>, <<"FA", "AB", "83">>}
        /\ (plugged[p] \notin Mice =>
                Answers(p, byte) \notin {<<"FA", "AA", "00">>, <<"FA", "00">>})
        /\ (byte # "FF" => Answers(p, byte) \notin {<<"FA", "AA", "00">>, <<"FA", "AA">>})
    BY DEF Answers
  <1>2. /\ \A a \in {<<"FA", "02">>, <<"FA">>, <<"FA", "AA">>, <<"FA", "AB", "83">>} :
                ~Holds(a, "00")
        /\ \A a \in {<<"FA", "02">>, <<"FA">>, <<"FA", "00">>, <<"FA", "AB", "83">>} :
                ~Holds(a, "AA")
    BY DEF Holds
  <1>3. Single(Answers(p, "FF"), "FA") /\ Single(Answers(p, "FF"), "AA")
    <2>1. Answers(p, "FF") \in {<<"FA">>, <<"FA", "AA", "00">>, <<"FA", "AA">>}
      BY DEF Answers
    <2>2. \A a \in {<<"FA">>, <<"FA", "AA", "00">>, <<"FA", "AA">>} :
              Single(a, "FA") /\ Single(a, "AA")
      BY DEF Single
    <2> QED BY <2>1, <2>2
  <1> QED BY <1>1, <1>2, <1>3

\* The first port's device acknowledges its reset once.
LEMMA ResetAnswered ==
    ASSUME Ps2Types, Receive(0, "FF"), got' = got, NEW b \in {"FA", "AA"}, None(b)
    PROVE  AtMostOne(b)'
  <1>1. /\ out \in Seq(Bytes) /\ owed \in [Ports -> Seq(Bytes)] /\ owed[0] \in Seq(Bytes)
        /\ Ports = {0, 1} /\ "FF" \in Bytes /\ 0 \in Ports
    BY BytesHeld DEF Bytes
  <1>2. /\ ~Holds(got, b) /\ ~Holds(out, b) /\ ~Holds(owed[0], b) /\ ~Holds(owed[1], b)
    BY <1>1 DEF None, NoneOf
  <1>3. Single(got, b) /\ Single(out, b) /\ Single(owed[0], b)
    BY <1>2, NoneIsSingle
  <1>4. CASE UNCHANGED <<out, owed>>
    BY <1>2, <1>3, <1>4 DEF AtMostOne, OneOf
  <1>5. CASE ~UNCHANGED <<out, owed>>
    <2>1. PICK a : a = Answers(0, "FF")
      OBVIOUS
    <2>2. IF prompt THEN out' = out \o a /\ UNCHANGED owed
          ELSE owed' = [owed EXCEPT ![0] = @ \o a] /\ UNCHANGED out
      BY <1>5, <2>1 DEF Receive
    <2>3. a \in Seq(Bytes) /\ Single(a, b)
      BY <1>1, <2>1, AnswerTypes, AnswersLack
    <2>4. PICK u : u = out \o a
      OBVIOUS
    <2>5. PICK w : w = owed[0] \o a
      OBVIOUS
    <2>6. Single(u, b) /\ Single(w, b)
      BY <1>1, <1>2, <2>3, <2>4, <2>5, HasConcatenated
    <2>7. CASE prompt
      BY <1>2, <1>3, <2>2, <2>4, <2>6, <2>7 DEF AtMostOne, OneOf
    <2>8. CASE ~prompt
      <3>1. out' = out /\ owed' = [owed EXCEPT ![0] = w]
        BY <2>2, <2>5, <2>8
      <3>2. owed'[0] = w /\ owed'[1] = owed[1]
        BY <1>1, <3>1
      <3> QED BY <1>2, <1>3, <2>6, <3>1, <3>2 DEF AtMostOne, OneOf
    <2> QED BY <2>7, <2>8
  <1> QED BY <1>4, <1>5

-----------------------------------------------------------------------------
\* Ps2: nothing is registered that is not there.

AnInstruction ==
    writeController \/ writeDevice \/ writeConfigurationByte \/ flushOutputBuffer
        \/ read \/ WaitForAck

LEMMA InstructionMoves ==
    ASSUME Ps2Types, AnInstruction
    PROVE  /\ todo # <<>> /\ left \in Nat /\ left >= 1
           /\ UNCHANGED <<plugged, prompt, keys, pc, device, config, registered>>
           /\ left' = left - 1 \/ (left' = left /\ Head(todo) = Ack)
  <1>1. todo # <<>>
    BY DEF AnInstruction, writeController, writeDevice, writeConfigurationByte,
           flushOutputBuffer, read, WaitForAck, Instruction
  <1>2. Head(todo) \in Instructions /\ left \in Nat /\ left >= 1
    BY <1>1, InstructionAhead
  <1>3. UNCHANGED <<plugged, prompt, keys>>
    BY DEF AnInstruction, writeController, writeDevice, writeConfigurationByte,
           flushOutputBuffer, read, WaitForAck, Command, Receive
  <1>4. CASE Advance
    <2>1. Advances
      BY <1>1, <1>4 DEF Advances
    <2>2. left' = left - 1 /\ UNCHANGED <<pc, device, config, registered>>
      BY <2>1, AdvanceTypes
    <2> QED BY <1>1, <1>2, <1>3, <2>2
  <1>5. CASE ~Advance
    <2>1. WaitForAck /\ UNCHANGED <<todo, pc, device, config, registered>>
      BY <1>5 DEF AnInstruction, writeController, writeDevice, writeConfigurationByte,
                  flushOutputBuffer, read, WaitForAck
    <2>2. Head(todo)[1] = "ack"
      BY <2>1 DEF WaitForAck, Instruction
    <2>3. Head(todo) = Ack
      BY <1>2, <2>2 DEF Instructions, F, R, Ack, C, D
    <2> QED BY <1>1, <1>2, <1>3, <2>1, <2>3 DEF left
  <1> QED BY <1>4, <1>5

LEMMA InstructionKeeps ==
    ASSUME Ps2Types, AnInstruction, NEW b \in {"00", "FA", "AA"},
           b = "00" => pc # "testPort",
           writeDevice => \/ plugged[Head(todo)[2]] = "none"
                          \/ ~Holds(Answers(Head(todo)[2], Head(todo)[3]), b)
    PROVE  Keeps(b)
  <1>1. todo # <<>> /\ b # Timeout /\ b \notin {"config", "55", "FC"}
    BY InstructionMoves DEF Timeout
  <1>2. CASE writeController
    <2>1. Command(Head(todo)[2]) /\ got' = got /\ Head(todo)[1] = "command"
      BY <1>2 DEF writeController, Instruction
    <2>2. b = "00" => Head(todo)[2] \notin {"AB", "A9"}
      BY <1>1, <2>1, Program
    <2> QED BY <1>1, <2>1, <2>2, CommandKeeps
  <1>3. CASE writeDevice
    <2>1. Receive(Head(todo)[2], Head(todo)[3]) /\ got' = got /\ Head(todo)[1] = "device"
      BY <1>3 DEF writeDevice, Instruction
    <2>2. Head(todo)[2] \in Ports /\ Head(todo)[3] \in Bytes
      BY <1>1, <2>1, Program
    <2> QED BY <1>3, <2>1, <2>2, ReceiveKeeps
  <1>4. CASE writeConfigurationByte
    BY <1>4, SameBytesKept DEF writeConfigurationByte
  <1>5. CASE flushOutputBuffer
    <2>1. owed' = owed /\ got' = got /\ out' = <<>>
      BY <1>5 DEF flushOutputBuffer
    <2> QED BY <2>1, EmptiedKeeps
  <1>6. CASE read
    BY <1>1, <1>6, TakenKeeps DEF read
  <1>7. CASE WaitForAck
    BY <1>1, <1>7, TakenKeeps DEF WaitForAck
  <1> QED BY <1>2, <1>3, <1>4, <1>5, <1>6, <1>7 DEF AnInstruction

\* A flush that is next is what happens, and leaves only what is on the wire.
LEMMA FlushIsNext ==
    ASSUME Ps2Types, AnInstruction, Head(todo) = F
    PROVE  out' = <<>> /\ UNCHANGED <<got, owed>> /\ left' = left - 1
  <1>1. flushOutputBuffer
    BY DEF AnInstruction, writeController, writeDevice, writeConfigurationByte,
           read, WaitForAck, Instruction, F
  <1>2. Head(todo) # Ack
    BY DEF F, Ack
  <1> QED BY <1>1, <1>2, InstructionMoves DEF flushOutputBuffer

LEMMA NothingRead ==
    ASSUME Ps2Types, BytesRead(pc, left) = 0 PROVE got = <<>>
  <1>1. got \in Seq(Bytes) /\ Len(got) = 0
    BY DEF Ps2Types, left
  <1> QED BY <1>1

\* A byte that was read is held.
LEMMA ReadIsHeld ==
    ASSUME Ps2Types, NEW i \in {1, 2}, BytesRead(pc, left) >= i, NEW b
    PROVE  got[i] = b => Holds(got, b)
  <1>1. got \in Seq(Bytes) /\ Len(got) >= i /\ Len(got) \in Nat
    <2>1. got \in Seq(Bytes) /\ Len(got) = BytesRead(pc, left)
      BY DEF Ps2Types, left
    <2> QED BY <2>1
  <1> QED BY <1>1 DEF Holds

NoMice == \A q \in Ports : plugged[q] \notin Mice
LEMMA OwedLacksMouse ==
    ASSUME Ps2Types, [Ps2Next]_ps2Vars, NoMice, NEW q \in Ports, ~Holds(owed[q], "00")
    PROVE  ~Holds(owed'[q], "00")
  <1>1. owed \in [Ports -> Seq(Bytes)] /\ owed[q] \in Seq(Bytes)
    BY DEF Ps2Types
  <1>2. CASE owed' = owed
    BY <1>2
  <1>3. ASSUME NEW p \in Ports, Arrive(p) PROVE ~Holds(owed'[q], "00")
    <2>1. PICK s : s = owed[p]
      OBVIOUS
    <2>2. PICK w : w = Tail(s)
      OBVIOUS
    <2>3. s \in Seq(Bytes) /\ s # <<>> /\ owed' = [owed EXCEPT ![p] = w]
      BY <1>1, <1>3, <2>1, <2>2 DEF Arrive
    <2>4. PICK x : x = Head(s)
      OBVIOUS
    <2>5. Holds(w, "00") => Holds(s, "00")
      BY <2>2, <2>3, <2>4, HasTail
    <2> QED BY <1>1, <2>1, <2>3, <2>5
  <1>4. ASSUME NEW p \in Ports, Type(p) PROVE ~Holds(owed'[q], "00")
    <2>1. PICK s : s = owed[p]
      OBVIOUS
    <2>2. PICK w : w = Append(s, "key")
      OBVIOUS
    <2>3. owed' = owed \/ owed' = [owed EXCEPT ![p] = Append(owed[p], "key")]
      BY <1>4 DEF Type
    <2>4. s \in Seq(Bytes)
      BY <1>1, <2>1
    <2>5. Holds(w, "00") => Holds(s, "00")
      BY <2>2, <2>4, HasAppended
    <2> QED BY <1>1, <2>1, <2>2, <2>3, <2>5
  <1>5. ASSUME writeDevice PROVE ~Holds(owed'[q], "00")
    <2>1. PICK p, byte : p = Head(todo)[2] /\ byte = Head(todo)[3]
      OBVIOUS
    <2>2. p \in Ports /\ byte \in Bytes /\ Receive(p, byte)
      BY <1>5, <2>1, Program DEF writeDevice, Instruction
    <2>3. PICK a : a = Answers(p, byte)
      OBVIOUS
    <2>4. a \in Seq(Bytes) /\ ~Holds(a, "00")
      BY <2>2, <2>3, AnswerTypes, AnswersLack DEF NoMice
    <2>5. PICK s : s = owed[p]
      OBVIOUS
    <2>6. PICK w : w = s \o a
      OBVIOUS
    <2>7. s \in Seq(Bytes) /\ (owed' = owed \/ owed' = [owed EXCEPT ![p] = w])
      BY <1>1, <2>2, <2>3, <2>5, <2>6 DEF Receive
    <2>8. Holds(w, "00") => Holds(s, "00")
      BY <2>4, <2>6, <2>7, HasConcatenated
    <2> QED BY <1>1, <2>2, <2>5, <2>7, <2>8
  <1> QED BY <1>2, <1>3, <1>4, <1>5
          DEF Ps2Next, Driver, Branch, hardware, ps2Vars, writeController, Command, read,
              writeConfigurationByte, flushOutputBuffer, WaitForAck

\* Where a "00" may be under way without a mouse.
Stale00 ==
    \/ None("00")
    \/ pc \in {"testPort", "enable", "done"}
    \/ pc = "reset" /\ left >= 4
    \/ pc = "secondPort" /\ left >= 3

LEMMA NoMouseInstruction ==
    ASSUME Ps2Types, NoMouseSeen, NoMice, AnInstruction
    PROVE  Stale00'
  <1>1. /\ todo # <<>> /\ left \in Nat /\ left >= 1 /\ pc' = pc
        /\ left' = left - 1 \/ left' = left
    BY InstructionMoves
  <1>2. Stale00 /\ \A p \in Ports : ~Holds(owed[p], "00")
    BY DEF NoMouseSeen, NoMice, Stale00
  <1>3. CASE pc \in {"testPort", "enable", "done"}
    BY <1>1, <1>3 DEF Stale00
  <1>4. CASE None("00") /\ pc \notin {"testPort", "enable", "done"}
    <2>1. ASSUME writeDevice PROVE ~Holds(Answers(Head(todo)[2], Head(todo)[3]), "00")
      <3>1. Head(todo)[2] \in Ports
        BY <1>1, <2>1, Program DEF writeDevice, Instruction
      <3> QED BY <3>1, AnswersLack DEF NoMice
    <2> QED BY <1>4, <2>1, InstructionKeeps DEF Keeps, Stale00
  <1>5. CASE (pc = "reset" /\ left = 4) \/ (pc = "secondPort" /\ left = 3)
    <2>1. Head(todo) = F
      BY <1>1, <1>5, Program
    <2>2. BytesRead(pc, left) = 0
      BY <1>5 DEF BytesRead
    <2> QED BY <1>2, <2>1, <2>2, FlushIsNext, NothingRead, HasNothing DEF Stale00, None, NoneOf
  <1>6. CASE (pc = "reset" /\ left >= 5) \/ (pc = "secondPort" /\ left >= 4)
    BY <1>1, <1>6 DEF Stale00
  <1> QED BY <1>1, <1>2, <1>3, <1>4, <1>5, <1>6 DEF Stale00

LEMMA LengthAtStart ==
    ASSUME Ps2Types, Begins
    PROVE  /\ pc' = "reset" => left' = 5
           /\ pc' = "secondPort" => left' = 4
           /\ pc' = "identify" => left' = 5
  BY DEF Begins, Stretch, left

LEMMA NoMouseBranch ==
    ASSUME Ps2Types, NoMouseSeen, NoMice, Branch
    PROVE  /\ Stale00' /\ pc' # "mouse"
           /\ \A p \in Ports : registered'[p] # "mouse"
  <1>1. Begins /\ UNCHANGED hardware /\ left = 0
    BY BranchBegins
  <1>2. /\ Stale00 /\ pc # "mouse" /\ \A p \in Ports : registered[p] # "mouse"
        /\ \A p \in Ports : ~Holds(owed[p], "00")
    BY DEF NoMouseSeen, NoMice, Stale00
  <1>3. None("00") => None("00")'
    BY <1>1, EmptiedKeeps DEF Keeps, Begins, hardware
  <1>4. pc' = "reset" => left' = 5
    BY <1>1, LengthAtStart
  <1>5. pc' = "secondPort" => left' = 4
    BY <1>1, LengthAtStart
  <1>6. registered \in [Ports -> {"none", "mouse", "keyboard"}] /\ device \in Ports
    BY DEF Ps2Types
  <1>7. \A p \in Ports : registered'[p] # "mouse"
    <2>1. CASE registered' = registered
      BY <1>2, <2>1
    <2>2. CASE register
      BY <1>2, <1>6, <2>2, RegisterGoes
    <2> QED BY <2>1, <2>2, ConfigureGoes, SelfTestGoes, TestPortGoes, ResetGoes, IdentifyGoes,
               IdentifyKeyboardGoes, SecondPortGoes, EnableGoes DEF Branch
  <1>8. pc' # "mouse"
    <2>1. ASSUME identify, got[1] = "00" PROVE FALSE
      <3>1. pc = "identify"
        BY <2>1 DEF identify
      <3>2. BytesRead(pc, left) >= 1
        BY <1>1, <3>1 DEF BytesRead
      <3>3. Holds(got, "00")
        BY <2>1, <3>2, ReadIsHeld
      <3> QED BY <1>1, <1>2, <3>1, <3>3 DEF Stale00, None, NoneOf
    <2>2. Leave /\ UNCHANGED <<device, config>> => pc' # "mouse"
      BY LeaveBegins
    <2> QED BY <2>1, <2>2, ConfigureGoes, SelfTestGoes, TestPortGoes, ResetGoes, IdentifyGoes,
               IdentifyKeyboardGoes, RegisterGoes, SecondPortGoes, EnableGoes DEF Branch
  <1>9. None("00") \/ pc \in {"testPort", "enable", "done"}
    BY <1>1, <1>2 DEF Stale00
  <1>10. ASSUME None("00") PROVE Stale00'
    BY <1>3, <1>10 DEF Stale00
  <1>11. ASSUME pc = "testPort" PROVE Stale00'
    <2>1. testPort
      BY <1>11 DEF Branch, configure, selfTest, reset, identify, identifyKeyboard, register,
                   secondPort, enable
    <2>2. pc' \in {"reset", "secondPort", "enable"}
      BY <2>1, TestPortGoes, LeaveBegins
    <2> QED BY <1>4, <1>5, <2>2 DEF Stale00
  <1>12. ASSUME pc \in {"enable", "done"} PROVE Stale00'
    <2>1. enable
      BY <1>12 DEF Branch, configure, selfTest, testPort, reset, identify, identifyKeyboard,
                   register, secondPort
    <2> QED BY <2>1, EnableGoes DEF Stale00
  <1> QED BY <1>7, <1>8, <1>9, <1>10, <1>11, <1>12

LEMMA NextNoMouse ==
    ASSUME Ps2Types, NoMouseSeen, [Ps2Next]_ps2Vars PROVE NoMouseSeen'
  <1>1. plugged' = plugged
    BY DEF Ps2Next, Driver, Branch, hardware, ps2Vars, writeController, Command, read, writeDevice,
           Receive, writeConfigurationByte, flushOutputBuffer, WaitForAck, Arrive, Type
  <1>2. SUFFICES ASSUME NoMice
                 PROVE  /\ Stale00' /\ pc' # "mouse"
                        /\ \A p \in Ports : registered'[p] # "mouse" /\ ~Holds(owed'[p], "00")
    BY <1>1 DEF NoMouseSeen, NoMice, Stale00
  <1>3. /\ Stale00 /\ pc # "mouse"
        /\ \A p \in Ports : registered[p] # "mouse" /\ ~Holds(owed[p], "00")
    BY <1>2 DEF NoMouseSeen, NoMice, Stale00
  <1>4. \A p \in Ports : ~Holds(owed'[p], "00")
    BY <1>2, <1>3, OwedLacksMouse
  <1>5. CASE UNCHANGED ps2Vars
    BY <1>3, <1>4, <1>5 DEF ps2Vars, Stale00, None, NoneOf, left
  <1>6. CASE AnInstruction
    BY <1>2, <1>3, <1>4, <1>6, NoMouseInstruction, InstructionMoves
  <1>7. CASE Branch
    BY <1>2, <1>4, <1>7, NoMouseBranch
  <1>8. ASSUME NEW p \in Ports, Arrive(p) \/ Type(p)
        PROVE  Stale00' /\ UNCHANGED <<pc, registered>>
    <2>1. UNCHANGED driver
      BY <1>8, ArriveTypes, TypeTypes
    <2>2. None("00") => None("00")'
      BY <1>8, ArriveKeeps, TypeKeeps DEF Keeps
    <2> QED BY <1>3, <2>1, <2>2 DEF Stale00, driver, left
  <1> QED BY <1>3, <1>4, <1>5, <1>6, <1>7, <1>8 DEF Ps2Next, Driver, AnInstruction

LEMMA PluggedStays ==
    ASSUME [Ps2Next]_ps2Vars PROVE plugged' = plugged
  BY DEF Ps2Next, Driver, Branch, hardware, ps2Vars, writeController, Command, read, writeDevice,
         Receive, writeConfigurationByte, flushOutputBuffer, WaitForAck, Arrive, Type

\* An instruction that sends nothing to a device that is there leaves the wires.
LEMMA WiresStay ==
    ASSUME Ps2Types, AnInstruction, writeDevice => plugged[Head(todo)[2]] = "none"
    PROVE  owed' = owed /\ scanning' = scanning
  <1>1. CASE writeDevice
    BY <1>1 DEF writeDevice, Receive
  <1> QED BY <1>1 DEF AnInstruction, writeController, Command, read, writeConfigurationByte,
                      flushOutputBuffer, WaitForAck

LEMMA ResetSucceeded ==
    ASSUME Ps2Types, got = <<"FA", "AA">> PROVE Holds(got, "FA") /\ Holds(got, "AA")
  BY DEF Holds

LEMMA NextFirstPort ==
    ASSUME Ps2Types, FirstPortEmpty, [Ps2Next]_ps2Vars PROVE FirstPortEmpty'
  <1>1. plugged' = plugged
    BY PluggedStays
  <1> DEFINE Silent == /\ None("FA") /\ ~scanning[1] /\ owed[0] = <<>> /\ owed[1] = <<>>
                       /\ pc \notin Identifying
  <1>2. SUFFICES ASSUME plugged[0] = "none"
                 PROVE  registered'[0] = "none" /\ (device' = 0 => Silent')
    BY <1>1 DEF FirstPortEmpty
  <1>3. registered[0] = "none" /\ (device = 0 => Silent)
    BY <1>2 DEF FirstPortEmpty
  <1>4. CASE UNCHANGED ps2Vars
    BY <1>3, <1>4 DEF ps2Vars, None, NoneOf
  <1>5. CASE AnInstruction
    <2>1. UNCHANGED <<pc, device, registered>> /\ todo # <<>>
      BY <1>5, InstructionMoves
    <2>2. SUFFICES ASSUME device = 0 PROVE Silent'
      BY <1>3, <2>1
    <2>3. ASSUME writeDevice PROVE plugged[Head(todo)[2]] = "none"
      <3>1. Head(todo)[2] \in Ports /\ (Head(todo)[2] = 1 => device = 1)
        BY <2>1, <2>3, Program DEF writeDevice, Instruction
      <3> QED BY <1>2, <2>2, <3>1 DEF Ports
    <2>4. Keeps("FA")
      BY <1>5, <2>3, InstructionKeeps
    <2>5. owed' = owed /\ scanning' = scanning
      BY <1>5, <2>3, WiresStay
    <2> QED BY <1>3, <2>1, <2>2, <2>4, <2>5 DEF Keeps
  <1>6. CASE Branch
    <2>1. Begins /\ UNCHANGED hardware /\ left = 0
      BY <1>6, BranchBegins
    <2>2. Keeps("FA") /\ owed' = owed /\ scanning' = scanning
      BY <2>1, EmptiedKeeps DEF Begins, hardware
    <2>3. registered'[0] = "none"
      <3>1. CASE registered' = registered
        BY <1>3, <3>1
      <3>2. CASE register
        <4>1. /\ registered' = [registered EXCEPT ![device] = pc] /\ pc \in {"mouse", "keyboard"}
              /\ registered \in [Ports -> {"none", "mouse", "keyboard"}] /\ device \in Ports
          BY <3>2, RegisterGoes DEF Ps2Types
        <4>2. device # 0
          BY <1>3, <4>1 DEF Identifying
        <4> QED BY <1>3, <4>1, <4>2 DEF Ports
      <3> QED BY <1>6, <3>1, <3>2, ConfigureGoes, SelfTestGoes, TestPortGoes, ResetGoes,
                 IdentifyGoes, IdentifyKeyboardGoes, SecondPortGoes, EnableGoes DEF Branch
    <2>4. ASSUME device' = 0 PROVE device = 0
      <3>1. CASE device' = device
        BY <2>4, <3>1
      <3>2. CASE selfTest
        BY <3>2 DEF selfTest, Ps2Types
      <3> QED BY <1>6, <2>4, <3>1, <3>2, ConfigureGoes, TestPortGoes, ResetGoes, IdentifyGoes,
                 IdentifyKeyboardGoes, RegisterGoes, SecondPortGoes, EnableGoes DEF Branch
    <2>5. ASSUME device = 0 PROVE pc' \notin Identifying
      <3>1. Leave /\ UNCHANGED <<device, config>> => pc' \notin Identifying
        BY LeaveBegins DEF Identifying
      <3>2. ~identify /\ ~identifyKeyboard /\ ~register
        BY <1>3, <2>5 DEF identify, identifyKeyboard, register, Identifying
      <3>3. got # <<"FA", "AA">>
        BY <1>3, <2>5, ResetSucceeded DEF None, NoneOf
      <3> QED BY <1>6, <3>1, <3>2, <3>3, ConfigureGoes, SelfTestGoes, TestPortGoes, ResetGoes,
                 SecondPortGoes, EnableGoes DEF Branch, Identifying
    <2> QED BY <1>3, <2>2, <2>3, <2>4, <2>5 DEF Keeps
  <1>7. ASSUME NEW p \in Ports, Arrive(p) \/ Type(p)
        PROVE  registered' = registered /\ device' = device /\ device # 0
    <2>1. UNCHANGED driver
      BY <1>7, ArriveTypes, TypeTypes
    <2>2. p \in {0, 1}
      BY DEF Ports
    <2>3. ASSUME device = 0 PROVE FALSE
      BY <1>2, <1>3, <1>7, <2>2, <2>3 DEF Arrive, Type, Keyboards
    <2> QED BY <2>1, <2>3 DEF driver
  <1> QED BY <1>3, <1>4, <1>5, <1>6, <1>7 DEF Ps2Next, Driver, AnInstruction

LEMMA NoneIsAtMostOne ==
    ASSUME NEW g, NEW o, NEW w, NEW b, NoneOf(g, o, w, b) PROVE OneOf(g, o, w, b)
  <1>1. ~Holds(g, b) /\ ~Holds(o, b) /\ ~Holds(w[0], b) /\ ~Holds(w[1], b)
    BY DEF NoneOf, Ports
  <1> QED BY <1>1, NoneIsSingle DEF OneOf

\* The only one has been read: none is left.
LEMMA LastOneRead ==
    ASSUME Ps2Types, NEW b, AtMostOne(b), Holds(got, b), got' = <<>>, UNCHANGED <<out, owed>>
    PROVE  None(b)'
  <1>1. ~Holds(out, b) /\ ~Holds(owed[0], b) /\ ~Holds(owed[1], b)
    BY DEF AtMostOne, OneOf
  <1>2. ~Holds(<<>>, b)
    BY HasNothing
  <1> QED BY <1>1, <1>2 DEF None, NoneOf, Ports

\* What is said of the bytes under way while the second port is empty.
FirstAnswers ==
    /\ pc \in {"configure", "selfTest"} => None("FA") /\ None("AA")
    /\ device = 0 =>
        /\ pc = "testPort" \/ (pc = "reset" /\ left >= 3) => None("FA") /\ None("AA")
        /\ pc = "reset" => AtMostOne("FA") /\ AtMostOne("AA")
        /\ pc \in Identifying => None("AA")
        /\ pc = "secondPort" => None("AA") \/ AtMostOne("FA")
    /\ device = 1 =>
        /\ pc \in {"testPort", "reset"} => None("AA") \/ AtMostOne("FA")
        /\ pc = "identify" => None("FA") /\ left >= 4
        /\ pc \notin {"identifyKeyboard", "mouse", "keyboard"}

LEMMA SecondPortInstruction ==
    ASSUME Ps2Types, FirstAnswers, AnInstruction, plugged[1] = "none"
    PROVE  FirstAnswers'
  <1>1. /\ todo # <<>> /\ left \in Nat /\ left >= 1 /\ UNCHANGED <<pc, device>>
        /\ left' = left - 1 \/ (left' = left /\ Head(todo) = Ack)
    BY InstructionMoves
  <1>2. device \in {0, 1}
    BY DEF Ps2Types, Ports
  <1>3. ASSUME Keeps("FA"), Keeps("AA") PROVE FirstAnswers'
    <2>1. ASSUME device = 1, pc = "identify" PROVE left' >= 4
      <3>1. None("FA") /\ left >= 4
        BY <2>1 DEF FirstAnswers
      <3>2. CASE left = 4
        <4>1. Head(todo) = Ack
          BY <1>1, <2>1, <3>2, Program
        <4>2. WaitForAck
          BY <4>1 DEF AnInstruction, writeController, writeDevice, writeConfigurationByte,
                      flushOutputBuffer, read, Instruction, Ack
        <4>3. out \in Seq(Bytes) /\ ~Holds(out, "FA")
          BY <3>1, BytesHeld DEF None, NoneOf
        <4>4. Byte # "FA"
          <5>1. out # <<>> => Head(out) = out[1] /\ 1 \in DOMAIN out
            BY <4>3
          <5> QED BY <4>3, <5>1 DEF Byte, Timeout, Holds
        <4> QED BY <3>2, <4>2, <4>4 DEF WaitForAck, left
      <3>3. CASE left > 4
        BY <1>1, <3>3
      <3> QED BY <1>1, <3>1, <3>2, <3>3
    <2> QED BY <1>1, <1>2, <1>3, <2>1 DEF FirstAnswers, Keeps
  <1>4. CASE writeDevice => plugged[Head(todo)[2]] = "none"
    BY <1>3, <1>4, InstructionKeeps
  <1>5. CASE writeDevice /\ plugged[Head(todo)[2]] # "none"
    <2>1. /\ Head(todo)[2] = 0 /\ Head(todo)[3] \in Bytes
          /\ device = 0 \/ pc = "enable"
          /\ Head(todo)[3] = "FF" => pc = "reset" /\ left = 3
          /\ pc \in {"identify", "mouse", "keyboard", "enable"}
                 \/ (pc = "reset" /\ Head(todo)[3] = "FF")
      BY <1>1, <1>5, Program DEF writeDevice, Instruction, Ports
    <2>2. CASE Head(todo)[3] = "FF"
      <3>1. device = 0 /\ pc = "reset" /\ left = 3
        BY <2>1, <2>2
      <3>2. None("FA") /\ None("AA")
        BY <3>1 DEF FirstAnswers
      <3>3. Receive(0, "FF") /\ got' = got
        BY <1>5, <2>1, <2>2 DEF writeDevice
      <3>4. AtMostOne("FA")' /\ AtMostOne("AA")'
        BY <3>2, <3>3, ResetAnswered
      <3>5. left' = 2
        <4>1. Head(todo) # Ack
          BY <1>5 DEF writeDevice, Instruction, Ack
        <4> QED BY <1>1, <3>1, <4>1
      <3> QED BY <1>1, <3>1, <3>4, <3>5 DEF FirstAnswers, Identifying
    <2>3. CASE Head(todo)[3] # "FF"
      <3>1. Keeps("AA")
        <4>1. ~Holds(Answers(Head(todo)[2], Head(todo)[3]), "AA")
          BY <2>3, AnswersLack
        <4> QED BY <4>1, InstructionKeeps
      <3>2. pc = "enable" \/ (device = 0 /\ pc \in {"identify", "mouse", "keyboard"})
        BY <2>1, <2>3
      <3> QED BY <1>1, <3>1, <3>2 DEF FirstAnswers, Keeps, Identifying
    <2> QED BY <2>2, <2>3
  <1> QED BY <1>4, <1>5

LEMMA SecondPortBranch ==
    ASSUME Ps2Types, FirstAnswers, Branch
    PROVE  FirstAnswers'
  <1>1. Begins /\ UNCHANGED hardware /\ left = 0
    BY BranchBegins
  <1>2. Keeps("FA") /\ Keeps("AA") /\ got' = <<>> /\ UNCHANGED <<out, owed>>
    BY <1>1, EmptiedKeeps DEF Begins, hardware
  <1>4. device \in {0, 1}
    BY DEF Ps2Types, Ports
  <1>5. Leave /\ UNCHANGED <<device, config>> =>
            pc' = "enable" \/ (pc' = "secondPort" /\ device = 0 /\ device' = 0)
    BY LeaveBegins
  <1>6. pc' = "enable" => FirstAnswers'
    BY DEF FirstAnswers, Identifying
  <1>7. device = 1 => pc \notin {"identify", "identifyKeyboard", "mouse", "keyboard"}
    BY <1>1 DEF FirstAnswers
  <1>8. CASE configure
    BY <1>2, <1>8, ConfigureGoes DEF configure, FirstAnswers, Keeps, Identifying
  <1>9. CASE selfTest
    BY <1>2, <1>9, SelfTestGoes DEF selfTest, FirstAnswers, Keeps, Identifying
  <1>10. CASE testPort
    <2>1. pc = "testPort" /\ UNCHANGED device
      BY <1>10, TestPortGoes DEF testPort
    <2>2. CASE Leave
      BY <1>2, <1>5, <1>6, <1>10, <2>1, <2>2, TestPortGoes DEF FirstAnswers, Keeps, Identifying
    <2>3. CASE pc' = "reset"
      <3>1. /\ None("FA")' => AtMostOne("FA")'
            /\ None("AA")' => AtMostOne("AA")'
        BY NoneIsAtMostOne DEF None, AtMostOne
      <3> QED BY <1>2, <1>4, <2>1, <2>3, <3>1 DEF FirstAnswers, Keeps, Identifying
    <2> QED BY <1>10, <2>2, <2>3, TestPortGoes
  <1>11. CASE reset
    <2>1. pc = "reset" /\ UNCHANGED <<device, config>>
      BY <1>11, ResetGoes DEF reset
    <2>2. CASE Leave
      BY <1>2, <1>5, <1>6, <2>1, <2>2 DEF FirstAnswers, Keeps, Identifying
    <2>3. CASE got = <<"FA", "AA">> /\ pc' = "identify"
      <3>1. Holds(got, "FA") /\ Holds(got, "AA")
        BY <2>3, ResetSucceeded
      <3>2. CASE device = 0
        <4>1. None("AA")'
          BY <1>2, <2>1, <3>1, <3>2, LastOneRead DEF FirstAnswers
        <4> QED BY <2>1, <2>3, <3>2, <4>1 DEF FirstAnswers, Identifying
      <3>3. CASE device = 1
        <4>1. AtMostOne("FA")
          BY <2>1, <3>1, <3>3 DEF FirstAnswers, None, NoneOf
        <4>2. None("FA")'
          BY <1>2, <3>1, <4>1, LastOneRead
        <4>3. left' = 5
          BY <1>1, <2>3, LengthAtStart
        <4> QED BY <2>1, <2>3, <3>3, <4>2, <4>3 DEF FirstAnswers
      <3> QED BY <1>4, <3>2, <3>3
    <2> QED BY <1>11, <2>2, <2>3, ResetGoes
  <1>12. CASE identify \/ identifyKeyboard \/ register
    <2>1. /\ device = 0 /\ UNCHANGED <<device, config>> /\ pc \in Identifying
          /\ Leave \/ pc' \in Identifying
      <3>1. pc \in Identifying
        BY <1>12 DEF identify, identifyKeyboard, register, Identifying
      <3> QED BY <1>4, <1>7, <1>12, <3>1, IdentifyGoes, IdentifyKeyboardGoes, RegisterGoes
              DEF Identifying
    <2>2. None("AA")'
      BY <1>2, <2>1 DEF FirstAnswers, Keeps
    <2> QED BY <1>5, <1>6, <2>1, <2>2 DEF FirstAnswers, Identifying
  <1>13. CASE secondPort
    <2>1. pc = "secondPort" /\ device = 0
      BY <1>13 DEF secondPort, Ps2Types
    <2>2. None("AA")' \/ AtMostOne("FA")'
      BY <1>2, <2>1 DEF FirstAnswers, Keeps
    <2> QED BY <1>6, <1>13, <2>1, <2>2, SecondPortGoes DEF FirstAnswers, Identifying
  <1>14. CASE enable
    BY <1>14, EnableGoes DEF FirstAnswers, Identifying
  <1> QED BY <1>8, <1>9, <1>10, <1>11, <1>12, <1>13, <1>14 DEF Branch

LEMMA NextSecondPort ==
    ASSUME Ps2Types, SecondPortEmpty, [Ps2Next]_ps2Vars PROVE SecondPortEmpty'
  <1>1. plugged' = plugged
    BY PluggedStays
  <1>2. SUFFICES ASSUME plugged[1] = "none"
                 PROVE  registered'[1] = "none" /\ owed'[1] = <<>> /\ FirstAnswers'
    BY <1>1 DEF SecondPortEmpty, FirstAnswers
  <1>3. registered[1] = "none" /\ owed[1] = <<>> /\ FirstAnswers
    BY <1>2 DEF SecondPortEmpty, FirstAnswers
  <1>4. CASE UNCHANGED ps2Vars
    BY <1>3, <1>4 DEF ps2Vars, FirstAnswers, None, NoneOf, AtMostOne, OneOf, left
  <1>5. CASE AnInstruction
    <2>1. FirstAnswers' /\ registered' = registered /\ todo # <<>>
      BY <1>2, <1>3, <1>5, SecondPortInstruction, InstructionMoves
    <2>2. owed'[1] = owed[1]
      <3>1. CASE writeDevice /\ plugged[Head(todo)[2]] # "none"
        <4>1. Head(todo)[2] = 0
          BY <1>2, <2>1, <3>1, Program DEF writeDevice, Instruction, Ports
        <4>2. owed \in [Ports -> Seq(Bytes)] /\ Ports = {0, 1}
          BY BytesHeld
        <4>3. Receive(0, Head(todo)[3])
          BY <3>1, <4>1 DEF writeDevice
        <4>4. owed' = owed \/ owed' = [owed EXCEPT ![0] = @ \o Answers(0, Head(todo)[3])]
          BY <4>3 DEF Receive
        <4> QED BY <4>2, <4>4
      <3>2. CASE ~(writeDevice /\ plugged[Head(todo)[2]] # "none")
        BY <1>5, <3>2, WiresStay
      <3> QED BY <3>1, <3>2
    <2> QED BY <1>3, <2>1, <2>2
  <1>6. CASE Branch
    <2>1. FirstAnswers' /\ owed' = owed
      BY <1>3, <1>6, SecondPortBranch, BranchBegins DEF hardware
    <2>2. CASE registered' = registered
      BY <1>3, <2>1, <2>2
    <2>3. CASE register
      <3>1. /\ registered' = [registered EXCEPT ![device] = pc] /\ pc \in {"mouse", "keyboard"}
            /\ registered \in [Ports -> {"none", "mouse", "keyboard"}] /\ device \in Ports
        BY <2>3, RegisterGoes DEF Ps2Types
      <3>2. device # 1
        BY <1>3, <3>1 DEF FirstAnswers
      <3> QED BY <1>3, <2>1, <3>1, <3>2 DEF Ports
    <2> QED BY <1>6, <2>2, <2>3, ConfigureGoes, SelfTestGoes, TestPortGoes, ResetGoes,
               IdentifyGoes, IdentifyKeyboardGoes, SecondPortGoes, EnableGoes DEF Branch
  <1>7. ASSUME NEW p \in Ports, Arrive(p) \/ Type(p)
        PROVE  registered' = registered /\ owed'[1] = <<>> /\ FirstAnswers'
    <2>1. UNCHANGED driver
      BY <1>7, ArriveTypes, TypeTypes
    <2>2. p = 0
      BY <1>2, <1>3, <1>7 DEF Arrive, Type, Keyboards, Ports
    <2>3. Keeps("FA") /\ Keeps("AA")
      BY <1>7, <2>2, ArriveKeeps, TypeKeeps
    <2>4. FirstAnswers'
      BY <1>3, <2>1, <2>3 DEF FirstAnswers, Keeps, driver, left
    <2>5. owed'[1] = owed[1]
      <3>1. owed \in [Ports -> Seq(Bytes)] /\ Ports = {0, 1}
        BY BytesHeld
      <3>2. owed' = owed \/ \E w : owed' = [owed EXCEPT ![0] = w]
        BY <1>7, <2>2 DEF Arrive, Type
      <3> QED BY <3>1, <3>2
    <2> QED BY <1>3, <2>1, <2>4, <2>5 DEF driver
  <1> QED BY <1>3, <1>4, <1>5, <1>6, <1>7 DEF Ps2Next, Driver, AnInstruction

LEMMA NothingHeldAtStart ==
    ASSUME Ps2Assumption, Ps2Init
    PROVE  NoMouseSeen /\ FirstPortEmpty /\ SecondPortEmpty
  <1>1. /\ got = <<>> /\ out = <<>> /\ owed[0] = <<>> /\ owed[1] = <<>> /\ ~scanning[1]
        /\ pc = "configure" /\ device = 0 /\ \A p \in Ports : registered[p] = "none"
    BY DEF Ps2Init, Ports
  <1>2. \A b : ~Holds(<<>>, b)
    BY HasNothing
  <1>3. \A b : None(b)
    BY <1>1, <1>2 DEF None, NoneOf, Ports
  <1>4. NoMouseSeen
    BY <1>1, <1>2, <1>3 DEF NoMouseSeen, Ports
  <1>5. FirstPortEmpty
    BY <1>1, <1>3 DEF FirstPortEmpty, Identifying, Ports
  <1>6. SecondPortEmpty
    BY <1>1, <1>3 DEF SecondPortEmpty, Identifying, Ports
  <1> QED BY <1>4, <1>5, <1>6

LEMMA NoneIsPhantom ==
    ASSUME Ps2Types, NoMouseSeen, FirstPortEmpty, SecondPortEmpty PROVE NoPhantoms
  <1>1. \A p \in Ports : plugged[p] = "none" => registered[p] = "none"
    BY DEF FirstPortEmpty, SecondPortEmpty, Ports
  <1>2. NoMice => \A p \in Ports : registered[p] # "mouse"
    BY DEF NoMouseSeen, NoMice
  <1> QED BY <1>1, <1>2 DEF NoPhantoms, NoMice
-----------------------------------------------------------------------------
\* Ps2: what the next instruction does.

LEMMA CommandIsNext ==
    ASSUME Ps2Types, AnInstruction, NEW b, Head(todo) = C(b)
    PROVE  /\ left' = left - 1 /\ UNCHANGED <<got, owed, param, scanning>>
           /\ Command(b) /\ \E a : Answered(b, a) /\ out' = out \o a
  <1>1. writeController
    BY DEF AnInstruction, flushOutputBuffer, writeDevice, writeConfigurationByte,
           read, WaitForAck, Instruction, C
  <1>2. Head(todo) # Ack /\ Head(todo)[2] = b
    BY DEF C, Ack
  <1>3. Command(b) /\ got' = got
    BY <1>1, <1>2 DEF writeController
  <1>4. left' = left - 1
    BY <1>2, InstructionMoves
  <1> QED BY <1>3, <1>4, CommandAnswer DEF Command

LEMMA ConfigurationIsNext ==
    ASSUME Ps2Types, AnInstruction, NEW c, Head(todo) = <<"config", c>>
    PROVE  left' = left - 1 /\ ctrl' = c /\ UNCHANGED <<got, out, owed, param, scanning>>
  <1>1. writeConfigurationByte
    BY DEF AnInstruction, flushOutputBuffer, writeDevice, writeController,
           read, WaitForAck, Instruction
  <1>2. Head(todo) # Ack /\ Head(todo)[2] = c
    BY DEF Ack
  <1> QED BY <1>1, <1>2, InstructionMoves DEF writeConfigurationByte

LEMMA FlushedIsNext ==
    ASSUME Ps2Types, AnInstruction, Head(todo) = F
    PROVE  left' = left - 1 /\ out' = <<>> /\ UNCHANGED <<got, owed, ctrl, param, scanning>>
  <1>1. flushOutputBuffer
    BY DEF AnInstruction, writeController, writeDevice, writeConfigurationByte,
           read, WaitForAck, Instruction, F
  <1> QED BY <1>1, FlushIsNext DEF flushOutputBuffer

LEMMA ReadIsNext ==
    ASSUME Ps2Types, AnInstruction, Head(todo) = R
    PROVE  /\ left' = left - 1 /\ Taken /\ got' = Append(got, Byte)
           /\ UNCHANGED <<owed, ctrl, param, scanning>>
  <1>1. read
    BY DEF AnInstruction, writeController, writeDevice, writeConfigurationByte,
           flushOutputBuffer, WaitForAck, Instruction, R
  <1>2. Head(todo) # Ack
    BY DEF R, Ack
  <1> QED BY <1>1, <1>2, InstructionMoves DEF read

LEMMA AckIsNext ==
    ASSUME Ps2Types, AnInstruction, Head(todo) = Ack
    PROVE  /\ left' = IF Byte = "FA" THEN left - 1 ELSE left
           /\ Taken /\ UNCHANGED <<got, owed, ctrl, param, scanning>>
  <1>1. WaitForAck
    BY DEF AnInstruction, writeController, writeDevice, writeConfigurationByte,
           flushOutputBuffer, read, Instruction, Ack
  <1>2. Byte = "FA" => Advances
    BY <1>1 DEF WaitForAck, Advances, Instruction
  <1>3. Byte = "FA" => left' = left - 1
    BY <1>2, AdvanceTypes
  <1> QED BY <1>1, <1>3 DEF WaitForAck, left

\* A byte for a device: one that is there and whose port is open answers at once
\* to a driver that nothing disturbs.
LEMMA DeviceIsNext ==
    ASSUME Ps2Types, AnInstruction, NEW p \in Ports, NEW b, Head(todo) = D(p, b), prompt
    PROVE  /\ left' = left - 1 /\ UNCHANGED <<got, owed, ctrl>>
           /\ plugged[p] = "none" => UNCHANGED <<out, param, scanning>>
           /\ plugged[p] # "none" /\ ~ctrl.off[p] =>
                /\ out' = out \o Answers(p, b)
                /\ param' = [param EXCEPT ![p] = IF @ = "" /\ b \in {"F0", "F3"} THEN b ELSE ""]
                /\ \A q \in Ports : q # p => scanning'[q] = scanning[q]
                /\ scanning'[p] = (CASE param[p] = "" /\ b = "F5" -> FALSE
                                     [] param[p] = "" /\ b = "FF" -> plugged[p] \in Keyboards
                                     [] param[p] = "" /\ b = "F4" -> TRUE
                                     [] OTHER -> scanning[p])
  <1>1. writeDevice
    <2>1. Head(todo)[1] = "device"
      BY DEF D
    <2> QED BY <2>1 DEF AnInstruction, flushOutputBuffer, writeController,
                        writeConfigurationByte, read, WaitForAck, Instruction
  <1>2. Head(todo) # Ack /\ Head(todo)[2] = p /\ Head(todo)[3] = b
    BY DEF D, Ack
  <1>3. Receive(p, b) /\ got' = got
    BY <1>1, <1>2 DEF writeDevice
  <1>4. left' = left - 1
    BY <1>2, InstructionMoves
  <1>5. ctrl' = ctrl /\ owed' = owed
    BY <1>3 DEF Receive
  <1>6. plugged[p] = "none" => UNCHANGED <<out, param, scanning>>
    BY <1>3 DEF Receive
  <1>7. ASSUME plugged[p] # "none", ~ctrl.off[p]
        PROVE  /\ out' = out \o Answers(p, b)
               /\ param' = [param EXCEPT ![p] = IF @ = "" /\ b \in {"F0", "F3"} THEN b ELSE ""]
               /\ \A q \in Ports : q # p => scanning'[q] = scanning[q]
               /\ scanning'[p] = (CASE param[p] = "" /\ b = "F5" -> FALSE
                                     [] param[p] = "" /\ b = "FF" -> plugged[p] \in Keyboards
                                     [] param[p] = "" /\ b = "F4" -> TRUE
                                     [] OTHER -> scanning[p])
    <2>1. scanning \in [Ports -> BOOLEAN]
      BY DEF Ps2Types
    <2>2. PICK k : k = (plugged[p] \in Keyboards)
      OBVIOUS
    <2>3. scanning' = [scanning EXCEPT ![p] =
                CASE param[p] = "" /\ b = "F5" -> FALSE
                  [] param[p] = "" /\ b = "FF" -> k
                  [] param[p] = "" /\ b = "F4" -> TRUE
                  [] OTHER -> @]
      BY <1>3, <1>7, <2>2 DEF Receive
    <2>4. scanning'[p] = (CASE param[p] = "" /\ b = "F5" -> FALSE
                                     [] param[p] = "" /\ b = "FF" -> k
                                     [] param[p] = "" /\ b = "F4" -> TRUE
                                     [] OTHER -> scanning[p])
      BY <2>1, <2>3
    <2>5. \A q \in Ports : q # p => scanning'[q] = scanning[q]
      BY <2>1, <2>3
    <2>6. out' = out \o Answers(p, b)
          /\ param' = [param EXCEPT ![p] = IF @ = "" /\ b \in {"F0", "F3"} THEN b ELSE ""]
      BY <1>3, <1>7 DEF Receive
    <2> QED BY <2>2, <2>4, <2>5, <2>6
  <1> QED BY <1>3, <1>4, <1>5, <1>6, <1>7

\* A step of an undisturbed start-up is the driver's own.
LEMMA UndisturbedSteps ==
    ASSUME Ps2Types, UndisturbedCalm, [Ps2Next]_ps2Vars, Undisturbed'
    PROVE  Undisturbed /\ Calm /\ (UNCHANGED ps2Vars \/ AnInstruction \/ Branch)
  <1>1. ASSUME NEW p \in Ports, Type(p) PROVE FALSE
    BY <1>1, TypeTypes DEF Undisturbed
  <1>2. prompt' = prompt /\ keys' = keys
    <2>1. CASE UNCHANGED ps2Vars
      BY <2>1 DEF ps2Vars
    <2>2. CASE AnInstruction
      BY <2>2, InstructionMoves
    <2>3. CASE Branch
      BY <2>3 DEF Branch, hardware
    <2>4. ASSUME NEW p \in Ports, Arrive(p) PROVE prompt' = prompt /\ keys' = keys
      BY <2>4 DEF Arrive
    <2> QED BY <1>1, <2>1, <2>2, <2>3, <2>4 DEF Ps2Next, Driver, AnInstruction
  <1>3. Undisturbed /\ Calm
    BY <1>2 DEF Undisturbed, UndisturbedCalm
  <1>4. ASSUME NEW p \in Ports, Arrive(p) PROVE FALSE
    BY <1>3, <1>4 DEF Calm, Arrive
  <1> QED BY <1>1, <1>3, <1>4 DEF Ps2Next, Driver, AnInstruction

\* A command that switches a port, or that announces the configuration.
Switched(b) ==
    /\ b = "AD" => ctrl'.off[0]
    /\ b = "AE" => ~ctrl'.off[0]
    /\ b \notin {"AD", "AE"} => ctrl'.off[0] = ctrl.off[0]
    /\ b = "A7" => ctrl'.off[1]
    /\ b = "A8" => ~ctrl'.off[1]
    /\ b \notin {"A7", "A8"} => ctrl'.off[1] = ctrl.off[1]

LEMMA SwitchIsNext ==
    ASSUME Ps2Types, AnInstruction, NEW b \in {"AD", "AE", "A7", "A8", "60"}, Head(todo) = C(b)
    PROVE  /\ left' = left - 1 /\ UNCHANGED <<got, out, owed, param, scanning>>
           /\ Closed(ctrl) => Closed(ctrl')
           /\ Switched(b)
  <1>1. left' = left - 1 /\ UNCHANGED <<got, owed, param, scanning>> /\ Command(b)
    BY CommandIsNext
  <1>2. PICK a : Answered(b, a) /\ out' = out \o a
    BY CommandIsNext
  <1>3. a = <<>> /\ out \in Seq(Bytes)
    BY <1>2 DEF Answered, Ps2Types
  <1>4. out' = out
    BY <1>2, <1>3
  <1>5. ctrl \in Configurations /\ Ports = {0, 1}
    BY DEF Ps2Types, Ports
  <1>6. ctrl' = CASE b = "AD" -> [ctrl EXCEPT !.off[0] = TRUE]
                 [] b = "AE" -> [ctrl EXCEPT !.off[0] = FALSE]
                 [] b = "A7" -> [ctrl EXCEPT !.off[1] = TRUE]
                 [] b = "A8" -> [ctrl EXCEPT !.off[1] = FALSE]
                 [] OTHER -> ctrl
    BY <1>1 DEF Command
  <1>7. Switched(b)
    <2>1. ctrl.off \in [Ports -> BOOLEAN] /\ ctrl.off[0] \in BOOLEAN /\ ctrl.off[1] \in BOOLEAN
      BY <1>5 DEF Configurations
    <2>2. \A q \in {0, 1}, v \in BOOLEAN : ctrl' = [ctrl EXCEPT !.off[q] = v]
              => ctrl'.off = [ctrl.off EXCEPT ![q] = v]
      BY <1>5 DEF Configurations
    <2>3. CASE b = "AD"
      <3>1. ctrl'.off = [ctrl.off EXCEPT ![0] = TRUE]
        BY <1>6, <2>2, <2>3
      <3> QED BY <1>5, <2>1, <2>3, <3>1 DEF Switched
    <2>4. CASE b = "AE"
      <3>1. ctrl'.off = [ctrl.off EXCEPT ![0] = FALSE]
        BY <1>6, <2>2, <2>4
      <3> QED BY <1>5, <2>1, <2>4, <3>1 DEF Switched
    <2>5. CASE b = "A7"
      <3>1. ctrl'.off = [ctrl.off EXCEPT ![1] = TRUE]
        BY <1>6, <2>2, <2>5
      <3> QED BY <1>5, <2>1, <2>5, <3>1 DEF Switched
    <2>6. CASE b = "A8"
      <3>1. ctrl'.off = [ctrl.off EXCEPT ![1] = FALSE]
        BY <1>6, <2>2, <2>6
      <3> QED BY <1>5, <2>1, <2>6, <3>1 DEF Switched
    <2>7. CASE b = "60"
      <3>1. ctrl' = ctrl
        BY <1>6, <2>7
      <3> QED BY <2>7, <3>1 DEF Switched
    <2> QED BY <2>3, <2>4, <2>5, <2>6, <2>7
  <1>8. Closed(ctrl) => Closed(ctrl')
    BY <1>5, <1>6 DEF Configurations, Closed
  <1> QED BY <1>1, <1>4, <1>7, <1>8

\* A command that is answered into an empty buffer.
LEMMA QuestionIsNext ==
    ASSUME Ps2Types, AnInstruction, NEW b \in {"20", "AA", "AB", "A9"}, Head(todo) = C(b),
           out = <<>>
    PROVE  /\ left' = left - 1 /\ UNCHANGED <<got, owed, ctrl, param, scanning>>
           /\ b = "20" => out' = <<"config">>
           /\ b \in {"AB", "A9"} => out' = <<"00">>
           /\ Len(out') = 1
  <1>1. left' = left - 1 /\ UNCHANGED <<got, owed, param, scanning>> /\ Command(b)
    BY CommandIsNext
  <1>2. PICK a : Answered(b, a) /\ out' = out \o a
    BY CommandIsNext
  <1>3. a \in {<<"config">>, <<"55">>, <<"FC">>, <<"00">>}
        /\ (b = "20" => a = <<"config">>) /\ (b \in {"AB", "A9"} => a = <<"00">>)
    BY <1>2 DEF Answered
  <1>4. out' = a /\ Len(a) = 1
    BY <1>2, <1>3
  <1>5. ctrl' = ctrl
    BY <1>1 DEF Command
  <1> QED BY <1>1, <1>3, <1>4, <1>5

LEMMA FirstStays ==
    ASSUME NEW s \in Seq(Bytes), Len(s) >= 1, NEW x \in Bytes, NEW t, t = Append(s, x)
    PROVE  t[1] = s[1] /\ t[Len(s) + 1] = x
  <1>1. Len(s) \in Nat /\ DOMAIN s = 1 .. Len(s)
    OBVIOUS
  <1> QED BY <1>1

LEMMA HeldInOrder ==
    ASSUME Ps2Types
    PROVE  got \in Seq(Bytes) /\ Len(got) = BytesRead(pc, left) /\ out \in Seq(Bytes)
  BY DEF Ps2Types, left

LEMMA ConfiguringGoesOn ==
    ASSUME Ps2Types, Configuring, AnInstruction, pc = "configure" PROVE Configuring'
  <1>1. /\ left \in 1 .. 6 /\ pc' = pc /\ device' = device
        /\ Head(todo) = <<C("AD"), C("A7"), F, F, C("20"), R>>[7 - left]
    BY InstructionMoves, InstructionAhead DEF Stretch
  <1>2. /\ device = 0 /\ (left <= 5 => ctrl.off[0]) /\ (left <= 4 => ctrl.off[1])
        /\ out = IF left = 1 THEN <<"config">> ELSE <<>>
    BY DEF Configuring
  <1>3. CASE left = 6
    <2>1. Head(todo) = C("AD")
      BY <1>1, <1>3
    <2>2. left' = 5 /\ out' = out /\ ctrl'.off[0]
      BY <1>3, <2>1, SwitchIsNext DEF Switched
    <2> QED BY <1>1, <1>2, <1>3, <2>2 DEF Configuring
  <1>4. CASE left = 5
    <2>1. Head(todo) = C("A7")
      BY <1>1, <1>4
    <2>2. left' = 4 /\ out' = out /\ ctrl'.off[0] = ctrl.off[0] /\ ctrl'.off[1]
      BY <1>4, <2>1, SwitchIsNext DEF Switched
    <2> QED BY <1>1, <1>2, <1>4, <2>2 DEF Configuring
  <1>5. CASE left \in {4, 3}
    <2>1. Head(todo) = F
      BY <1>1, <1>5
    <2> QED BY <1>1, <1>2, <1>5, <2>1, FlushedIsNext DEF Configuring
  <1>6. CASE left = 2
    <2>1. Head(todo) = C("20")
      BY <1>1, <1>6
    <2> QED BY <1>1, <1>2, <1>6, <2>1, QuestionIsNext DEF Configuring
  <1>7. CASE left = 1
    <2>1. Head(todo) = R
      BY <1>1, <1>7
    <2>2. got = <<>>
      BY <1>1, <1>7, NothingRead DEF BytesRead
    <2>3. got' = <<"config">> /\ out' = <<>>
      BY <1>2, <1>7, <2>1, <2>2, ReadIsNext DEF Taken, Byte
    <2> QED BY <1>1, <1>2, <1>7, <2>1, <2>3, ReadIsNext DEF Configuring
  <1> QED BY <1>1, <1>3, <1>4, <1>5, <1>6, <1>7

LEMMA SelfTestingGoesOn ==
    ASSUME Ps2Types, SelfTesting, AnInstruction, pc = "selfTest" PROVE SelfTesting'
  <1>1. /\ left \in 1 .. 8 /\ pc' = pc /\ device' = device /\ config' = config
        /\ Head(todo) = <<C("60"), <<"config", config>>, F, F, C("20"), R, C("AA"), R>>[9 - left]
    BY InstructionMoves, InstructionAhead DEF Stretch
  <1>2. /\ device = 0 /\ Closed(config) /\ config.off[0] /\ config.off[1]
        /\ left <= 6 => ctrl = config
        /\ left \in {4, 2} => out = <<>>
        /\ left = 3 => out = <<"config">>
        /\ left = 1 => Len(out) = 1
        /\ left <= 2 => got[1] = "config"
    BY DEF SelfTesting
  <1>3. CASE left = 8
    <2>1. Head(todo) = C("60")
      BY <1>1, <1>3
    <2> QED BY <1>1, <1>2, <1>3, <2>1, SwitchIsNext DEF SelfTesting
  <1>4. CASE left = 7
    <2>1. Head(todo) = <<"config", config>>
      BY <1>1, <1>4
    <2> QED BY <1>1, <1>2, <1>4, <2>1, ConfigurationIsNext DEF SelfTesting
  <1>5. CASE left \in {6, 5}
    <2>1. Head(todo) = F
      BY <1>1, <1>5
    <2> QED BY <1>1, <1>2, <1>5, <2>1, FlushedIsNext DEF SelfTesting
  <1>6. CASE left = 4
    <2>1. Head(todo) = C("20")
      BY <1>1, <1>6
    <2> QED BY <1>1, <1>2, <1>6, <2>1, QuestionIsNext DEF SelfTesting
  <1>7. CASE left = 3
    <2>1. Head(todo) = R
      BY <1>1, <1>7
    <2>2. got = <<>>
      BY <1>1, <1>7, NothingRead DEF BytesRead
    <2>3. got' = <<"config">> /\ out' = <<>>
      BY <1>2, <1>7, <2>1, <2>2, ReadIsNext DEF Taken, Byte
    <2> QED BY <1>1, <1>2, <1>7, <2>1, <2>3, ReadIsNext DEF SelfTesting
  <1>8. CASE left = 2
    <2>1. Head(todo) = C("AA")
      BY <1>1, <1>8
    <2> QED BY <1>1, <1>2, <1>8, <2>1, QuestionIsNext DEF SelfTesting
  <1>9. CASE left = 1
    <2>1. Head(todo) = R
      BY <1>1, <1>9
    <2>2. got \in Seq(Bytes) /\ Len(got) = 1 /\ out \in Seq(Bytes)
      BY <1>1, <1>9, HeldInOrder DEF BytesRead
    <2>3. Len(out) = 1
      BY <1>2, <1>9
    <2>4. out' = <<>>
      BY <2>1, <2>2, <2>3, ReadIsNext DEF Taken
    <2>5. PICK x : x = Byte /\ x \in Bytes
      BY ByteType
    <2>6. PICK t : t = Append(got, x)
      OBVIOUS
    <2>8. t[1] = got[1]
      BY <2>2, <2>5, <2>6, FirstStays
    <2>7. got'[1] = "config"
      BY <1>2, <1>9, <2>1, <2>5, <2>6, <2>8, ReadIsNext
    <2> QED BY <1>1, <1>2, <1>9, <2>1, <2>4, <2>7, ReadIsNext DEF SelfTesting
  <1> QED BY <1>1, <1>3, <1>4, <1>5, <1>6, <1>7, <1>8, <1>9

LEMMA TwoBytes ==
    ASSUME NEW a, NEW b
    PROVE  /\ Append(<<a>>, b) = <<a, b>> /\ <<a>> \o <<b>> = <<a, b>>
           /\ \A c : <<a>> \o <<b, c>> = <<a, b, c>>
  <1>1. Append(<<a>>, b) = <<a, b>>
    <2> DEFINE s == Append(<<a>>, b)
               t == <<a, b>>
    <2>1. PICK S : S = {a, b}
      OBVIOUS
    <2>2. s \in Seq(S) /\ Len(s) = 2 /\ t \in Seq(S) /\ Len(t) = 2
      BY <2>1
    <2>3. s[1] = a /\ s[2] = b
      OBVIOUS
    <2>4. \A i \in 1 .. 2 : s[i] = t[i]
      BY <2>3
    <2> HIDE DEF s, t
    <2>5. s = t
      BY <2>2, <2>4, SameSequence
    <2> QED BY <2>5 DEF s, t
  <1>2. <<a>> \o <<b>> = <<a, b>>
    <2> DEFINE s == <<a>> \o <<b>>
               t == <<a, b>>
    <2>1. PICK S : S = {a, b}
      OBVIOUS
    <2>2. s \in Seq(S) /\ Len(s) = 2 /\ t \in Seq(S) /\ Len(t) = 2
      BY <2>1
    <2>3. s[1] = a /\ s[2] = b
      OBVIOUS
    <2>4. \A i \in 1 .. 2 : s[i] = t[i]
      BY <2>3
    <2> HIDE DEF s, t
    <2>5. s = t
      BY <2>2, <2>4, SameSequence
    <2> QED BY <2>5 DEF s, t
  <1>3. ASSUME NEW c PROVE <<a>> \o <<b, c>> = <<a, b, c>>
    <2> DEFINE s == <<a>> \o <<b, c>>
               t == <<a, b, c>>
    <2>1. PICK S : S = {a, b, c}
      OBVIOUS
    <2>2. s \in Seq(S) /\ Len(s) = 3 /\ t \in Seq(S) /\ Len(t) = 3
      BY <2>1
    <2>3. s[1] = a /\ s[2] = b /\ s[3] = c
      OBVIOUS
    <2>4. \A i \in 1 .. 3 : s[i] = t[i]
      BY <2>3
    <2> HIDE DEF s, t
    <2>5. s = t
      BY <2>2, <2>4, SameSequence
    <2> QED BY <2>5 DEF s, t
  <1> QED BY <1>1, <1>2, <1>3

LEMMA TestingPortGoesOn ==
    ASSUME Ps2Types, TestingPort, AnInstruction, pc = "testPort" PROVE TestingPort'
  <1>1. left \in 1 .. 4 /\ pc' = pc /\ device' = device /\ device \in {0, 1}
    <2>1. pc' = pc /\ device' = device /\ left \in Nat /\ left >= 1
      BY InstructionMoves
    <2>2. device \in {0, 1}
      BY DEF Ps2Types, Ports
    <2>3. left <= Len(Stretch(pc, device, config))
      BY InstructionMoves, InstructionAhead
    <2>4. Len(Stretch(pc, device, config)) \in {3, 4}
      BY <2>2 DEF Stretch
    <2>5. PICK n : n = Len(Stretch(pc, device, config))
      OBVIOUS
    <2>6. n \in {3, 4} /\ left <= n
      BY <2>3, <2>4, <2>5
    <2>7. left \in Nat /\ left >= 1
      BY <2>1
    <2>8. left \in 1 .. 4
      BY <2>6, <2>7
    <2> QED BY <2>1, <2>2, <2>8
  <1>2. /\ left = 4 => Head(todo) = C("A7") /\ device = 1
        /\ left = 3 => Head(todo) = F
        /\ left = 2 => Head(todo) \in {C("AB"), C("A9")}
        /\ left = 1 => Head(todo) = R
    <2>1. /\ Head(todo) = Stretch(pc, device, config)[Len(Stretch(pc, device, config)) - left + 1]
          /\ left <= Len(Stretch(pc, device, config))
      BY InstructionMoves, InstructionAhead
    <2>2. CASE device = 0
      BY <1>1, <2>1, <2>2 DEF Stretch
    <2>3. CASE device = 1
      BY <1>1, <2>1, <2>3 DEF Stretch
    <2> QED BY <1>1, <2>2, <2>3
  <1>3. /\ Closed(ctrl) /\ \A p \in Ports : p < device => ~ctrl.off[p]
        /\ left \in {0, 2} => out = <<>>
        /\ left = 1 => out = <<"00">>
    BY DEF TestingPort
  <1>4. CASE left = 4
    <2>1. left' = 3 /\ Closed(ctrl') /\ ctrl'.off[0] = ctrl.off[0]
      BY <1>2, <1>3, <1>4, SwitchIsNext DEF Switched
    <2>2. \A p \in Ports : p < device => ~ctrl'.off[p]
      BY <1>1, <1>2, <1>3, <1>4, <2>1 DEF Ports
    <2> QED BY <1>1, <2>1, <2>2 DEF TestingPort
  <1>5. CASE left = 3
    <2> QED BY <1>1, <1>2, <1>3, <1>5, FlushedIsNext DEF TestingPort
  <1>6. CASE left = 2
    <2>1. left' = 1 /\ out' = <<"00">> /\ ctrl' = ctrl
      BY <1>2, <1>3, <1>6, QuestionIsNext
    <2> QED BY <1>1, <1>3, <2>1 DEF TestingPort
  <1>7. CASE left = 1
    <2>1. Head(todo) = R
      BY <1>2, <1>7
    <2>2. got = <<>>
      BY <1>7, NothingRead DEF BytesRead
    <2>3. got' = <<"00">> /\ out' = <<>>
      BY <1>3, <1>7, <2>1, <2>2, ReadIsNext DEF Taken, Byte
    <2> QED BY <1>1, <1>3, <1>7, <2>1, <2>3, ReadIsNext DEF TestingPort
  <1> QED BY <1>1, <1>4, <1>5, <1>6, <1>7

LEMMA HereStays ==
    ASSUME Ps2Types, AnInstruction
    PROVE  /\ pc' = pc /\ device' = device /\ Here' = Here /\ config' = config
           /\ plugged' = plugged /\ device \in Ports /\ Ports = {0, 1} /\ Here \in Kinds
  BY InstructionMoves DEF Here, Ps2Types, Ports

LEMMA ResettingGoesOn ==
    ASSUME Ps2Types, Resetting, Parameters, prompt, AnInstruction, pc = "reset"
    PROVE  Resetting'
  <1>1. /\ pc' = pc /\ device' = device /\ Here' = Here /\ device \in Ports /\ Ports = {0, 1}
        /\ Here \in Kinds /\ plugged' = plugged
    BY HereStays
  <1>2. /\ left \in 1 .. 5
        /\ Head(todo) = <<C(IF device = 0 THEN "AE" ELSE "A8"), F, D(device, "FF"), R, R>>[6 - left]
    BY InstructionMoves, InstructionAhead DEF Stretch
  <1>3. /\ Closed(ctrl) /\ \A p \in Ports : p < device \/ (left <= 4 /\ p = device) => ~ctrl.off[p]
        /\ left = 3 => out = <<>>
        /\ Here = "none" => (left <= 3 => out = <<>>)
        /\ Here # "none" =>
            /\ left = 2 => out = IF Here \in Mice THEN <<"FA", "AA", "00">> ELSE <<"FA", "AA">>
            /\ left = 1 => got = <<"FA">>
                           /\ out = IF Here \in Mice THEN <<"AA", "00">> ELSE <<"AA">>
    BY DEF Resetting
  <1>4. CASE left = 5
    <2>1. Head(todo) = C(IF device = 0 THEN "AE" ELSE "A8")
      BY <1>2, <1>4
    <2>2. left' = 4 /\ Closed(ctrl') /\ ~ctrl'.off[device]
          /\ ctrl'.off[1 - device] = ctrl.off[1 - device]
      <3>1. CASE device = 0
        BY <1>3, <1>4, <2>1, <3>1, SwitchIsNext DEF Switched
      <3>2. CASE device = 1
        BY <1>3, <1>4, <2>1, <3>2, SwitchIsNext DEF Switched
      <3> QED BY <1>1, <3>1, <3>2
    <2>3. \A p \in Ports : p < device \/ p = device => ~ctrl'.off[p]
      BY <1>1, <1>3, <2>2
    <2> QED BY <1>1, <2>2, <2>3 DEF Resetting
  <1>5. CASE left = 4
    <2>1. Head(todo) = F
      BY <1>2, <1>5
    <2>2. left' = 3 /\ out' = <<>> /\ ctrl' = ctrl
      BY <1>5, <2>1, FlushedIsNext
    <2> QED BY <1>1, <1>3, <1>5, <2>2 DEF Resetting
  <1>6. CASE left = 3
    <2>1. Head(todo) = D(device, "FF")
      BY <1>2, <1>6
    <2>2. /\ left' = left - 1 /\ ctrl' = ctrl
          /\ plugged[device] = "none" => out' = out
      BY <1>1, <2>1, DeviceIsNext
    <2>3. ASSUME Here # "none"
          PROVE  out' = IF Here \in Mice THEN <<"FA", "AA", "00">> ELSE <<"FA", "AA">>
      <3>1. param[device] = ""
        BY <1>1 DEF Parameters, Expected
      <3>5. ~ctrl.off[device]
        BY <1>1, <1>3, <1>6
      <3>2. Answers(device, "FF") = IF Here \in Mice THEN <<"FA", "AA", "00">> ELSE <<"FA", "AA">>
        BY <3>1 DEF Answers, Here
      <3>3. out' = out \o Answers(device, "FF")
        BY <1>1, <2>1, <2>3, <3>5, DeviceIsNext DEF Here
      <3> QED BY <1>3, <1>6, <3>2, <3>3
    <2> QED BY <1>1, <1>3, <1>6, <2>2, <2>3 DEF Resetting, Here
  <1>7. CASE left = 2
    <2>1. Head(todo) = R
      BY <1>2, <1>7
    <2>2. got = <<>>
      BY <1>7, NothingRead DEF BytesRead
    <2>3. left' = 1 /\ ctrl' = ctrl /\ got' = <<Byte>> /\ Taken
      BY <1>7, <2>1, <2>2, ReadIsNext
    <2>4. Here = "none" => out' = <<>>
      BY <1>3, <1>7, <2>3 DEF Taken
    <2>5. ASSUME Here # "none"
          PROVE  got' = <<"FA">> /\ out' = IF Here \in Mice THEN <<"AA", "00">> ELSE <<"AA">>
      <3>1. CASE Here \in Mice
        <4>1. out = <<"FA", "AA", "00">>
          BY <1>3, <1>7, <2>5, <3>1
        <4>2. Byte = "FA" /\ out' = <<"AA", "00">>
          BY <2>3, <4>1 DEF Taken, Byte
        <4> QED BY <2>3, <3>1, <4>2
      <3>2. CASE Here \notin Mice
        <4>1. out = <<"FA", "AA">>
          BY <1>3, <1>7, <2>5, <3>2
        <4>2. Byte = "FA" /\ out' = <<"AA">>
          BY <2>3, <4>1 DEF Taken, Byte
        <4> QED BY <2>3, <3>2, <4>2
      <3> QED BY <3>1, <3>2
    <2> QED BY <1>1, <1>3, <1>7, <2>3, <2>4, <2>5 DEF Resetting
  <1>8. CASE left = 1
    <2>1. Head(todo) = R
      BY <1>2, <1>8
    <2>2. got \in Seq(Bytes) /\ Len(got) = 1
      BY <1>8, HeldInOrder DEF BytesRead
    <2>3. left' = 0 /\ ctrl' = ctrl /\ got' = Append(got, Byte) /\ Taken
      BY <1>8, <2>1, ReadIsNext
    <2>4. ASSUME Here = "none" PROVE out' = <<>> /\ got' # <<"FA", "AA">>
      <3>1. out = <<>>
        BY <1>3, <1>8, <2>4
      <3>2. out' = <<>> /\ got' = Append(got, "FF")
        BY <2>3, <3>1 DEF Taken, Byte, Timeout
      <3>3. PICK t : t = Append(got, "FF")
        OBVIOUS
      <3>4. "FF" \in Bytes /\ Len(got) >= 1
        BY <2>2 DEF Bytes
      <3>5. t[Len(got) + 1] = "FF"
        BY <2>2, <3>3, <3>4, FirstStays, Zenon
      <3>6. t[2] = "FF"
        BY <2>2, <3>5
      <3>7. t # <<"FA", "AA">>
        BY <3>6
      <3> QED BY <3>2, <3>3, <3>7
    <2>5. ASSUME Here # "none"
          PROVE  got' = <<"FA", "AA">> /\ out' = IF Here \in Mice THEN <<"00">> ELSE <<>>
      <3>1. Byte = "AA"
        BY <1>3, <1>8, <2>5 DEF Byte
      <3>2. got' = Append(<<"FA">>, "AA")
        BY <1>3, <1>8, <2>3, <2>5, <3>1
      <3>3. Append(<<"FA">>, "AA") = <<"FA", "AA">>
        BY TwoBytes
      <3>4. out' = IF Here \in Mice THEN <<"00">> ELSE <<>>
        <4>1. CASE Here \in Mice
          <5>1. out = <<"AA", "00">>
            BY <1>3, <1>8, <2>5, <4>1
          <5>2. out' = <<"00">>
            BY <2>3, <5>1 DEF Taken
          <5> QED BY <4>1, <5>2
        <4>2. CASE Here \notin Mice
          <5>1. out = <<"AA">>
            BY <1>3, <1>8, <2>5, <4>2
          <5>2. out' = <<>>
            BY <2>3, <5>1 DEF Taken
          <5> QED BY <4>2, <5>2
        <4> QED BY <4>1, <4>2
      <3> QED BY <3>2, <3>3, <3>4
    <2> QED BY <1>1, <1>3, <1>8, <2>3, <2>4, <2>5 DEF Resetting
  <1> QED BY <1>2, <1>4, <1>5, <1>6, <1>7, <1>8

\* The device that is set up answers, and its port stays open.
LEMMA OpenStays ==
    ASSUME Ps2Types, AnInstruction, Open, ctrl' = ctrl PROVE Open'
  <1>1. device' = device
    BY InstructionMoves
  <1> QED BY <1>1 DEF Open

LEMMA HereAnswers ==
    ASSUME Ps2Types, AnInstruction, Open, Here # "none", prompt, NEW b, Head(todo) = D(device, b)
    PROVE  /\ left' = left - 1 /\ got' = got /\ ctrl' = ctrl
           /\ out' = out \o Answers(device, b)
           /\ param' = [param EXCEPT ![device] = IF @ = "" /\ b \in {"F0", "F3"} THEN b ELSE ""]
  <1>1. device \in Ports /\ ~ctrl.off[device]
    BY HereStays DEF Open
  <1> QED BY <1>1, DeviceIsNext DEF Here

LEMMA TakenFrom ==
    ASSUME Taken
    PROVE  /\ out = <<>> => Byte = Timeout /\ out' = <<>>
           /\ \A a : out = <<a>> => Byte = a /\ out' = <<>>
           /\ \A a, b : out = <<a, b>> => Byte = a /\ out' = <<b>>
           /\ \A a, b, c : out = <<a, b, c>> => Byte = a /\ out' = <<b, c>>
  <1>1. out = <<>> => Byte = Timeout /\ out' = <<>>
    BY DEF Taken, Byte
  <1>2. ASSUME NEW a, out = <<a>> PROVE Byte = a /\ out' = <<>>
    BY <1>2 DEF Taken, Byte
  <1>3. ASSUME NEW a, NEW b, out = <<a, b>> PROVE Byte = a /\ out' = <<b>>
    BY <1>3 DEF Taken, Byte
  <1>4. ASSUME NEW a, NEW b, NEW c, out = <<a, b, c>> PROVE Byte = a /\ out' = <<b, c>>
    BY <1>4 DEF Taken, Byte
  <1> QED BY <1>1, <1>2, <1>3, <1>4

LEMMA IdentifyingGoesOn ==
    ASSUME Ps2Types, IdentifyingDevice, Parameters, prompt, AnInstruction, pc = "identify"
    PROVE  IdentifyingDevice'
  <1>1. /\ pc' = pc /\ device' = device /\ Here' = Here /\ device \in Ports /\ Ports = {0, 1}
        /\ Here \in Kinds /\ plugged' = plugged
    BY HereStays
  <1>2. /\ left \in 1 .. 5
        /\ Head(todo) = <<D(device, "F5"), Ack, D(device, "F2"), Ack, R>>[6 - left]
    BY InstructionMoves, InstructionAhead DEF Stretch
  <1>3. Here \in {"mouse", "mf2", "at"} /\ Open /\ param[device] = ""
    BY <1>1 DEF IdentifyingDevice, Parameters, Expected, Kinds, Mice, Keyboards
  <1>4. ASSUME NEW b, Head(todo) = D(device, b)
        PROVE  left' = left - 1 /\ ctrl' = ctrl /\ out' = out \o Answers(device, b)
    BY <1>3, <1>4, HereAnswers
  <1>5. ctrl' = ctrl
    <2>1. Head(todo) \in {D(device, "F5"), Ack, D(device, "F2"), R}
      BY <1>2
    <2> QED BY <1>4, <2>1, AckIsNext, ReadIsNext
  <1>6. Open'
    BY <1>3, <1>5, OpenStays
  <1>7. SUFFICES /\ left' = 4 => out' = <<"FA">> \/ out' = <<"00", "FA">>
                 /\ left' = 3 => out' = <<>>
                 /\ Here = "mouse" => MouseIdentified'
                 /\ Here = "mf2" => Mf2Identified'
                 /\ Here = "at" => AtIdentified'
    BY <1>1, <1>3, <1>6 DEF IdentifyingDevice
  <1>8. CASE left = 5
    <2>1. Head(todo) = D(device, "F5")
      BY <1>2, <1>8
    <2>2. Answers(device, "F5") = <<"FA">>
      BY <1>3 DEF Answers
    <2>3. left' = 4 /\ out' = out \o <<"FA">>
      BY <1>4, <1>8, <2>1, <2>2
    <2>4. out = <<"00">> \/ out = <<>>
      BY <1>3, <1>8 DEF IdentifyingDevice, MouseIdentified, Mf2Identified, AtIdentified
    <2>5. <<"00">> \o <<"FA">> = <<"00", "FA">> /\ <<>> \o <<"FA">> = <<"FA">>
      BY TwoBytes
    <2>6. out' = <<"FA">> \/ out' = <<"00", "FA">>
      BY <2>3, <2>4, <2>5
    <2> QED BY <2>3, <2>6 DEF MouseIdentified, Mf2Identified, AtIdentified
  <1>9. CASE left = 4
    <2>1. Head(todo) = Ack
      BY <1>2, <1>9
    <2>2. out = <<"FA">> \/ out = <<"00", "FA">>
      BY <1>9 DEF IdentifyingDevice
    <2>4. CASE out = <<"FA">>
      <3>1. Byte = "FA" /\ out' = <<>>
        BY <2>1, <2>4, AckIsNext DEF Taken, Byte
      <3>2. left' = 3
        BY <1>9, <2>1, <3>1, AckIsNext
      <3> QED BY <3>1, <3>2 DEF MouseIdentified, Mf2Identified, AtIdentified
    <2>5. CASE out = <<"00", "FA">>
      <3>1. Byte = "00" /\ out' = <<"FA">>
        BY <2>1, <2>5, AckIsNext DEF Taken, Byte
      <3>2. left' = 4
        BY <1>9, <2>1, <3>1, AckIsNext
      <3> QED BY <3>1, <3>2 DEF MouseIdentified, Mf2Identified, AtIdentified
    <2> QED BY <2>2, <2>4, <2>5
  <1>10. CASE left = 3
    <2>1. Head(todo) = D(device, "F2")
      BY <1>2, <1>10
    <2>2. out = <<>>
      BY <1>10 DEF IdentifyingDevice
    <2>3. /\ Here = "mouse" => Answers(device, "F2") = <<"FA", "00">>
          /\ Here = "mf2" => Answers(device, "F2") = <<"FA", "AB", "83">>
          /\ Here = "at" => Answers(device, "F2") = <<"FA">>
      BY <1>3 DEF Answers, Here, Mice
    <2>4. Answers(device, "F2") \in {<<"FA", "00">>, <<"FA", "AB", "83">>, <<"FA">>}
      BY <1>3, <2>3
    <2>5. left' = 2 /\ out' = Answers(device, "F2")
      BY <1>4, <1>10, <2>1, <2>2, <2>4
    <2> QED BY <2>3, <2>5 DEF MouseIdentified, Mf2Identified, AtIdentified
  <1>11. CASE left = 2
    <2>1. Head(todo) = Ack
      BY <1>2, <1>11
    <2>2. /\ Here = "mouse" => out = <<"FA", "00">>
          /\ Here = "mf2" => out = <<"FA", "AB", "83">>
          /\ Here = "at" => out = <<"FA">>
      BY <1>11 DEF IdentifyingDevice, MouseIdentified, Mf2Identified, AtIdentified
    <2>3. Taken /\ (Byte = "FA" => left' = 1)
      BY <1>11, <2>1, AckIsNext
    <2>5. /\ Here = "mouse" => Byte = "FA" /\ out' = <<"00">>
          /\ Here = "mf2" => Byte = "FA" /\ out' = <<"AB", "83">>
          /\ Here = "at" => Byte = "FA" /\ out' = <<>>
      BY <2>2, <2>3, TakenFrom, Zenon
    <2>4. Byte = "FA"
      BY <1>3, <2>5
    <2> QED BY <2>3, <2>4, <2>5 DEF MouseIdentified, Mf2Identified, AtIdentified
  <1>12. CASE left = 1
    <2>1. Head(todo) = R
      BY <1>2, <1>12
    <2>2. /\ Here = "mouse" => out = <<"00">>
          /\ Here = "mf2" => out = <<"AB", "83">>
          /\ Here = "at" => out = <<>>
      BY <1>12 DEF IdentifyingDevice, MouseIdentified, Mf2Identified, AtIdentified
    <2>3. got = <<>>
      BY <1>12, NothingRead DEF BytesRead
    <2>4. left' = 0 /\ Taken /\ got' = <<Byte>>
      BY <1>12, <2>1, <2>3, ReadIsNext
    <2>5. got'[1] = Byte
      BY <2>4
    <2>6. /\ Here = "mouse" => Byte = "00" /\ out' = <<>>
          /\ Here = "mf2" => Byte = "AB" /\ out' = <<"83">>
          /\ Here = "at" => Byte = Timeout
      BY <2>2, <2>4, TakenFrom, Zenon
    <2> QED BY <2>4, <2>5, <2>6 DEF MouseIdentified, Mf2Identified, AtIdentified
  <1> QED BY <1>2, <1>8, <1>9, <1>10, <1>11, <1>12

LEMMA IdentifyingKeyboardGoesOn ==
    ASSUME Ps2Types, IdentifyingKeyboard, AnInstruction, pc = "identifyKeyboard"
    PROVE  IdentifyingKeyboard'
  <1>1. pc' = pc /\ Here' = Here
    BY HereStays
  <1>2. left = 1 /\ Head(todo) = R
    BY InstructionMoves, InstructionAhead DEF Stretch
  <1>3. Here = "mf2" /\ Open /\ out = <<"83">>
    BY <1>2 DEF IdentifyingKeyboard
  <1>4. got = <<>>
    BY <1>2, NothingRead DEF BytesRead
  <1>5. got' = <<"83">> /\ left' = 0
    BY <1>2, <1>3, <1>4, ReadIsNext DEF Byte
  <1>6. Open'
    BY <1>2, <1>3, ReadIsNext, OpenStays
  <1> QED BY <1>1, <1>3, <1>5, <1>6 DEF IdentifyingKeyboard

LEMMA ParameterSet ==
    ASSUME Ps2Types, Parameters, device' = device, NEW e,
           param' = [param EXCEPT ![device] = e], e = Expected'
    PROVE  Parameters'
  <1>1. param \in [Ports -> {"", "F0", "F3"}] /\ device \in Ports
    BY DEF Ps2Types
  <1> QED BY <1>1 DEF Parameters

LEMMA ParameterStays ==
    ASSUME Ps2Types, Parameters, device' = device, param' = param, Expected' = Expected
    PROVE  Parameters'
  BY DEF Parameters

LEMMA MouseExpects ==
    pc = "mouse" => /\ left \in {5, 4, 3} => Expected = "F3"
                    /\ left \notin {5, 4, 3} => Expected = ""
  BY DEF Expected

LEMMA KeyboardExpects ==
    pc = "keyboard" => /\ left \in {7, 2} => Expected = "F0"
                       /\ left \notin {7, 2} => Expected = ""
  BY DEF Expected

LEMMA SettingUpMouseGoesOn ==
    ASSUME Ps2Types, SettingUpMouse, Parameters, prompt, AnInstruction, pc = "mouse"
    PROVE  SettingUpMouse' /\ Parameters'
  <1>1. /\ pc' = pc /\ device' = device /\ Here' = Here /\ device \in Ports
        /\ plugged' = plugged
    BY HereStays
  <1>2. /\ left \in 1 .. 9
        /\ Head(todo) = <<D(device, "F6"), Ack, F, D(device, "F3"), Ack, F,
                          D(device, "10"), Ack, F>>[10 - left]
    BY InstructionMoves, InstructionAhead DEF Stretch
  <1>3. Here \in Mice /\ Here # "none" /\ Open /\ param[device] = Expected
    BY <1>1 DEF SettingUpMouse, Parameters, Mice
  <1>4. ASSUME NEW b, Head(todo) = D(device, b)
        PROVE  left' = left - 1 /\ ctrl' = ctrl /\ out' = out \o Answers(device, b)
    BY <1>3, <1>4, HereAnswers
  <1>13. ASSUME NEW b, Head(todo) = D(device, b)
         PROVE  param' = [param EXCEPT ![device] =
                             IF param[device] = "" /\ b \in {"F0", "F3"} THEN b ELSE ""]
    BY <1>3, <1>13, HereAnswers
  <1>5. ctrl' = ctrl
    <2>1. Head(todo) \in {D(device, "F6"), D(device, "F3"), D(device, "10"), Ack, F}
      BY <1>2
    <2> QED BY <1>4, <2>1, AckIsNext, FlushedIsNext
  <1>6. Open'
    BY <1>3, <1>5, OpenStays
  <1>7. SUFFICES /\ left' \in {8, 5, 2} => out' = <<"FA">>
                 /\ left' \in {9, 6, 3} => out' = <<>>
                 /\ Parameters'
    BY <1>1, <1>3, <1>6 DEF SettingUpMouse
  <1>8. left \in {9, 6, 3} => out = <<>>
    BY DEF SettingUpMouse
  <1>14. /\ left \in {5, 4, 3} => Expected = "F3"
         /\ left \notin {5, 4, 3} => Expected = ""
    BY MouseExpects
  <1>15. /\ left' \in {5, 4, 3} => Expected' = "F3"
         /\ left' \notin {5, 4, 3} => Expected' = ""
    <2>1. (pc = "mouse" => /\ left \in {5, 4, 3} => Expected = "F3"
                           /\ left \notin {5, 4, 3} => Expected = "")'
      BY MouseExpects, PTL
    <2> QED BY <1>1, <2>1
  <1>9. CASE left \in {9, 6}
    <2>1. PICK b \in {"F6", "F3"} : Head(todo) = D(device, b) /\ (b = "F3" <=> left = 6)
      BY <1>2, <1>9
    <2>2. param[device] = ""
      <3>1. left \notin {5, 4, 3}
        BY <1>9
      <3>2. Expected = ""
        BY <1>14, <3>1, Zenon
      <3> QED BY <1>3, <3>2, Zenon
    <2>3. Answers(device, b) = <<"FA">> /\ out = <<>>
      BY <1>8, <1>9, <2>1, <2>2 DEF Answers
    <2>4. left' = left - 1 /\ out' = <<"FA">>
      <3>1. left' = left - 1 /\ out' = out \o Answers(device, b)
        BY <1>4, <2>1
      <3> QED BY <2>3, <3>1
    <2>5. Expected' = IF b = "F3" THEN "F3" ELSE ""
      <3>1. left' \in {5, 4, 3} <=> b = "F3"
        BY <1>9, <2>1, <2>4
      <3> QED BY <1>15, <3>1, Zenon
    <2>6. param' = [param EXCEPT ![device] = IF b = "F3" THEN "F3" ELSE ""]
      BY <1>13, <2>1, <2>2
    <2>7. Parameters'
      BY <1>1, <2>5, <2>6, ParameterSet
    <2> QED BY <1>9, <2>4, <2>7
  <1>10. CASE left = 3
    <2>1. Head(todo) = D(device, "10")
      BY <1>2, <1>10
    <2>2. param[device] = "F3"
      <3>1. left \in {5, 4, 3}
        BY <1>10
      <3>2. Expected = "F3"
        BY <1>14, <3>1, Zenon
      <3> QED BY <1>3, <3>2, Zenon
    <2>3. Answers(device, "10") = <<"FA">> /\ out = <<>>
      BY <1>8, <1>10, <2>2 DEF Answers
    <2>4. left' = 2 /\ out' = <<"FA">>
      <3>1. left' = left - 1 /\ out' = out \o Answers(device, "10")
        BY <1>4, <2>1
      <3> QED BY <1>10, <2>3, <3>1
    <2>5. Expected' = ""
      <3>1. left' \notin {5, 4, 3}
        BY <2>4
      <3> QED BY <1>15, <3>1, Zenon
    <2>6. param' = [param EXCEPT ![device] = ""]
      BY <1>13, <2>1, <2>2
    <2>7. Parameters'
      BY <1>1, <2>5, <2>6, ParameterSet
    <2> QED BY <2>4, <2>7
  <1>11. CASE left \in {8, 5, 2}
    <2>1. Head(todo) = Ack
      BY <1>2, <1>11
    <2>2. out = <<"FA">>
      BY <1>11 DEF SettingUpMouse
    <2>3. Byte = "FA"
      BY <2>2 DEF Byte
    <2>4. left' = left - 1 /\ param' = param
      BY <2>1, <2>3, AckIsNext
    <2>5. Expected' = Expected
      <3>1. left \in {5, 4, 3} <=> left' \in {5, 4, 3}
        BY <1>11, <2>4
      <3>2. CASE left \in {5, 4, 3}
        BY <1>14, <1>15, <3>1, <3>2, Zenon
      <3>3. CASE left \notin {5, 4, 3}
        BY <1>14, <1>15, <3>1, <3>3, Zenon
      <3> QED BY <3>2, <3>3
    <2> QED BY <1>1, <1>11, <2>4, <2>5, ParameterStays
  <1>12. CASE left \in {7, 4, 1}
    <2>1. Head(todo) = F
      BY <1>2, <1>12
    <2>2. left' = left - 1 /\ param' = param /\ out' = <<>>
      BY <2>1, FlushedIsNext
    <2>3. Expected' = Expected
      <3>1. left \in {5, 4, 3} <=> left' \in {5, 4, 3}
        BY <1>12, <2>2
      <3>2. CASE left \in {5, 4, 3}
        BY <1>14, <1>15, <3>1, <3>2, Zenon
      <3>3. CASE left \notin {5, 4, 3}
        BY <1>14, <1>15, <3>1, <3>3, Zenon
      <3> QED BY <3>2, <3>3
    <2> QED BY <1>1, <1>12, <2>2, <2>3, ParameterStays
  <1> QED BY <1>2, <1>9, <1>10, <1>11, <1>12

LEMMA SettingUpKeyboardGoesOn ==
    ASSUME Ps2Types, SettingUpKeyboard, Parameters, prompt, AnInstruction, pc = "keyboard"
    PROVE  SettingUpKeyboard' /\ Parameters'
  <1>1. /\ pc' = pc /\ device' = device /\ Here' = Here /\ device \in Ports
        /\ plugged' = plugged
    BY HereStays
  <1>2. /\ left \in 1 .. 9
        /\ Head(todo) = <<F, D(device, "F0"), D(device, "00"), Ack, R,
                          F, D(device, "F0"), D(device, "01"), Ack>>[10 - left]
    BY InstructionMoves, InstructionAhead DEF Stretch
  <1>3. Here \in Keyboards /\ Here # "none" /\ Open /\ param[device] = Expected
    BY <1>1 DEF SettingUpKeyboard, Parameters, Keyboards
  <1>4. ASSUME NEW b, Head(todo) = D(device, b)
        PROVE  left' = left - 1 /\ ctrl' = ctrl /\ out' = out \o Answers(device, b)
    BY <1>3, <1>4, HereAnswers
  <1>13. ASSUME NEW b, Head(todo) = D(device, b)
         PROVE  param' = [param EXCEPT ![device] =
                             IF param[device] = "" /\ b \in {"F0", "F3"} THEN b ELSE ""]
    BY <1>3, <1>13, HereAnswers
  <1>5. ctrl' = ctrl
    <2>1. Head(todo) \in {D(device, "F0"), D(device, "00"), D(device, "01"), Ack, R, F}
      BY <1>2
    <2> QED BY <1>4, <2>1, AckIsNext, ReadIsNext, FlushedIsNext
  <1>6. Open'
    BY <1>3, <1>5, OpenStays
  <1>7. SUFFICES /\ left' \in {8, 3} => out' = <<>>
                 /\ left' \in {7, 2} => out' = <<"FA">>
                 /\ left' = 6 => out' = <<"FA", "FA", "02">>
                 /\ left' = 1 => out' = <<"FA", "FA">>
                 /\ Parameters'
    BY <1>1, <1>3, <1>6 DEF SettingUpKeyboard
  <1>14. /\ left \in {7, 2} => Expected = "F0"
         /\ left \notin {7, 2} => Expected = ""
    BY KeyboardExpects
  <1>15. /\ left' \in {7, 2} => Expected' = "F0"
         /\ left' \notin {7, 2} => Expected' = ""
    <2>1. (pc = "keyboard" => /\ left \in {7, 2} => Expected = "F0"
                              /\ left \notin {7, 2} => Expected = "")'
      BY KeyboardExpects, PTL
    <2> QED BY <1>1, <2>1
  <1>8. CASE left \in {9, 4}
    <2>1. Head(todo) = F
      BY <1>2, <1>8
    <2>2. left' = left - 1 /\ param' = param /\ out' = <<>>
      BY <2>1, FlushedIsNext
    <2>3. Expected' = Expected
      <3>1. left \in {7, 2} <=> left' \in {7, 2}
        BY <1>8, <2>2
      <3>2. CASE left \in {7, 2}
        BY <1>14, <1>15, <3>1, <3>2, Zenon
      <3>3. CASE left \notin {7, 2}
        BY <1>14, <1>15, <3>1, <3>3, Zenon
      <3> QED BY <3>2, <3>3
    <2> QED BY <1>1, <1>8, <2>2, <2>3, ParameterStays
  <1>9. CASE left \in {8, 3}
    <2>1. Head(todo) = D(device, "F0")
      BY <1>2, <1>9
    <2>2. param[device] = ""
      <3>1. left \notin {7, 2}
        BY <1>9
      <3>2. Expected = ""
        BY <1>14, <3>1, Zenon
      <3> QED BY <1>3, <3>2, Zenon
    <2>3. Answers(device, "F0") = <<"FA">> /\ out = <<>>
      BY <1>9, <2>2 DEF Answers, SettingUpKeyboard
    <2>4. left' = left - 1 /\ out' = <<"FA">>
      <3>1. left' = left - 1 /\ out' = out \o Answers(device, "F0")
        BY <1>4, <2>1
      <3> QED BY <2>3, <3>1
    <2>5. Expected' = "F0"
      <3>1. left' \in {7, 2}
        BY <1>9, <2>4
      <3> QED BY <1>15, <3>1, Zenon
    <2>6. param' = [param EXCEPT ![device] = "F0"]
      BY <1>13, <2>1, <2>2
    <2>7. Parameters'
      BY <1>1, <2>5, <2>6, ParameterSet
    <2> QED BY <1>9, <2>4, <2>7
  <1>10. CASE left \in {7, 2}
    <2>1. PICK b \in {"00", "01"} : Head(todo) = D(device, b) /\ (b = "00" <=> left = 7)
      BY <1>2, <1>10
    <2>2. param[device] = "F0" /\ out = <<"FA">>
      BY <1>3, <1>10, <1>14 DEF SettingUpKeyboard
    <2>3. /\ left = 7 => Answers(device, b) = <<"FA", "02">>
          /\ left = 2 => Answers(device, b) = <<"FA">>
      <3>1. Answers(device, "00") = <<"FA", "02">>
        BY <2>2 DEF Answers
      <3>2. Answers(device, "01") = <<"FA">>
        BY <2>2 DEF Answers
      <3>3. (left = 7 => b = "00") /\ (left = 2 => b = "01")
        BY <2>1
      <3> QED BY <3>1, <3>2, <3>3, Zenon
    <2>4. left' = left - 1 /\ out' = <<"FA">> \o Answers(device, b)
      BY <1>4, <2>1, <2>2
    <2>5. /\ <<"FA">> \o <<"FA", "02">> = <<"FA", "FA", "02">>
          /\ <<"FA">> \o <<"FA">> = <<"FA", "FA">>
      BY TwoBytes
    <2>6. /\ left = 7 => out' = <<"FA", "FA", "02">>
          /\ left = 2 => out' = <<"FA", "FA">>
      BY <2>3, <2>4, <2>5, Zenon
    <2>7. Expected' = ""
      <3>1. left' \notin {7, 2}
        BY <1>10, <2>4
      <3> QED BY <1>15, <3>1, Zenon
    <2>8. param' = [param EXCEPT ![device] = ""]
      BY <1>13, <2>1, <2>2
    <2>9. Parameters'
      BY <1>1, <2>7, <2>8, ParameterSet
    <2> QED BY <1>10, <2>4, <2>6, <2>9
  <1>11. CASE left \in {6, 1}
    <2>1. Head(todo) = Ack
      BY <1>2, <1>11
    <2>2. Byte = "FA"
      BY <1>11 DEF Byte, SettingUpKeyboard
    <2>3. left' = left - 1 /\ param' = param
      BY <2>1, <2>2, AckIsNext
    <2>4. Expected' = Expected
      <3>1. left \in {7, 2} <=> left' \in {7, 2}
        BY <1>11, <2>3
      <3>2. CASE left \in {7, 2}
        BY <1>14, <1>15, <3>1, <3>2, Zenon
      <3>3. CASE left \notin {7, 2}
        BY <1>14, <1>15, <3>1, <3>3, Zenon
      <3> QED BY <3>2, <3>3
    <2> QED BY <1>1, <1>11, <2>3, <2>4, ParameterStays
  <1>12. CASE left = 5
    <2>1. Head(todo) = R
      BY <1>2, <1>12
    <2>2. left' = 4 /\ param' = param
      BY <1>12, <2>1, ReadIsNext
    <2>3. Expected' = Expected
      <3>1. left \in {7, 2} <=> left' \in {7, 2}
        BY <1>12, <2>2
      <3>2. CASE left \in {7, 2}
        BY <1>14, <1>15, <3>1, <3>2, Zenon
      <3>3. CASE left \notin {7, 2}
        BY <1>14, <1>15, <3>1, <3>3, Zenon
      <3> QED BY <3>2, <3>3
    <2> QED BY <1>1, <2>2, <2>3, ParameterStays
  <1> QED BY <1>2, <1>8, <1>9, <1>10, <1>11, <1>12

LEMMA LookingGoesOn ==
    ASSUME Ps2Types, LookingForSecondPort, AnInstruction, pc = "secondPort"
    PROVE  LookingForSecondPort'
  <1>1. /\ left \in 1 .. 4 /\ pc' = pc /\ device' = device
        /\ Head(todo) = <<C("A8"), F, C("20"), R>>[5 - left]
    BY InstructionMoves, InstructionAhead DEF Stretch
  <1>2. /\ device = 0 /\ Closed(ctrl) /\ ~ctrl.off[0]
        /\ left <= 3 => ~ctrl.off[1]
        /\ left = 2 => out = <<>>
        /\ left = 1 => out = <<"config">>
    BY DEF LookingForSecondPort, Open, Ports
  <1>3. SUFFICES /\ Closed(ctrl') /\ ~ctrl'.off[0]
                 /\ left' <= 3 => ~ctrl'.off[1]
                 /\ left' = 2 => out' = <<>>
                 /\ left' = 1 => out' = <<"config">>
                 /\ left' = 0 => got'[1] = "config"
    BY <1>1, <1>2 DEF LookingForSecondPort, Open, Ports
  <1>4. CASE left = 4
    <2>1. Head(todo) = C("A8")
      BY <1>1, <1>4
    <2> QED BY <1>2, <1>4, <2>1, SwitchIsNext DEF Switched
  <1>5. CASE left = 3
    <2>1. Head(todo) = F
      BY <1>1, <1>5
    <2>2. left' = 2 /\ out' = <<>> /\ ctrl' = ctrl
      BY <1>5, <2>1, FlushedIsNext
    <2> QED BY <1>2, <1>5, <2>2
  <1>6. CASE left = 2
    <2>1. Head(todo) = C("20")
      BY <1>1, <1>6
    <2>2. left' = 1 /\ out' = <<"config">> /\ ctrl' = ctrl
      BY <1>2, <1>6, <2>1, QuestionIsNext
    <2> QED BY <1>2, <1>6, <2>2
  <1>7. CASE left = 1
    <2>1. Head(todo) = R
      BY <1>1, <1>7
    <2>2. got = <<>>
      BY <1>1, <1>7, NothingRead DEF BytesRead
    <2>3. left' = 0 /\ ctrl' = ctrl /\ got' = <<"config">>
      BY <1>2, <1>7, <2>1, <2>2, ReadIsNext DEF Byte
    <2> QED BY <1>2, <1>7, <2>3
  <1> QED BY <1>1, <1>4, <1>5, <1>6, <1>7

\* A device that is switched on sends what it has to say from then on.
LEMMA SwitchedOn ==
    ASSUME Ps2Types, AnInstruction, Parameters, Open, device = 1, pc = "enable", prompt,
           NEW p \in Ports, Head(todo) = D(p, "F4")
    PROVE  /\ left' = left - 1 /\ ctrl' = ctrl
           /\ plugged[p] # "none" => scanning'[p]
           /\ \A q \in Ports : q # p => scanning'[q] = scanning[q]
  <1>1. ~ctrl.off[p] /\ param[p] = ""
    <2>1. Expected = ""
      BY DEF Expected
    <2>2. param[p] = ""
      BY <2>1 DEF Parameters
    <2>3. ~ctrl.off[p]
      BY DEF Open, Ports
    <2> QED BY <2>2, <2>3
  <1>2. left' = left - 1 /\ ctrl' = ctrl
    BY DeviceIsNext
  <1>3. CASE plugged[p] = "none"
    <2>1. scanning' = scanning
      BY <1>3, DeviceIsNext
    <2> QED BY <1>2, <1>3, <2>1
  <1>4. CASE plugged[p] # "none"
    <2>1. /\ \A q \in Ports : q # p => scanning'[q] = scanning[q]
          /\ scanning'[p] = (CASE param[p] = "" /\ "F4" = "F5" -> FALSE
                               [] param[p] = "" /\ "F4" = "FF" -> plugged[p] \in Keyboards
                               [] param[p] = "" /\ "F4" = "F4" -> TRUE
                               [] OTHER -> scanning[p])
      BY <1>1, <1>4, DeviceIsNext
    <2>2. scanning'[p]
      BY <1>1, <2>1
    <2> QED BY <1>2, <2>1, <2>2
  <1> QED BY <1>3, <1>4

LEMMA EnablingGoesOn ==
    ASSUME Ps2Types, Enabling, Parameters, prompt, AnInstruction, pc = "enable"
    PROVE  Enabling'
  <1>1. /\ pc' = pc /\ device' = device /\ plugged' = plugged /\ device = 1 /\ Open
        /\ Ports = {0, 1}
    BY InstructionMoves DEF Enabling, Ports
  <1>2. /\ left \in 1 .. 5
        /\ Head(todo) = <<D(1, "F4"), D(0, "F4"), F, C("20"), R>>[6 - left]
    BY <1>1, InstructionMoves, InstructionAhead DEF Stretch
  <1>3. /\ left <= 4 /\ plugged[1] # "none" => scanning[1]
        /\ left <= 3 /\ plugged[0] # "none" => scanning[0]
        /\ left = 2 => out = <<>>
        /\ left = 1 => out = <<"config">>
    BY DEF Enabling
  <1>4. ASSUME ctrl' = ctrl,
               left' <= 4 /\ plugged[1] # "none" => scanning'[1],
               left' <= 3 /\ plugged[0] # "none" => scanning'[0],
               left' = 2 => out' = <<>>,
               left' = 1 => out' = <<"config">>,
               left' = 0 => got'[1] = "config"
        PROVE  Enabling'
    BY <1>1, <1>4, OpenStays DEF Enabling
  <1>5. CASE left = 5
    <2>1. Head(todo) = D(1, "F4")
      BY <1>2, <1>5
    <2>2. left' = 4 /\ ctrl' = ctrl /\ (plugged[1] # "none" => scanning'[1])
      BY <1>1, <1>5, <2>1, SwitchedOn
    <2> QED BY <1>4, <2>2
  <1>6. CASE left = 4
    <2>1. Head(todo) = D(0, "F4")
      BY <1>2, <1>6
    <2>2. left' = 3 /\ ctrl' = ctrl /\ (plugged[0] # "none" => scanning'[0])
          /\ scanning'[1] = scanning[1]
      BY <1>1, <1>6, <2>1, SwitchedOn
    <2> QED BY <1>3, <1>4, <1>6, <2>2
  <1>7. CASE left = 3
    <2>1. Head(todo) = F
      BY <1>2, <1>7
    <2>2. left' = 2 /\ out' = <<>> /\ ctrl' = ctrl /\ scanning' = scanning
      BY <1>7, <2>1, FlushedIsNext
    <2> QED BY <1>3, <1>4, <1>7, <2>2
  <1>8. CASE left = 2
    <2>1. Head(todo) = C("20")
      BY <1>2, <1>8
    <2>2. left' = 1 /\ out' = <<"config">> /\ ctrl' = ctrl /\ scanning' = scanning
      BY <1>3, <1>8, <2>1, QuestionIsNext
    <2> QED BY <1>3, <1>4, <1>8, <2>2
  <1>9. CASE left = 1
    <2>1. Head(todo) = R
      BY <1>2, <1>9
    <2>2. got = <<>>
      BY <1>9, NothingRead DEF BytesRead
    <2>3. left' = 0 /\ ctrl' = ctrl /\ got' = <<"config">> /\ scanning' = scanning
      BY <1>3, <1>9, <2>1, <2>2, ReadIsNext DEF Byte
    <2> QED BY <1>3, <1>4, <1>9, <2>3
  <1> QED BY <1>2, <1>5, <1>6, <1>7, <1>8, <1>9

LEMMA FinishingGoesOn ==
    ASSUME Ps2Types, Finishing, AnInstruction, pc = "done" PROVE Finishing'
  <1>1. /\ left \in 1 .. 3 /\ pc' = pc /\ config' = config /\ plugged' = plugged
        /\ Head(todo) = <<C("60"), <<"config", config>>, F>>[4 - left]
    BY InstructionMoves, InstructionAhead DEF Stretch
  <1>2. SUFFICES (left' <= 1 => ctrl' = config) /\ scanning' = scanning
    BY <1>1 DEF Finishing
  <1>3. CASE left = 3
    <2>1. Head(todo) = C("60")
      BY <1>1, <1>3
    <2> QED BY <1>3, <2>1, SwitchIsNext
  <1>4. CASE left = 2
    <2>1. Head(todo) = <<"config", config>>
      BY <1>1, <1>4
    <2> QED BY <1>4, <2>1, ConfigurationIsNext
  <1>5. CASE left = 1
    <2>1. Head(todo) = F
      BY <1>1, <1>5
    <2>2. ctrl = config
      BY <1>5 DEF Finishing
    <2> QED BY <2>1, <2>2, FlushedIsNext
  <1> QED BY <1>1, <1>3, <1>4, <1>5

LEMMA NoParameterByte ==
    ASSUME Ps2Types, todo # <<>>, pc \notin {"mouse", "keyboard"}, Head(todo)[1] = "device"
    PROVE  Head(todo)[2] \in Ports /\ Head(todo)[3] \notin {"F0", "F3"}
  <1>1. /\ left \in Nat /\ left >= 1 /\ left <= Len(Stretch(pc, device, config))
        /\ Head(todo) = Stretch(pc, device, config)[Len(Stretch(pc, device, config)) - left + 1]
    BY InstructionAhead
  <1>2. pc \in Labels /\ device \in Ports /\ Ports = {0, 1}
    BY DEF Ps2Types, Ports
  <1>3. Head(todo)[2] \in Ports
    BY Program
  <1>4. pc \in {"identify", "enable", "reset"}
    BY Program
  <1>5. CASE pc = "identify"
    BY <1>1, <1>2, <1>3, <1>5 DEF Stretch, C, D, F, R, Ack
  <1>6. CASE pc = "reset"
    BY <1>3, <1>4, <1>6, Program
  <1>7. CASE pc = "enable"
    <2>1. CASE device = 0
      BY <1>1, <1>2, <1>3, <1>7, <2>1 DEF Stretch, C, D, F, R, Ack
    <2>2. CASE device = 1
      BY <1>1, <1>2, <1>3, <1>7, <2>2 DEF Stretch, C, D, F, R, Ack
    <2> QED BY <1>2, <2>1, <2>2
  <1> QED BY <1>4, <1>5, <1>6, <1>7

\* Elsewhere no device waits for a parameter, and none is told to.
LEMMA NoParameter ==
    ASSUME Ps2Types, Parameters, prompt, AnInstruction, pc \notin {"mouse", "keyboard"}
    PROVE  Parameters'
  <1>1. pc' = pc /\ device' = device /\ todo # <<>> /\ Head(todo) \in Instructions
    BY InstructionMoves, InstructionAhead
  <1>2. Expected = "" /\ Expected' = ""
    BY <1>1 DEF Expected
  <1>3. \A p \in Ports : param[p] = ""
    BY <1>2 DEF Parameters
  <1>4. CASE writeDevice
    <2>1. PICK p, b : p = Head(todo)[2] /\ b = Head(todo)[3]
      OBVIOUS
    <2>2. Head(todo)[1] = "device"
      BY <1>4 DEF writeDevice, Instruction
    <2>3. Receive(p, b) /\ p \in Ports /\ b \notin {"F0", "F3"}
      BY <1>1, <1>4, <2>1, <2>2, NoParameterByte DEF writeDevice
    <2>4. param' = param \/ param' = [param EXCEPT ![p] = ""]
      BY <1>3, <2>3 DEF Receive
    <2>5. param \in [Ports -> {"", "F0", "F3"}]
      BY DEF Ps2Types
    <2>6. \A q \in Ports : param'[q] = ""
      BY <1>3, <2>3, <2>4, <2>5
    <2> QED BY <1>2, <2>6 DEF Parameters
  <1>5. CASE ~writeDevice
    <2>1. param' = param
      BY <1>5 DEF AnInstruction, writeController, writeConfigurationByte, flushOutputBuffer,
                  read, WaitForAck, Command
    <2> QED BY <1>1, <1>2, <2>1, ParameterStays
  <1> QED BY <1>4, <1>5

LEMMA WiresUntouched ==
    ASSUME Ps2Types, prompt, AnInstruction PROVE owed' = owed
  BY DEF AnInstruction, writeController, writeDevice, writeConfigurationByte, flushOutputBuffer,
         read, WaitForAck, Command, Receive

LEMMA InstructionCalm ==
    ASSUME Ps2Types, Calm, prompt, AnInstruction PROVE Calm'
  <1>1. UNCHANGED <<plugged, pc, device, config, registered>>
    BY InstructionMoves
  <1>2. /\ \A p \in Ports : owed[p] = <<>>
        /\ pc \notin {"configure", "selfTest", "failed", "secondPort", "enable", "done"}
                /\ device = 0 => config.off[1]
        /\ Parameters /\ Registering
    BY DEF Calm
  <1>3. Configuring'
    <2>1. CASE pc = "configure"
      BY <2>1, ConfiguringGoesOn DEF Calm
    <2> QED BY <1>1, <2>1 DEF Configuring
  <1>4. SelfTesting'
    <2>1. CASE pc = "selfTest"
      BY <2>1, SelfTestingGoesOn DEF Calm
    <2> QED BY <1>1, <2>1 DEF SelfTesting
  <1>5. TestingPort'
    <2>1. CASE pc = "testPort"
      BY <2>1, TestingPortGoesOn DEF Calm
    <2> QED BY <1>1, <2>1 DEF TestingPort
  <1>6. Resetting'
    <2>1. CASE pc = "reset"
      BY <1>2, <2>1, ResettingGoesOn DEF Calm
    <2> QED BY <1>1, <2>1 DEF Resetting
  <1>7. IdentifyingDevice'
    <2>1. CASE pc = "identify"
      BY <1>2, <2>1, IdentifyingGoesOn DEF Calm
    <2> QED BY <1>1, <2>1 DEF IdentifyingDevice
  <1>8. IdentifyingKeyboard'
    <2>1. CASE pc = "identifyKeyboard"
      BY <2>1, IdentifyingKeyboardGoesOn DEF Calm
    <2> QED BY <1>1, <2>1 DEF IdentifyingKeyboard
  <1>9. SettingUpMouse'
    <2>1. CASE pc = "mouse"
      BY <1>2, <2>1, SettingUpMouseGoesOn DEF Calm
    <2> QED BY <1>1, <2>1 DEF SettingUpMouse
  <1>10. SettingUpKeyboard'
    <2>1. CASE pc = "keyboard"
      BY <1>2, <2>1, SettingUpKeyboardGoesOn DEF Calm
    <2> QED BY <1>1, <2>1 DEF SettingUpKeyboard
  <1>11. LookingForSecondPort'
    <2>1. CASE pc = "secondPort"
      BY <2>1, LookingGoesOn DEF Calm
    <2> QED BY <1>1, <2>1 DEF LookingForSecondPort
  <1>12. Enabling'
    <2>1. CASE pc = "enable"
      BY <1>2, <2>1, EnablingGoesOn DEF Calm
    <2> QED BY <1>1, <2>1 DEF Enabling
  <1>13. Finishing'
    <2>1. CASE pc = "done"
      BY <2>1, FinishingGoesOn DEF Calm
    <2> QED BY <1>1, <2>1 DEF Finishing
  <1>14. Parameters'
    <2>1. CASE pc = "mouse"
      BY <1>2, <2>1, SettingUpMouseGoesOn DEF Calm
    <2>2. CASE pc = "keyboard"
      BY <1>2, <2>2, SettingUpKeyboardGoesOn DEF Calm
    <2>3. CASE pc \notin {"mouse", "keyboard"}
      BY <1>2, <2>3, NoParameter
    <2> QED BY <2>1, <2>2, <2>3
  <1>15. Registering'
    BY <1>1, <1>2 DEF Registering, RegisteredBefore, Registration
  <1>16. \A p \in Ports : owed'[p] = <<>>
    BY <1>2, WiresUntouched
  <1>17. pc' \notin {"configure", "selfTest", "failed", "secondPort", "enable", "done"}
             /\ device' = 0 => config'.off[1]
    BY <1>1, <1>2
  <1> QED BY <1>3, <1>4, <1>5, <1>6, <1>7, <1>8, <1>9, <1>10, <1>11, <1>12, <1>13, <1>14,
             <1>15, <1>16, <1>17 DEF Calm

\* The branches of an undisturbed start-up.

LEMMA LeaveCalm ==
    ASSUME Ps2Types, Leave, UNCHANGED <<device, config>>, device = 0 => config.off[1]
    PROVE  /\ device = 0 => pc' = "secondPort" /\ left' = 4
           /\ device = 1 => pc' = "enable" /\ left' = 5
  <1>1. /\ got' = <<>> /\ todo' = Stretch(pc', device', config')
        /\ pc' = IF device = 0 /\ config.off[1] THEN "secondPort" ELSE "enable"
    BY LeaveBegins
  <1>2. CASE device = 0
    BY <1>1, <1>2 DEF Stretch, left
  <1>3. CASE device = 1
    BY <1>1, <1>3 DEF Stretch, left
  <1> QED BY <1>2, <1>3

\* initDevice returns, once the device is registered for what it is.
LEMMA LeavingCalm ==
    ASSUME Ps2Types, Calm, Parameters', Leave, UNCHANGED <<device, config>>, UNCHANGED hardware,
           pc \notin {"configure", "selfTest", "failed", "secondPort", "enable", "done"},
           Open, RegisteredBefore(device + 1)'
    PROVE  Calm'
  <1>1. /\ device \in {0, 1} /\ (device = 0 => config.off[1])
        /\ \A p \in Ports : owed[p] = <<>>
    BY DEF Calm, Ps2Types, Ports
  <1>2. /\ device = 0 => pc' = "secondPort" /\ left' = 4
        /\ device = 1 => pc' = "enable" /\ left' = 5
    BY <1>1, LeaveCalm
  <1>3. \A p \in Ports : owed'[p] = <<>>
    BY <1>1 DEF hardware
  <1>4. Open'
    BY DEF Open, hardware
  <1>5. pc' \in {"secondPort", "enable"}
    BY <1>1, <1>2
  <1>6. LookingForSecondPort'
    BY <1>1, <1>2, <1>4 DEF LookingForSecondPort
  <1>7. Enabling'
    BY <1>1, <1>2, <1>4 DEF Enabling
  <1>8. Registering'
    <2>1. CASE device = 0
      BY <1>2, <2>1 DEF Registering
    <2>2. CASE device = 1
      BY <1>2, <2>2 DEF Registering
    <2> QED BY <1>1, <2>1, <2>2
  <1>9. /\ Configuring' /\ SelfTesting' /\ TestingPort' /\ Resetting' /\ IdentifyingDevice'
        /\ IdentifyingKeyboard' /\ SettingUpMouse' /\ SettingUpKeyboard' /\ Finishing'
    BY <1>5 DEF Configuring, SelfTesting, TestingPort, Resetting, IdentifyingDevice,
                IdentifyingKeyboard, SettingUpMouse, SettingUpKeyboard, Finishing
  <1> QED BY <1>3, <1>5, <1>6, <1>7, <1>8, <1>9 DEF Calm

LEMMA BranchParameters ==
    ASSUME Ps2Types, Parameters, Branch PROVE Parameters'
  <1>1. /\ left = 0 /\ param' = param /\ pc' \in Labels
        /\ todo' = Stretch(pc', device', config')
    BY BranchBegins DEF Begins, hardware
  <1>2. Expected = ""
    BY <1>1 DEF Expected
  <1>3. pc' \in {"mouse", "keyboard"} => left' = 9
    BY <1>1 DEF Stretch, left
  <1>4. Expected' = ""
    BY <1>3 DEF Expected
  <1>5. \A p \in Ports : param[p] = ""
    BY <1>2 DEF Parameters
  <1> QED BY <1>1, <1>4, <1>5 DEF Parameters

LEMMA ConfigureCalm ==
    ASSUME Ps2Types, Calm, Parameters', configure, UNCHANGED hardware, left = 0 PROVE Calm'
  <1>1. /\ pc = "configure" /\ device = 0 /\ ctrl.off[0] /\ ctrl.off[1] /\ got = <<"config">>
        /\ RegisteredBefore(0) /\ \A p \in Ports : owed[p] = <<>>
    BY DEF configure, Calm, Configuring, Registering
  <1>2. /\ todo' = Stretch(pc', device', config') /\ pc' = "selfTest"
        /\ UNCHANGED <<device, registered>>
        /\ config' = [Bits(got[1]) EXCEPT !.irq1 = FALSE, !.irq12 = FALSE, !.translation = FALSE]
    BY ConfigureGoes DEF Begins
  <1>3. got[1] = "config"
    BY <1>1
  <1>4. Bits(got[1]) = ctrl /\ ctrl \in Configurations
    BY <1>3 DEF Bits, Ps2Types
  <1>5. Closed(config') /\ config'.off[0] /\ config'.off[1]
    BY <1>1, <1>2, <1>4 DEF Configurations, Closed
  <1>6. left' = 8
    BY <1>2 DEF Stretch, left
  <1>7. SelfTesting'
    BY <1>1, <1>2, <1>5, <1>6 DEF SelfTesting
  <1>8. Registering'
    BY <1>1, <1>2 DEF Registering, RegisteredBefore, Registration, hardware
  <1>9. \A p \in Ports : owed'[p] = <<>>
    BY <1>1 DEF hardware
  <1>10. /\ Configuring' /\ TestingPort' /\ Resetting' /\ IdentifyingDevice' /\ Enabling'
         /\ IdentifyingKeyboard' /\ SettingUpMouse' /\ SettingUpKeyboard' /\ Finishing'
         /\ LookingForSecondPort'
    BY <1>2 DEF Configuring, TestingPort, Resetting, IdentifyingDevice, Enabling,
                IdentifyingKeyboard, SettingUpMouse, SettingUpKeyboard, Finishing,
                LookingForSecondPort
  <1> QED BY <1>2, <1>7, <1>8, <1>9, <1>10 DEF Calm

LEMMA SelfTestCalm ==
    ASSUME Ps2Types, Calm, Parameters', selfTest, UNCHANGED hardware, left = 0 PROVE Calm'
  <1>1. /\ pc = "selfTest" /\ device = 0 /\ Closed(config) /\ config.off[1] /\ ctrl = config
        /\ got[1] = "config" /\ RegisteredBefore(0) /\ \A p \in Ports : owed[p] = <<>>
    BY DEF selfTest, Calm, SelfTesting, Registering
  <1>2. /\ todo' = Stretch(pc', device', config') /\ UNCHANGED registered
        /\ config' = Bits(got[1])
        /\ \/ pc' = "failed" /\ UNCHANGED device
           \/ pc' = "testPort" /\ device' = 0
    BY SelfTestGoes DEF Begins
  <1>3. config' = ctrl /\ ctrl' = ctrl /\ device' = 0
    BY <1>1, <1>2 DEF Bits, hardware
  <1>4. pc' = "testPort" => left' = 3
    BY <1>2, <1>3 DEF Stretch, left
  <1>5. TestingPort'
    BY <1>1, <1>3, <1>4 DEF TestingPort, Ports
  <1>6. RegisteredBefore(0)'
    BY <1>1, <1>2 DEF RegisteredBefore, Registration, hardware
  <1>7. Registering'
    BY <1>2, <1>3, <1>6 DEF Registering
  <1>8. \A p \in Ports : owed'[p] = <<>>
    BY <1>1 DEF hardware
  <1>9. /\ Configuring' /\ SelfTesting' /\ Resetting' /\ IdentifyingDevice' /\ Enabling'
        /\ IdentifyingKeyboard' /\ SettingUpMouse' /\ SettingUpKeyboard' /\ Finishing'
        /\ LookingForSecondPort'
    BY <1>2 DEF Configuring, SelfTesting, Resetting, IdentifyingDevice, Enabling,
                IdentifyingKeyboard, SettingUpMouse, SettingUpKeyboard, Finishing,
                LookingForSecondPort
  <1> QED BY <1>1, <1>3, <1>5, <1>7, <1>8, <1>9 DEF Calm

LEMMA TestPortCalm ==
    ASSUME Ps2Types, Calm, Parameters', testPort, UNCHANGED hardware, left = 0 PROVE Calm'
  <1>1. /\ pc = "testPort" /\ got = <<"00">>
        /\ Closed(ctrl) /\ \A p \in Ports : p < device => ~ctrl.off[p]
        /\ RegisteredBefore(device) /\ \A p \in Ports : owed[p] = <<>>
        /\ device = 0 => config.off[1]
    BY DEF testPort, Calm, TestingPort, Registering
  <1>2. /\ todo' = Stretch(pc', device', config') /\ UNCHANGED <<device, config, registered>>
        /\ pc' = "reset"
    BY <1>1, TestPortGoes DEF Begins
  <1>3. left' = 5
    BY <1>2 DEF Stretch, left
  <1>4. Resetting'
    BY <1>1, <1>2, <1>3 DEF Resetting, hardware
  <1>5. Registering'
    BY <1>1, <1>2 DEF Registering, RegisteredBefore, Registration, hardware
  <1>6. \A p \in Ports : owed'[p] = <<>>
    BY <1>1 DEF hardware
  <1>7. /\ Configuring' /\ SelfTesting' /\ TestingPort' /\ IdentifyingDevice' /\ Enabling'
        /\ IdentifyingKeyboard' /\ SettingUpMouse' /\ SettingUpKeyboard' /\ Finishing'
        /\ LookingForSecondPort'
    BY <1>2 DEF Configuring, SelfTesting, TestingPort, IdentifyingDevice, Enabling,
                IdentifyingKeyboard, SettingUpMouse, SettingUpKeyboard, Finishing,
                LookingForSecondPort
  <1> QED BY <1>1, <1>2, <1>4, <1>5, <1>6, <1>7 DEF Calm

LEMMA RegisteredNext ==
    ASSUME Ps2Types, RegisteredBefore(device), UNCHANGED plugged,
           UNCHANGED device, registered' = [registered EXCEPT ![device] = Registration(device)]
    PROVE  RegisteredBefore(device + 1)'
  <1>1. registered \in [Ports -> {"none", "mouse", "keyboard"}] /\ device \in Ports
    BY DEF Ps2Types
  <1>2. \A p \in Ports : Registration(p)' = Registration(p)
    BY DEF Registration
  <1>3. PICK r : r = Registration(device)
    OBVIOUS
  <1>4. registered' = [registered EXCEPT ![device] = r]
    BY <1>3
  <1>5. ASSUME NEW p \in Ports
        PROVE  registered'[p] = IF p < device + 1 THEN Registration(p)' ELSE "none"
    <2>1. registered[p] = IF p < device THEN Registration(p) ELSE "none"
      BY DEF RegisteredBefore
    <2>2. CASE p = device
      <3>1. registered'[p] = r
        BY <1>1, <1>4, <2>2
      <3>2. r = Registration(p)'
        BY <1>2, <1>3, <2>2
      <3> QED BY <1>1, <2>2, <3>1, <3>2 DEF Ports
    <2>3. CASE p # device
      <3>1. registered'[p] = registered[p]
        BY <1>1, <1>4, <2>3
      <3>2. p < device + 1 <=> p < device
        BY <1>1, <2>3 DEF Ports
      <3>3. CASE p < device
        BY <1>2, <2>1, <3>1, <3>2, <3>3
      <3>4. CASE ~(p < device)
        BY <2>1, <3>1, <3>2, <3>4
      <3> QED BY <3>3, <3>4
    <2> QED BY <2>2, <2>3
  <1> QED BY <1>5 DEF RegisteredBefore

LEMMA NothingRegistered ==
    ASSUME Ps2Types, RegisteredBefore(device), UNCHANGED <<plugged, device, registered>>,
           Registration(device) = "none"
    PROVE  RegisteredBefore(device + 1)'
  <1>1. registered \in [Ports -> {"none", "mouse", "keyboard"}] /\ device \in {0, 1}
    BY DEF Ps2Types, Ports
  <1>2. registered[device] = "none"
    BY <1>1 DEF RegisteredBefore, Ports
  <1>3. PICK r : r = Registration(device)
    OBVIOUS
  <1>4. registered' = [registered EXCEPT ![device] = r]
    BY <1>1, <1>2, <1>3
  <1> QED BY <1>3, <1>4, RegisteredNext

LEMMA ResetCalm ==
    ASSUME Ps2Types, Calm, Parameters', reset, UNCHANGED hardware, left = 0 PROVE Calm'
  <1>1. /\ pc = "reset" /\ device \in {0, 1} /\ Ports = {0, 1}
        /\ Closed(ctrl) /\ \A p \in Ports : p < device \/ p = device => ~ctrl.off[p]
        /\ Here = "none" => got # <<"FA", "AA">>
        /\ Here # "none" => got = <<"FA", "AA">> /\ out = IF Here \in Mice THEN <<"00">> ELSE <<>>
    <2>1. pc = "reset" /\ device \in {0, 1} /\ Ports = {0, 1}
      BY DEF reset, Ps2Types, Ports
    <2>2. Resetting
      BY DEF Calm
    <2>3. Closed(ctrl) /\ \A p \in Ports : p < device \/ p = device => ~ctrl.off[p]
      BY <2>1, <2>2 DEF Resetting
    <2>4. Here = "none" => got # <<"FA", "AA">>
      BY <2>1, <2>2 DEF Resetting
    <2>5. Here # "none" => got = <<"FA", "AA">>
      BY <2>1, <2>2 DEF Resetting
    <2>6. Here # "none" => out = IF Here \in Mice THEN <<"00">> ELSE <<>>
      BY <2>1, <2>2 DEF Resetting
    <2> QED BY <2>1, <2>3, <2>4, <2>5, <2>6
  <1>2. /\ RegisteredBefore(device) /\ \A p \in Ports : owed[p] = <<>>
        /\ device = 0 => config.off[1]
    BY <1>1 DEF Calm, Registering
  <1>3. /\ todo' = Stretch(pc', device', config') /\ UNCHANGED <<device, config, registered>>
        /\ \/ got # <<"FA", "AA">> /\ Leave
           \/ got = <<"FA", "AA">> /\ pc' = "identify"
    BY ResetGoes DEF Begins
  <1>4. Open
    BY <1>1 DEF Open
  <1>5. CASE Here = "none"
    <2>1. Registration(device) = "none"
      BY <1>5 DEF Registration, Here, Mice, Keyboards
    <2>2. RegisteredBefore(device + 1)'
      BY <1>1, <1>2, <1>3, <2>1, NothingRegistered DEF hardware
    <2> QED BY <1>1, <1>3, <1>4, <1>5, <2>2, LeavingCalm
  <1>6. CASE Here # "none"
    <2>1. pc' = "identify"
      BY <1>1, <1>3, <1>6
    <2>2. left' = 5
      BY <1>3, <2>1 DEF Stretch, left
    <2>3. /\ UNCHANGED <<plugged, out, owed, ctrl>> /\ Here' = Here /\ Open'
      BY <1>3, <1>4 DEF hardware, Here, Open
    <2>4. IdentifyingDevice'
      BY <1>1, <1>6, <2>2, <2>3 DEF IdentifyingDevice, MouseIdentified, Mf2Identified,
                                     AtIdentified, Mice
    <2>5. Registering'
      BY <1>2, <1>3, <2>1, <2>3 DEF Registering, RegisteredBefore, Registration
    <2>6. \A p \in Ports : owed'[p] = <<>>
      BY <1>2, <2>3
    <2>7. /\ Configuring' /\ SelfTesting' /\ TestingPort' /\ Resetting' /\ Enabling'
          /\ IdentifyingKeyboard' /\ SettingUpMouse' /\ SettingUpKeyboard' /\ Finishing'
          /\ LookingForSecondPort'
      BY <2>1 DEF Configuring, SelfTesting, TestingPort, Resetting, Enabling,
                  IdentifyingKeyboard, SettingUpMouse, SettingUpKeyboard, Finishing,
                  LookingForSecondPort
    <2> QED BY <1>2, <1>3, <2>1, <2>4, <2>5, <2>6, <2>7 DEF Calm
  <1> QED BY <1>5, <1>6

LEMMA HereIsKind ==
    ASSUME Ps2Types PROVE Here \in Kinds
  BY DEF Ps2Types, Here

LEMMA IdentifyCalm ==
    ASSUME Ps2Types, Calm, Parameters', identify, UNCHANGED hardware, left = 0 PROVE Calm'
  <1>1. pc = "identify" /\ IdentifyingDevice /\ Registering
    BY DEF identify, Calm
  <1>2. /\ Here # "none" /\ Open
        /\ Here = "mouse" => got[1] = "00" /\ out = <<>>
        /\ Here = "mf2" => got[1] = "AB" /\ out = <<"83">>
        /\ Here = "at" => got[1] = Timeout
    BY <1>1 DEF IdentifyingDevice, MouseIdentified, Mf2Identified, AtIdentified
  <1>3. Here \in {"mouse", "mf2", "at"}
    BY <1>2, HereIsKind DEF Kinds, Mice, Keyboards
  <1>4. /\ RegisteredBefore(device) /\ \A p \in Ports : owed[p] = <<>>
        /\ device = 0 => config.off[1]
    BY <1>1 DEF Calm, Registering
  <1>5. /\ todo' = Stretch(pc', device', config') /\ UNCHANGED <<device, config, registered>>
        /\ \/ got[1] = Timeout /\ pc' = "keyboard"
           \/ got[1] = "00" /\ pc' = "mouse"
           \/ got[1] = "AB" /\ pc' = "identifyKeyboard"
           \/ got[1] \notin {Timeout, "00", "AB"} /\ Leave
    BY IdentifyGoes DEF Begins
  <1>6. /\ UNCHANGED <<plugged, out, owed, ctrl>> /\ Here' = Here /\ Open'
    BY <1>2, <1>5 DEF hardware, Here, Open
  <1>7. RegisteredBefore(device)'
    BY <1>4, <1>5, <1>6 DEF RegisteredBefore, Registration
  <1>8. \/ Here = "at" /\ pc' = "keyboard"
        \/ Here = "mouse" /\ pc' = "mouse"
        \/ Here = "mf2" /\ pc' = "identifyKeyboard"
    BY <1>2, <1>3, <1>5 DEF Timeout
  <1>9. /\ pc' \in {"mouse", "keyboard"} => left' = 9
        /\ pc' = "identifyKeyboard" => left' = 1
    BY <1>5, <1>8 DEF Stretch, left
  <1>10. SettingUpMouse'
    BY <1>2, <1>6, <1>8, <1>9 DEF SettingUpMouse, Mice
  <1>11. SettingUpKeyboard'
    BY <1>6, <1>8, <1>9 DEF SettingUpKeyboard, Keyboards
  <1>12. IdentifyingKeyboard'
    BY <1>2, <1>6, <1>8, <1>9 DEF IdentifyingKeyboard
  <1>13. Registering'
    BY <1>7, <1>8 DEF Registering
  <1>14. \A p \in Ports : owed'[p] = <<>>
    BY <1>4, <1>6
  <1>15. /\ Configuring' /\ SelfTesting' /\ TestingPort' /\ Resetting' /\ Enabling'
         /\ IdentifyingDevice' /\ Finishing' /\ LookingForSecondPort'
    BY <1>8 DEF Configuring, SelfTesting, TestingPort, Resetting, Enabling, IdentifyingDevice,
                Finishing, LookingForSecondPort
  <1> QED BY <1>4, <1>5, <1>8, <1>10, <1>11, <1>12, <1>13, <1>14, <1>15 DEF Calm

LEMMA IdentifyKeyboardCalm ==
    ASSUME Ps2Types, Calm, Parameters', identifyKeyboard, UNCHANGED hardware, left = 0
    PROVE  Calm'
  <1>1. pc = "identifyKeyboard" /\ IdentifyingKeyboard /\ Registering
    BY DEF identifyKeyboard, Calm
  <1>2. Here = "mf2" /\ Open /\ got[1] = "83"
    BY <1>1 DEF IdentifyingKeyboard
  <1>3. /\ RegisteredBefore(device) /\ \A p \in Ports : owed[p] = <<>>
        /\ device = 0 => config.off[1]
    BY <1>1 DEF Calm, Registering
  <1>4. /\ todo' = Stretch(pc', device', config') /\ UNCHANGED <<device, config, registered>>
        /\ pc' = "keyboard"
    BY <1>2, IdentifyKeyboardGoes DEF Begins
  <1>5. /\ UNCHANGED <<plugged, owed>> /\ Here' = Here /\ Open'
    BY <1>2, <1>4 DEF hardware, Here, Open
  <1>6. left' = 9
    BY <1>4 DEF Stretch, left
  <1>7. SettingUpKeyboard'
    BY <1>2, <1>5, <1>6 DEF SettingUpKeyboard, Keyboards
  <1>8. Registering'
    BY <1>3, <1>4, <1>5 DEF Registering, RegisteredBefore, Registration
  <1>9. \A p \in Ports : owed'[p] = <<>>
    BY <1>3, <1>5
  <1>10. /\ Configuring' /\ SelfTesting' /\ TestingPort' /\ Resetting' /\ Enabling'
         /\ IdentifyingDevice' /\ Finishing' /\ LookingForSecondPort' /\ SettingUpMouse'
         /\ IdentifyingKeyboard'
    BY <1>4 DEF Configuring, SelfTesting, TestingPort, Resetting, Enabling, IdentifyingDevice,
                Finishing, LookingForSecondPort, SettingUpMouse, IdentifyingKeyboard
  <1> QED BY <1>3, <1>4, <1>7, <1>8, <1>9, <1>10 DEF Calm

\* The device is registered for what it is.
LEMMA RegisterCalm ==
    ASSUME Ps2Types, Calm, Parameters', register, UNCHANGED hardware, left = 0 PROVE Calm'
  <1>1. /\ UNCHANGED <<device, config>> /\ Leave
        /\ registered' = [registered EXCEPT ![device] = pc] /\ pc \in {"mouse", "keyboard"}
    BY RegisterGoes
  <1>2. SettingUpMouse /\ SettingUpKeyboard /\ Registering
    BY DEF Calm
  <1>3. /\ Open /\ RegisteredBefore(device)
        /\ pc = "mouse" => Here \in Mice
        /\ pc = "keyboard" => Here \in Keyboards
    BY <1>1, <1>2 DEF SettingUpMouse, SettingUpKeyboard, Registering
  <1>4. Registration(device) = pc
    BY <1>1, <1>3 DEF Registration, Here, Mice, Keyboards
  <1>5. RegisteredBefore(device + 1)'
    BY <1>1, <1>3, <1>4, RegisteredNext DEF hardware
  <1> QED BY <1>1, <1>3, <1>5, LeavingCalm

LEMMA SecondPortCalm ==
    ASSUME Ps2Types, Calm, Parameters', secondPort, UNCHANGED hardware, left = 0 PROVE Calm'
  <1>1. /\ pc = "secondPort" /\ LookingForSecondPort /\ Registering
        /\ \A p \in Ports : owed[p] = <<>>
    BY DEF secondPort, Calm
  <1>2. /\ device = 0 /\ Open /\ ~ctrl.off[1] /\ got[1] = "config" /\ RegisteredBefore(1)
    BY <1>1 DEF LookingForSecondPort, Registering
  <1>3. Closed(ctrl) /\ ~ctrl.off[0]
    BY <1>2 DEF Open, Ports
  <1>4. /\ todo' = Stretch(pc', device', config') /\ UNCHANGED registered /\ config' = Bits(got[1])
        /\ \/ pc' = "enable" /\ UNCHANGED device /\ config'.off[1]
           \/ pc' = "testPort" /\ device' = 1 /\ ~config'.off[1]
    BY SecondPortGoes DEF Begins
  <1>5. config' = ctrl /\ pc' = "testPort" /\ device' = 1
    BY <1>2, <1>4 DEF Bits
  <1>6. left' = 4
    BY <1>4, <1>5 DEF Stretch, left
  <1>7. UNCHANGED <<plugged, owed, ctrl>>
    BY DEF hardware
  <1>8. TestingPort'
    BY <1>3, <1>5, <1>6, <1>7 DEF TestingPort, Ports
  <1>9. RegisteredBefore(1)'
    BY <1>2, <1>4, <1>7 DEF RegisteredBefore, Registration
  <1>10. Registering'
    BY <1>5, <1>9 DEF Registering
  <1>11. \A p \in Ports : owed'[p] = <<>>
    BY <1>1, <1>7
  <1>12. /\ Configuring' /\ SelfTesting' /\ Resetting' /\ IdentifyingDevice' /\ Enabling'
         /\ IdentifyingKeyboard' /\ SettingUpMouse' /\ SettingUpKeyboard' /\ Finishing'
         /\ LookingForSecondPort'
    BY <1>5 DEF Configuring, SelfTesting, Resetting, IdentifyingDevice, Enabling,
                IdentifyingKeyboard, SettingUpMouse, SettingUpKeyboard, Finishing,
                LookingForSecondPort
  <1> QED BY <1>5, <1>8, <1>10, <1>11, <1>12 DEF Calm

LEMMA EnableCalm ==
    ASSUME Ps2Types, Calm, Parameters', enable, UNCHANGED hardware, left = 0 PROVE Calm'
  <1>1. pc = "enable" /\ Enabling /\ Registering /\ \A p \in Ports : owed[p] = <<>>
    BY DEF enable, Calm
  <1>2. /\ device = 1 /\ Open /\ got[1] = "config" /\ RegisteredBefore(2)
        /\ plugged[1] # "none" => scanning[1]
        /\ plugged[0] # "none" => scanning[0]
    BY <1>1 DEF Enabling, Registering
  <1>3. Closed(ctrl) /\ ~ctrl.off[0] /\ ~ctrl.off[1]
    BY <1>2 DEF Open, Ports
  <1>4. /\ todo' = Stretch(pc', device', config') /\ UNCHANGED <<device, registered>>
        /\ pc' = "done" /\ config' = [Bits(got[1]) EXCEPT !.irq1 = TRUE, !.irq12 = TRUE]
    BY EnableGoes DEF Begins
  <1>5. Bits(got[1]) = ctrl /\ ctrl \in Configurations
    BY <1>2 DEF Bits, Ps2Types
  <1>6. config' = [ctrl EXCEPT !.irq1 = TRUE, !.irq12 = TRUE]
    BY <1>4, <1>5
  <1>7. /\ config'.irq1 /\ config'.irq12 /\ config'.translation = ctrl.translation
        /\ config'.off = ctrl.off
    BY <1>5, <1>6 DEF Configurations
  <1>8. left' = 3
    BY <1>4 DEF Stretch, left
  <1>9. UNCHANGED <<plugged, owed, scanning>>
    BY DEF hardware
  <1>10. Finishing'
    BY <1>2, <1>3, <1>7, <1>8, <1>9 DEF Finishing, Closed, Ports
  <1>11. Registering'
    BY <1>2, <1>4, <1>9 DEF Registering, RegisteredBefore, Registration
  <1>12. \A p \in Ports : owed'[p] = <<>>
    BY <1>1, <1>9
  <1>13. /\ Configuring' /\ SelfTesting' /\ Resetting' /\ IdentifyingDevice' /\ Enabling'
         /\ IdentifyingKeyboard' /\ SettingUpMouse' /\ SettingUpKeyboard' /\ TestingPort'
         /\ LookingForSecondPort'
    BY <1>4 DEF Configuring, SelfTesting, Resetting, IdentifyingDevice, Enabling,
                IdentifyingKeyboard, SettingUpMouse, SettingUpKeyboard, TestingPort,
                LookingForSecondPort
  <1> QED BY <1>4, <1>10, <1>11, <1>12, <1>13 DEF Calm

LEMMA BranchCalm ==
    ASSUME Ps2Types, Calm, Branch PROVE Calm'
  <1>1. UNCHANGED hardware /\ left = 0
    BY BranchBegins
  <1>2. Parameters'
    BY BranchParameters DEF Calm
  <1> QED BY <1>1, <1>2, ConfigureCalm, SelfTestCalm, TestPortCalm, ResetCalm, IdentifyCalm,
             IdentifyKeyboardCalm, RegisterCalm, SecondPortCalm, EnableCalm DEF Branch

LEMMA CalmAtStart ==
    ASSUME Ps2Assumption, Ps2Init PROVE Calm
  <1>1. /\ todo = Stretch("configure", 0, config) /\ pc = "configure" /\ device = 0
        /\ out = <<>> /\ \A p \in Ports : owed[p] = <<>> /\ param[p] = "" /\ registered[p] = "none"
    BY StretchesJoined DEF Ps2Init, Stretch
  <1>2. left = 6
    BY <1>1 DEF Stretch, left
  <1>3. Configuring
    <2>1. ~(left <= 5) /\ ~(left <= 4) /\ left # 1 /\ left # 0
      BY <1>2
    <2> QED BY <1>1, <2>1 DEF Configuring
  <1>4. Registering
    <2>1. \A p \in Ports : ~(p < 0)
      BY DEF Ports
    <2>2. RegisteredBefore(0)
      BY <1>1, <2>1 DEF RegisteredBefore
    <2> QED BY <1>1, <2>2 DEF Registering
  <1>5. Expected = ""
    BY <1>1 DEF Expected
  <1>6. Parameters
    BY <1>1, <1>5 DEF Parameters
  <1>7. /\ SelfTesting /\ Resetting /\ IdentifyingDevice /\ Enabling
        /\ IdentifyingKeyboard /\ SettingUpMouse /\ SettingUpKeyboard /\ TestingPort
        /\ LookingForSecondPort /\ Finishing
    BY <1>1 DEF SelfTesting, Resetting, IdentifyingDevice, Enabling,
                IdentifyingKeyboard, SettingUpMouse, SettingUpKeyboard, TestingPort,
                LookingForSecondPort, Finishing
  <1> QED BY <1>1, <1>3, <1>4, <1>6, <1>7 DEF Calm

LEMMA CalmStays ==
    ASSUME Calm, UNCHANGED ps2Vars PROVE Calm'
  <1>1. /\ UNCHANGED <<plugged, prompt, todo, pc, device, got, config, registered>>
        /\ UNCHANGED <<out, owed, ctrl, param, scanning, keys>>
    BY DEF ps2Vars
  <1>2. left' = left /\ Here' = Here /\ Open' = Open
    BY <1>1 DEF left, Here, Open
  <1>3. (Configuring /\ SelfTesting /\ TestingPort /\ Resetting)'
    BY <1>1, <1>2 DEF Calm, Configuring, SelfTesting, TestingPort, Resetting
  <1>4. (IdentifyingDevice /\ IdentifyingKeyboard)'
    BY <1>1, <1>2 DEF Calm, IdentifyingDevice, IdentifyingKeyboard, MouseIdentified,
                      Mf2Identified, AtIdentified
  <1>5. (SettingUpMouse /\ SettingUpKeyboard /\ LookingForSecondPort)'
    BY <1>1, <1>2 DEF Calm, SettingUpMouse, SettingUpKeyboard, LookingForSecondPort
  <1>6. (Enabling /\ Finishing /\ Registering)'
    BY <1>1, <1>2 DEF Calm, Enabling, Finishing, Registering, RegisteredBefore, Registration
  <1>7. Expected' = Expected
    BY <1>1, <1>2 DEF Expected
  <1>8. Parameters'
    BY <1>1, <1>7 DEF Calm, Parameters
  <1> QED BY <1>1, <1>3, <1>4, <1>5, <1>6, <1>8 DEF Calm

LEMMA NextCalm ==
    ASSUME Ps2Types, UndisturbedCalm, [Ps2Next]_ps2Vars PROVE UndisturbedCalm'
  <1>1. SUFFICES ASSUME Undisturbed' PROVE Calm'
    BY DEF UndisturbedCalm
  <1>2. Undisturbed /\ Calm /\ (UNCHANGED ps2Vars \/ AnInstruction \/ Branch)
    BY <1>1, UndisturbedSteps
  <1>3. CASE UNCHANGED ps2Vars
    BY <1>2, <1>3, CalmStays
  <1>4. CASE AnInstruction
    BY <1>2, <1>4, InstructionCalm DEF Undisturbed
  <1>5. CASE Branch
    BY <1>2, <1>5, BranchCalm
  <1> QED BY <1>2, <1>3, <1>4, <1>5

\* The start-up keeps to its types, holds no byte that could make it take an empty
\* port for a device or a keyboard for a mouse, and, when nothing disturbs it, goes
\* through the conversation of the source point by point: initDevice with its
\* reset and getDeviceType, the set-up of a mouse or a keyboard, and the
\* configuration that is read and written back.
THEOREM Ps2Invariant == ASSUME Ps2Assumption PROVE Ps2Spec => []Ps2Inv
  <1>1. Ps2Init => Ps2Inv
    BY Ps2InitTypes, NothingHeldAtStart, CalmAtStart DEF Ps2Inv, UndisturbedCalm
  <1>2. Ps2Inv /\ [Ps2Next]_ps2Vars => Ps2Inv'
    BY Ps2NextTypes, NextNoMouse, NextFirstPort, NextSecondPort, NextCalm DEF Ps2Inv
  <1> QED BY <1>1, <1>2, PTL DEF Ps2Spec

LEMMA RegisteredAtEnd ==
    ASSUME Ps2Types, UndisturbedCalm PROVE AllRegistered /\ ConfigurationSane
  <1>1. SUFFICES ASSUME Done, Undisturbed
                 PROVE  /\ \A p \in Ports : /\ registered[p] = Registration(p)
                                            /\ plugged[p] # "none" => scanning[p]
                        /\ ctrl.irq1 /\ ctrl.irq12 /\ ~ctrl.translation
                        /\ \A p \in Ports : plugged[p] # "none" => ~ctrl.off[p]
    BY DEF AllRegistered, ConfigurationSane, Registration
  <1>2. pc = "done" /\ left = 0 /\ Finishing /\ Registering
    BY <1>1, LeftType DEF Done, UndisturbedCalm, Calm
  <1>3. RegisteredBefore(2)
    BY <1>2 DEF Registering
  <1>4. \A p \in Ports : registered[p] = Registration(p)
    BY <1>3 DEF RegisteredBefore, Ports
  <1>5. /\ \A p \in Ports : ~ctrl.off[p] /\ (plugged[p] # "none" => scanning[p])
        /\ ctrl.irq1 /\ ctrl.irq12 /\ ~ctrl.translation
    BY <1>2 DEF Finishing
  <1> QED BY <1>4, <1>5

\* Whatever is plugged in, and however late answers and keys come in, initDevice
\* registers nothing on an empty port and no mouse where there is none; and when
\* nothing disturbs the start-up, every device is registered for what it is and
\* switched on, and the controller is left with interrupts on and the ports open.
THEOREM PortsRight == ASSUME Ps2Assumption PROVE Ps2Spec => []PortsDrivenRight
  <1>1. Ps2Inv => PortsDrivenRight
    BY NoneIsPhantom, RegisteredAtEnd DEF Ps2Inv, PortsDrivenRight
  <1> QED BY <1>1, Ps2Invariant, PTL

=============
