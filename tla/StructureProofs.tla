-------------------------- MODULE StructureProofs --------------------------
(***************************************************************************)
(* For any number of digits and texts, the tree of the string map is the   *)
(* table of StringTable, and for any cells a linked list is a sequence.    *)
(*                                                                         *)
(* Every layer of the tree has a depth, and only one entry of the layers   *)
(* above points at it, so numbers whose walks end in the same entry have   *)
(* the same digits. A layer that is added changes no entry: what was       *)
(* missing on the way to it is now missing in it.                          *)
(*                                                                         *)
(* The cells of a list are a path without repetition, which is therefore   *)
(* no longer than there are cells: the loops visit all of it.              *)
(***************************************************************************)
EXTENDS StringMap, Lists, FiniteSetTheorems, NaturalsInduction, WellFoundedInduction, TLAPS

-----------------------------------------------------------------------------
\* Induction over a range of numbers, and recursion over one.

LEMMA LeastNatural ==
    ASSUME NEW S \in SUBSET Nat, S # {}
    PROVE  \E m \in S : \A n \in S : m <= n
  <1>1. PICK m \in S : \A n \in S : ~(<<n, m>> \in OpToRel(<, Nat))
    BY NatLessThanWellFounded, WFMin
  <1>2. \A n \in S : ~(n < m)
    BY <1>1 DEF OpToRel
  <1> QED BY <1>2

LEMMA UpTo ==
    ASSUME NEW m \in Nat, NEW S, 0 \in S,
           \A n \in 1 .. m : n - 1 \in S => n \in S
    PROVE  \A n \in 0 .. m : n \in S
  <1>1. SUFFICES ASSUME (0 .. m) \ S # {} PROVE FALSE
    OBVIOUS
  <1>2. PICK k \in (0 .. m) \ S : \A n \in (0 .. m) \ S : k <= n
    <2>1. (0 .. m) \ S \in SUBSET Nat
      OBVIOUS
    <2> QED BY <1>1, <2>1, LeastNatural
  <1>3. k # 0 /\ k \in 1 .. m /\ k - 1 \in 0 .. m /\ k - 1 \in S
    BY <1>2
  <1> QED BY <1>2, <1>3

\* What a step makes of the previous value, from base on.
Recursive(f, m, base, step) ==
    f = [n \in 0 .. m |-> IF n = 0 THEN base ELSE step[n][f[n - 1]]]

\* A recursion whose steps lead from X[n - 1] to X[n] has a solution there.
LEMMA Recursion ==
    ASSUME NEW m \in Nat, NEW base, NEW step, NEW X, base \in X[0],
           \A n \in 1 .. m : \A x \in X[n - 1] : step[n][x] \in X[n]
    PROVE  \E f : Recursive(f, m, base, step) /\ \A n \in 0 .. m : f[n] \in X[n]
  <1> DEFINE S == {k \in Nat : \E f : Recursive(f, k, base, step)}
  <1>1. 0 \in S
    <2>1. PICK f : f = [n \in 0 .. 0 |-> base]
      OBVIOUS
    <2>2. Recursive(f, 0, base, step)
      BY <2>1 DEF Recursive
    <2> QED BY <2>2
  <1>2. ASSUME NEW k \in 1 .. m, k - 1 \in S PROVE k \in S
    <2>1. PICK f : Recursive(f, k - 1, base, step)
      BY <1>2
    <2>2. \A n \in 0 .. k - 1 : f[n] = IF n = 0 THEN base ELSE step[n][f[n - 1]]
      BY <2>1 DEF Recursive
    <2>3. PICK g : g = [n \in 0 .. k |-> IF n = k THEN step[k][f[k - 1]] ELSE f[n]]
      OBVIOUS
    <2>4. PICK h : h = [n \in 0 .. k |-> IF n = 0 THEN base ELSE step[n][g[n - 1]]]
      OBVIOUS
    <2>5. ASSUME NEW n \in 0 .. k PROVE g[n] = h[n]
      <3>1. CASE n = k
        <4>1. n # 0 /\ n - 1 = k - 1 /\ k - 1 \in 0 .. k /\ k - 1 # k
          BY <3>1
        <4> QED BY <2>3, <2>4, <2>5, <3>1, <4>1
      <3>2. CASE n # k /\ n # 0
        <4>1. n \in 0 .. k - 1 /\ n - 1 \in 0 .. k /\ n - 1 # k
          BY <3>2
        <4> QED BY <2>2, <2>3, <2>4, <3>2, <4>1
      <3>3. CASE n = 0
        <4>1. n \in 0 .. k - 1 /\ n # k
          BY <3>3
        <4> QED BY <2>2, <2>3, <2>4, <3>3, <4>1
      <3> QED BY <3>1, <3>2, <3>3
    <2>6. g = h
      BY <2>3, <2>4, <2>5
    <2>7. Recursive(g, k, base, step)
      BY <2>4, <2>6 DEF Recursive
    <2> QED BY <2>7
  <1>3. m \in S
    <2> HIDE DEF S
    <2>1. \A n \in 0 .. m : n \in S
      BY <1>1, <1>2, UpTo
    <2> QED BY <2>1
  <1>4. PICK f : Recursive(f, m, base, step)
    BY <1>3
  <1>5. \A n \in 0 .. m : f[n] = IF n = 0 THEN base ELSE step[n][f[n - 1]]
    BY <1>4 DEF Recursive
  <1> DEFINE T == {n \in 0 .. m : f[n] \in X[n]}
  <1>6. 0 \in T
    BY <1>5
  <1>7. ASSUME NEW n \in 1 .. m, n - 1 \in T PROVE n \in T
    <2>1. n \in 0 .. m /\ n # 0 /\ f[n - 1] \in X[n - 1]
      BY <1>7
    <2>2. f[n] = step[n][f[n - 1]]
      BY <1>5, <2>1
    <2> QED BY <2>1, <2>2
  <1>8. \A n \in 0 .. m : n \in T
    <2> HIDE DEF T
    <2> QED BY <1>6, <1>7, UpTo
  <1> QED BY <1>4, <1>8

-----------------------------------------------------------------------------
\* Numbers of digits.

Powers(f) == f = [n \in 0 .. Layers |-> IF n = 0 THEN 1 ELSE Digit * f[n - 1]]
Shifts(f, id) == f = [n \in 0 .. Layers |-> IF n = 0 THEN id ELSE f[n - 1] \div Digit]
Shifted(id) == CHOOSE f : Shifts(f, id)

LEMMA PowerIs ==
    \E f : /\ Powers(f) /\ NumberOfIds = f[Layers]
           /\ \A n \in 0 .. Layers : f[n] \in Nat \ {0}
  <1> DEFINE X == [n \in 0 .. Layers |-> Nat \ {0}]
             step == [n \in 1 .. Layers |-> [x \in Nat \ {0} |-> Digit * x]]
  <1>0. Layers \in Nat /\ Digit \in Nat \ {0}
    BY DigitsAssumption
  <1>1. \A x \in Nat \ {0} : Digit * x \in Nat \ {0}
    BY <1>0
  <1>2. \E f : Powers(f)
    <2>a. \A n \in 0 .. Layers : X[n] = Nat \ {0}
      OBVIOUS
    <2>b. \A n \in 1 .. Layers : n \in 0 .. Layers /\ n - 1 \in 0 .. Layers
      BY <1>0
    <2>c. \A n \in 1 .. Layers : \A x \in Nat \ {0} : step[n][x] = Digit * x
      OBVIOUS
    <2> HIDE DEF step, X
    <2>1. /\ 1 \in X[0]
          /\ \A n \in 1 .. Layers : \A x \in X[n - 1] : step[n][x] \in X[n]
      BY <1>0, <1>1, <2>a, <2>b, <2>c
    <2>2. PICK f : Recursive(f, Layers, 1, step) /\ \A n \in 0 .. Layers : f[n] \in X[n]
      BY <1>0, <2>1, Recursion
    <2>3. \A n \in 1 .. Layers : f[n - 1] \in Nat \ {0}
      BY <2>a, <2>b, <2>2
    <2>4. \A n \in 1 .. Layers : step[n][f[n - 1]] = Digit * f[n - 1]
      BY <2>3, <2>c
    <2>5. PICK g : g = [n \in 0 .. Layers |-> IF n = 0 THEN 1 ELSE Digit * f[n - 1]]
      OBVIOUS
    <2>6. f = [n \in 0 .. Layers |-> IF n = 0 THEN 1 ELSE step[n][f[n - 1]]]
      BY <2>2 DEF Recursive
    <2>7. f = g
      BY <1>0, <2>4, <2>5, <2>6
    <2> QED BY <2>5, <2>7 DEF Powers
  <1> DEFINE power == CHOOSE f : Powers(f)
  <1>3. Powers(power)
    BY <1>2, Zenon
  <1>4. NumberOfIds = power[Layers]
    BY DEF NumberOfIds, Powers
  <1> HIDE DEF power
  <1>5. \A n \in 0 .. Layers : power[n] = IF n = 0 THEN 1 ELSE Digit * power[n - 1]
    BY <1>3 DEF Powers
  <1> DEFINE T == {n \in 0 .. Layers : power[n] \in Nat \ {0}}
  <1>6. 0 \in T
    BY <1>0, <1>5
  <1>7. ASSUME NEW n \in 1 .. Layers, n - 1 \in T PROVE n \in T
    BY <1>0, <1>1, <1>5, <1>7
  <1>8. \A n \in 0 .. Layers : n \in T
    <2> HIDE DEF T
    <2> QED BY <1>0, <1>6, <1>7, UpTo
  <1> QED BY <1>3, <1>4, <1>8

LEMMA ShiftedIs ==
    ASSUME NEW id \in Nat
    PROVE  /\ Shifts(Shifted(id), id)
           /\ \A n \in 0 .. Layers : Shifted(id)[n] \in Nat
  <1> DEFINE X == [n \in 0 .. Layers |-> Nat]
             step == [n \in 1 .. Layers |-> [x \in Nat |-> x \div Digit]]
  <1>0. Layers \in Nat /\ Digit \in Nat \ {0}
    BY DigitsAssumption
  <1>1. \A x \in Nat : x \div Digit \in Nat
    BY <1>0
  <1>2. \E f : Shifts(f, id)
    <2>1. \A n \in 0 .. Layers : X[n] = Nat
      OBVIOUS
    <2>2. \A n \in 1 .. Layers : n \in 0 .. Layers /\ n - 1 \in 0 .. Layers
      BY <1>0
    <2>3. \A n \in 1 .. Layers : \A x \in Nat : step[n][x] = x \div Digit
      OBVIOUS
    <2> HIDE DEF step, X
    <2>4. /\ id \in X[0]
          /\ \A n \in 1 .. Layers : \A x \in X[n - 1] : step[n][x] \in X[n]
      BY <1>0, <1>1, <2>1, <2>2, <2>3
    <2>5. PICK f : Recursive(f, Layers, id, step) /\ \A n \in 0 .. Layers : f[n] \in X[n]
      BY <1>0, <2>4, Recursion
    <2>6. \A n \in 1 .. Layers : step[n][f[n - 1]] = f[n - 1] \div Digit
      BY <2>1, <2>2, <2>3, <2>5
    <2>7. PICK g : g = [n \in 0 .. Layers |-> IF n = 0 THEN id ELSE f[n - 1] \div Digit]
      OBVIOUS
    <2>8. f = [n \in 0 .. Layers |-> IF n = 0 THEN id ELSE step[n][f[n - 1]]]
      BY <2>5 DEF Recursive
    <2>9. f = g
      BY <1>0, <2>6, <2>7, <2>8
    <2> QED BY <2>7, <2>9 DEF Shifts
  <1>3. Shifts(Shifted(id), id)
    BY <1>2, Zenon DEF Shifted
  <1>4. \A n \in 0 .. Layers :
            Shifted(id)[n] = IF n = 0 THEN id ELSE Shifted(id)[n - 1] \div Digit
    BY <1>3 DEF Shifts
  <1> DEFINE T == {n \in 0 .. Layers : Shifted(id)[n] \in Nat}
  <1>5. 0 \in T
    BY <1>0, <1>4
  <1>6. ASSUME NEW n \in 1 .. Layers, n - 1 \in T PROVE n \in T
    BY <1>0, <1>1, <1>4, <1>6
  <1>7. \A n \in 0 .. Layers : n \in T
    <2> HIDE DEF T
    <2> QED BY <1>0, <1>5, <1>6, UpTo
  <1> QED BY <1>3, <1>7

LEMMA DigitIs ==
    ASSUME NEW id \in Nat, NEW n \in 0 .. Layers
    PROVE  DigitOf(id, n) = Shifted(id)[n] % Digit /\ DigitOf(id, n) \in 0 .. Digit - 1
  <1>1. DigitOf(id, n) = Shifted(id)[n] % Digit
    BY DEF DigitOf, Shifted, Shifts
  <1>2. PICK x \in Nat : x = Shifted(id)[n]
    BY ShiftedIs
  <1>3. x % Digit \in 0 .. Digit - 1
    BY DigitsAssumption
  <1> QED BY <1>1, <1>2, <1>3

\* After all shifts, nothing is left of a number.
LEMMA ShiftedAway ==
    ASSUME NEW id \in Ids
    PROVE  id \in Nat /\ Shifted(id)[Layers] = 0
  <1>0. Layers \in Nat /\ Digit \in Nat \ {0}
    BY DigitsAssumption
  <1>1. PICK f : /\ Powers(f) /\ NumberOfIds = f[Layers]
                 /\ \A n \in 0 .. Layers : f[n] \in Nat \ {0}
    BY PowerIs
  <1>2. \A n \in 0 .. Layers : f[n] = IF n = 0 THEN 1 ELSE Digit * f[n - 1]
    BY <1>1 DEF Powers
  <1>3. id \in Nat /\ id < f[Layers]
    BY <1>0, <1>1 DEF Ids
  <1>4. PICK s : s = Shifted(id) /\ Shifts(s, id) /\ \A n \in 0 .. Layers : s[n] \in Nat
    BY <1>3, ShiftedIs
  <1>5. \A n \in 0 .. Layers : s[n] = IF n = 0 THEN id ELSE s[n - 1] \div Digit
    BY <1>4 DEF Shifts
  <1> DEFINE T == {n \in 0 .. Layers : s[n] < f[Layers - n]}
  <1>6. 0 \in T
    BY <1>0, <1>3, <1>5
  <1>7. ASSUME NEW n \in 1 .. Layers, n - 1 \in T PROVE n \in T
    <2>1. /\ n \in 0 .. Layers /\ n # 0 /\ n - 1 \in 0 .. Layers
          /\ Layers - n \in 0 .. Layers /\ Layers - (n - 1) \in 0 .. Layers
          /\ Layers - (n - 1) # 0 /\ (Layers - (n - 1)) - 1 = Layers - n
      BY <1>0
    <2>2. PICK x \in Nat, y \in Nat \ {0} : x = s[n - 1] /\ y = f[Layers - n]
      BY <1>1, <1>4, <2>1
    <2>3. x < Digit * y
      BY <1>2, <1>7, <2>1, <2>2
    <2>4. x \div Digit < y
      <3>1. PICK q \in Nat : q = x \div Digit
        BY <1>0
      <3>2. Digit * q <= x
        BY <1>0, <3>1
      <3>3. SUFFICES ASSUME q >= y PROVE FALSE
        BY <3>1
      <3>4. PICK e \in Nat : q = y + e
        <4>1. q - y \in Nat /\ q = y + (q - y)
          BY <3>3
        <4> QED BY <4>1
      <3>5. Digit * q = Digit * y + Digit * e /\ Digit * e \in Nat /\ Digit * y \in Nat
        BY <1>0, <3>4
      <3> QED BY <2>3, <3>2, <3>5
    <2> QED BY <1>5, <2>1, <2>2, <2>4
  <1>8. \A n \in 0 .. Layers : n \in T
    <2> HIDE DEF T
    <2> QED BY <1>0, <1>6, <1>7, UpTo
  <1>9. s[Layers] < f[0] /\ f[0] = 1 /\ s[Layers] \in Nat
    <2>1. Layers \in T /\ Layers - Layers = 0 /\ Layers \in 0 .. Layers /\ 0 \in 0 .. Layers
      BY <1>0, <1>8
    <2> QED BY <1>2, <1>4, <2>1
  <1> QED BY <1>3, <1>4, <1>9

\* The digits of a number determine it.
LEMMA DigitsDetermine ==
    ASSUME NEW id \in Ids, NEW other \in Ids,
           \A n \in 0 .. Layers - 1 : DigitOf(id, n) = DigitOf(other, n)
    PROVE  id = other
  <1>0. Layers \in Nat /\ Digit \in Nat \ {0} /\ id \in Nat /\ other \in Nat
    BY DigitsAssumption, ShiftedAway
  <1>1. PICK s : s = Shifted(id) /\ \A n \in 0 .. Layers :
                    s[n] \in Nat /\ s[n] = IF n = 0 THEN id ELSE s[n - 1] \div Digit
    <2>1. Shifts(Shifted(id), id) /\ \A n \in 0 .. Layers : Shifted(id)[n] \in Nat
      BY <1>0, ShiftedIs
    <2> QED BY <2>1 DEF Shifts
  <1>2. PICK t : t = Shifted(other) /\ \A n \in 0 .. Layers :
                    t[n] \in Nat /\ t[n] = IF n = 0 THEN other ELSE t[n - 1] \div Digit
    <2>1. Shifts(Shifted(other), other) /\ \A n \in 0 .. Layers : Shifted(other)[n] \in Nat
      BY <1>0, ShiftedIs
    <2> QED BY <2>1 DEF Shifts
  <1>3. \A n \in 0 .. Layers - 1 : s[n] % Digit = t[n] % Digit
    <2>1. \A n \in 0 .. Layers - 1 : n \in 0 .. Layers
      BY <1>0
    <2> QED BY <1>0, <1>1, <1>2, <2>1, DigitIs
  <1> DEFINE T == {n \in 0 .. Layers : s[Layers - n] = t[Layers - n]}
  <1>4. 0 \in T
    <2>1. s[Layers] = 0 /\ t[Layers] = 0
      BY <1>1, <1>2, ShiftedAway
    <2> QED BY <1>0, <2>1
  <1>5. ASSUME NEW n \in 1 .. Layers, n - 1 \in T PROVE n \in T
    <2>1. PICK k \in 0 .. Layers - 1 : k = Layers - n /\ k + 1 = Layers - (n - 1)
      BY <1>0
    <2>2. s[k + 1] = t[k + 1]
      BY <1>5, <2>1
    <2>3. /\ k \in 0 .. Layers /\ k + 1 \in 0 .. Layers /\ k + 1 # 0 /\ (k + 1) - 1 = k
          /\ n \in 0 .. Layers
      BY <1>0
    <2>4. PICK x \in Nat, y \in Nat : x = s[k] /\ y = t[k]
      BY <1>1, <1>2, <2>3
    <2>5. x \div Digit = y \div Digit /\ x % Digit = y % Digit
      BY <1>1, <1>2, <1>3, <2>2, <2>3, <2>4
    <2>6. x = y
      BY <1>0, <2>5
    <2> QED BY <2>1, <2>3, <2>4, <2>6
  <1>6. Layers \in T
    <2>1. \A n \in 0 .. Layers : n \in T
      <3> HIDE DEF T
      <3> QED BY <1>0, <1>4, <1>5, UpTo
    <2> QED BY <1>0, <2>1
  <1>7. s[0] = t[0]
    BY <1>0, <1>6
  <1> QED BY <1>0, <1>1, <1>2, <1>7

\* A hash is a number of Layers digits.
Hashes(f, text, m) ==
    f = [n \in 0 .. m |->
            IF n = 0 THEN 0 ELSE (Factor * f[n - 1] + text[n]) % NumberOfIds]

LEMMA HashInIds ==
    ASSUME NEW text \in Texts
    PROVE  hashString(text) \in Ids
  <1>1. text \in Seq(Nat) /\ Factor \in Nat
    BY TextsAssumption
  <1>2. PICK m \in Nat : m = Len(text)
    BY <1>1
  <1>3. NumberOfIds \in Nat \ {0}
    <2>1. PICK f : NumberOfIds = f[Layers] /\ \A n \in 0 .. Layers : f[n] \in Nat \ {0}
      BY PowerIs
    <2> QED BY <2>1, DigitsAssumption
  <1>4. Ids = 0 .. NumberOfIds - 1 /\ 0 \in Ids /\ Ids \subseteq Nat
    BY <1>3 DEF Ids
  <1>5. ASSUME NEW n \in 1 .. m, NEW x \in Ids
        PROVE  (Factor * x + text[n]) % NumberOfIds \in Ids
    <2>1. text[n] \in Nat
      BY <1>1, <1>2
    <2>2. PICK y \in Nat : y = Factor * x + text[n]
      BY <1>1, <1>4, <2>1
    <2>3. y % NumberOfIds \in 0 .. NumberOfIds - 1
      BY <1>3
    <2> QED BY <1>4, <2>2, <2>3
  <1>6. \E f : Hashes(f, text, m)
    <2>1. PICK X : X = [n \in 0 .. m |-> Ids]
      OBVIOUS
    <2>2. PICK step : step = [n \in 1 .. m |->
                                [x \in Ids |-> (Factor * x + text[n]) % NumberOfIds]]
      OBVIOUS
    <2>3. \A n \in 1 .. m : \A x \in Ids : step[n][x] = (Factor * x + text[n]) % NumberOfIds
      BY <2>2
    <2>4. \A n \in 1 .. m : X[n] = Ids /\ X[n - 1] = Ids
      BY <2>1
    <2>5. X[0] = Ids
      BY <2>1
    <2>6. /\ 0 \in X[0]
          /\ \A n \in 1 .. m : \A x \in X[n - 1] : step[n][x] \in X[n]
      <3>1. ASSUME NEW n \in 1 .. m, NEW x \in X[n - 1] PROVE step[n][x] \in X[n]
        <4>1. x \in Ids
          BY <2>4
        <4>2. step[n][x] \in Ids
          BY <1>5, <2>3, <4>1
        <4> QED BY <2>4, <4>2
      <3> QED BY <1>4, <2>5, <3>1
    <2>7. PICK f : Recursive(f, m, 0, step) /\ \A n \in 0 .. m : f[n] \in X[n]
      BY <2>6, Recursion
    <2>8. \A n \in 1 .. m : f[n - 1] \in Ids
      BY <2>4, <2>7
    <2>9. \A n \in 1 .. m : step[n][f[n - 1]] = (Factor * f[n - 1] + text[n]) % NumberOfIds
      BY <2>3, <2>8
    <2>10. PICK g : g = [n \in 0 .. m |->
                IF n = 0 THEN 0 ELSE (Factor * f[n - 1] + text[n]) % NumberOfIds]
      OBVIOUS
    <2>11. f = [n \in 0 .. m |-> IF n = 0 THEN 0 ELSE step[n][f[n - 1]]]
      BY <2>7 DEF Recursive
    <2>12. f = g
      BY <2>9, <2>10, <2>11
    <2> QED BY <2>10, <2>12 DEF Hashes
  <1> DEFINE hash == CHOOSE f : Hashes(f, text, m)
  <1>7. Hashes(hash, text, m)
    BY <1>6, Zenon
  <1>8. hashString(text) = hash[m]
    BY <1>2 DEF hashString, Hashes
  <1> HIDE DEF hash
  <1>9. \A n \in 0 .. m :
            hash[n] = IF n = 0 THEN 0 ELSE (Factor * hash[n - 1] + text[n]) % NumberOfIds
    BY <1>7 DEF Hashes
  <1> DEFINE T == {n \in 0 .. m : hash[n] \in Ids}
  <1>10. 0 \in T
    BY <1>4, <1>9
  <1>11. ASSUME NEW n \in 1 .. m, n - 1 \in T PROVE n \in T
    BY <1>5, <1>9, <1>11
  <1>12. m \in T
    <2>1. \A n \in 0 .. m : n \in T
      <3> HIDE DEF T
      <3> QED BY <1>10, <1>11, UpTo
    <2> QED BY <2>1
  <1> QED BY <1>8, <1>12

-----------------------------------------------------------------------------
\* The tree. Above the last depth, an entry leads to a layer of the next depth
\* that no other entry leads to.
Digits == 0 .. Digit - 1
Layer == [Digits -> Nat]
Depths == 0 .. Layers - 1
Leads(mem, depth) ==
    \A i \in 1 .. Len(mem), d \in Digits :
        depth[i] # Layers - 1 /\ mem[i][d] # Null =>
            mem[i][d] \in 1 .. Len(mem) /\ depth[mem[i][d]] = depth[i] + 1
OneParent(mem, depth) ==
    \A i, j \in 1 .. Len(mem) : \A d, e \in Digits :
        /\ depth[i] # Layers - 1 /\ depth[j] # Layers - 1
        /\ mem[i][d] # Null /\ mem[i][d] = mem[j][e]
        => i = j /\ d = e
Tree(mem, depth) ==
    /\ mem \in Seq(Layer) /\ Len(mem) \in Nat \ {0}
    /\ depth \in [1 .. Len(mem) -> Depths] /\ depth[1] = 0
    /\ Leads(mem, depth) /\ OneParent(mem, depth)

\* The layers on the way of id.
Ways(f, mem, id) ==
    f = [n \in 0 .. Layers - 1 |->
            IF n = 0 THEN 1
            ELSE IF f[n - 1] = Null THEN Null ELSE mem[f[n - 1]][DigitOf(id, n - 1)]]
Way(mem, id) == CHOOSE f : Ways(f, mem, id)
OnWay(w, mem, depth, id) ==
    /\ w[0] = 1
    /\ \A n \in 1 .. Layers - 1 :
        w[n] = IF w[n - 1] = Null THEN Null ELSE mem[w[n - 1]][DigitOf(id, n - 1)]
    /\ \A n \in Depths : w[n] = Null \/ (w[n] \in 1 .. Len(mem) /\ depth[w[n]] = n)

LEMMA DigitTypes ==
    ASSUME NEW id \in Ids
    PROVE  \A n \in Depths : DigitOf(id, n) \in Digits /\ Last(id) \in Digits
  <1>1. id \in Nat /\ Layers \in Nat \ {0}
    BY ShiftedAway, DigitsAssumption
  <1>2. Layers - 1 \in 0 .. Layers /\ \A n \in Depths : n \in 0 .. Layers
    BY <1>1 DEF Depths
  <1> QED BY <1>1, <1>2, DigitIs DEF Digits, Last

\* An entry of the tree leads to a layer of the next depth.
LEMMA TreeStep ==
    ASSUME NEW mem, NEW depth, Tree(mem, depth), NEW id \in Ids, NEW n \in 1 .. Layers - 1,
           NEW x \in 1 .. Len(mem), depth[x] = n - 1,
           NEW y, y = mem[x][DigitOf(id, n - 1)]
    PROVE  y = Null \/ (y \in 1 .. Len(mem) /\ depth[y] = n)
  <1>1. Layers \in Nat /\ n - 1 \in Depths /\ n - 1 # Layers - 1 /\ (n - 1) + 1 = n
    BY DigitsAssumption DEF Depths
  <1>2. PICK d \in Digits : d = DigitOf(id, n - 1)
    BY <1>1, DigitTypes
  <1>3. depth[x] # Layers - 1 /\ y = mem[x][d] /\ depth[x] + 1 = n
    BY <1>1, <1>2
  <1>4. mem[x][d] # Null => mem[x][d] \in 1 .. Len(mem) /\ depth[mem[x][d]] = depth[x] + 1
    BY <1>3 DEF Tree, Leads
  <1> QED BY <1>3, <1>4

LEMMA WayIs ==
    ASSUME NEW mem, NEW depth, Tree(mem, depth), NEW id \in Ids
    PROVE  LastLayer(mem, id) = Way(mem, id)[Layers - 1] /\ OnWay(Way(mem, id), mem, depth, id)
  <1>0. Layers \in Nat \ {0} /\ Layers - 1 \in Nat /\ Depths = 0 .. Layers - 1
    BY DigitsAssumption DEF Depths
  <1> DEFINE Good(n) == {x \in 0 .. Len(mem) : x = Null \/ (x \in 1 .. Len(mem) /\ depth[x] = n)}
             Next(n, x) == IF x = Null THEN Null ELSE mem[x][DigitOf(id, n - 1)]
  <1>1. ASSUME NEW n \in 1 .. Layers - 1, NEW x \in Good(n - 1) PROVE Next(n, x) \in Good(n)
    <2>1. CASE x = Null
      <3>1. Null \in 0 .. Len(mem)
        BY DEF Null, Tree
      <3> QED BY <2>1, <3>1
    <2>2. CASE x # Null
      <3>1. x \in 1 .. Len(mem) /\ depth[x] = n - 1
        BY <2>2
      <3>2. PICK y : y = mem[x][DigitOf(id, n - 1)]
        OBVIOUS
      <3>3. y = Null \/ (y \in 1 .. Len(mem) /\ depth[y] = n)
        BY <3>1, <3>2, TreeStep
      <3> QED BY <2>2, <3>2, <3>3 DEF Null, Tree
    <2> QED BY <2>1, <2>2
  <1>2. 1 \in Good(0)
    BY DEF Tree
  <1>3. \E f : Ways(f, mem, id)
    <2>1. PICK X : X = [n \in Depths |-> Good(n)]
      OBVIOUS
    <2>2. PICK step : step = [n \in 1 .. Layers - 1 |-> [x \in Good(n - 1) |-> Next(n, x)]]
      OBVIOUS
    <2>3. \A n \in 1 .. Layers - 1 : \A x \in Good(n - 1) : step[n][x] = Next(n, x)
      BY <2>2
    <2>4. X[0] = Good(0) /\ \A n \in 1 .. Layers - 1 : X[n] = Good(n) /\ X[n - 1] = Good(n - 1)
      BY <1>0, <2>1
    <2> HIDE DEF Good, Next
    <2>5. /\ 1 \in X[0]
          /\ \A n \in 1 .. Layers - 1 : \A x \in X[n - 1] : step[n][x] \in X[n]
      BY <1>1, <1>2, <2>3, <2>4
    <2>6. PICK f : Recursive(f, Layers - 1, 1, step)
                   /\ \A n \in 0 .. Layers - 1 : f[n] \in X[n]
      BY <1>0, <2>5, Recursion
    <2>7. \A n \in 1 .. Layers - 1 : f[n - 1] \in Good(n - 1)
      <3>1. \A n \in 1 .. Layers - 1 : n - 1 \in 0 .. Layers - 1
        BY <1>0
      <3> QED BY <2>4, <2>6, <3>1
    <2>8. \A n \in 1 .. Layers - 1 : step[n][f[n - 1]] = Next(n, f[n - 1])
      BY <2>3, <2>7
    <2>9. PICK g : g = [n \in 0 .. Layers - 1 |-> IF n = 0 THEN 1 ELSE Next(n, f[n - 1])]
      OBVIOUS
    <2>10. f = [n \in 0 .. Layers - 1 |-> IF n = 0 THEN 1 ELSE step[n][f[n - 1]]]
      BY <2>6 DEF Recursive
    <2>11. f = g
      BY <1>0, <2>8, <2>9, <2>10
    <2> QED BY <2>9, <2>11 DEF Ways, Next
  <1>4. PICK w : w = Way(mem, id) /\ Ways(w, mem, id)
    BY <1>3, Zenon DEF Way
  <1>5. LastLayer(mem, id) = w[Layers - 1]
    BY <1>4 DEF LastLayer, Way, Ways
  <1>6. \A n \in Depths : w[n] = IF n = 0 THEN 1 ELSE Next(n, w[n - 1])
    BY <1>0, <1>4 DEF Ways
  <1> DEFINE T == {n \in Depths : w[n] \in Good(n)}
  <1>7. 0 \in T
    <2> HIDE DEF Good
    <2> QED BY <1>0, <1>2, <1>6
  <1>8. ASSUME NEW n \in 1 .. Layers - 1, n - 1 \in T PROVE n \in T
    <2> HIDE DEF Good, Next
    <2>1. n \in Depths /\ n # 0 /\ w[n - 1] \in Good(n - 1)
      BY <1>0, <1>8
    <2>2. w[n] = Next(n, w[n - 1])
      BY <1>6, <2>1
    <2> QED BY <1>1, <2>1, <2>2
  <1>9. \A n \in Depths : n \in T
    <2> HIDE DEF T
    <2> QED BY <1>0, <1>7, <1>8, UpTo
  <1>10. \A n \in Depths : w[n] = Null \/ (w[n] \in 1 .. Len(mem) /\ depth[w[n]] = n)
    BY <1>9
  <1>11. OnWay(w, mem, depth, id)
    <2>1. w[0] = 1
      BY <1>0, <1>6
    <2>2. \A n \in 1 .. Layers - 1 : n \in Depths /\ n # 0
      BY <1>0
    <2> QED BY <1>6, <1>10, <2>1, <2>2 DEF OnWay
  <1> QED BY <1>4, <1>5, <1>11

\* Walks that meet have come the same way.
LEMMA SameWay ==
    ASSUME NEW mem, NEW depth, Tree(mem, depth), NEW id \in Ids, NEW other \in Ids,
           NEW last \in Depths, Way(mem, id)[last] # Null,
           Way(mem, id)[last] = Way(mem, other)[last]
    PROVE  \A k \in 0 .. last - 1 : DigitOf(id, k) = DigitOf(other, k)
  <1>0. Layers \in Nat \ {0} /\ Depths = 0 .. Layers - 1 /\ Layers - 1 \in Nat
    BY DigitsAssumption DEF Depths
  <1>1. PICK v : v = Way(mem, id) /\ OnWay(v, mem, depth, id)
    BY WayIs
  <1>2. PICK w : w = Way(mem, other) /\ OnWay(w, mem, depth, other)
    BY WayIs
  <1> DEFINE Agree(n) == v[n] # Null /\ v[n] = w[n]
             T == {n \in Depths :
                    Agree(n) => \A k \in 0 .. n - 1 : DigitOf(id, k) = DigitOf(other, k)}
  <1>3. 0 \in T
    BY <1>0
  <1>4. ASSUME NEW n \in 1 .. Layers - 1, n - 1 \in T PROVE n \in T
    <2>1. n \in Depths /\ n - 1 \in Depths /\ n - 1 # Layers - 1
      BY <1>0
    <2>2. SUFFICES ASSUME Agree(n)
                   PROVE  \A k \in 0 .. n - 1 : DigitOf(id, k) = DigitOf(other, k)
      BY <2>1
    <2>3. PICK d \in Digits, e \in Digits :
            d = DigitOf(id, n - 1) /\ e = DigitOf(other, n - 1)
      BY <2>1, DigitTypes
    <2>4. PICK x, y : x = v[n - 1] /\ y = w[n - 1]
      OBVIOUS
    <2>5. x # Null /\ y # Null /\ mem[x][d] = v[n] /\ mem[y][e] = w[n]
      BY <1>1, <1>2, <2>2, <2>3, <2>4 DEF OnWay
    <2>6. /\ x \in 1 .. Len(mem) /\ depth[x] # Layers - 1
          /\ y \in 1 .. Len(mem) /\ depth[y] # Layers - 1
      BY <1>1, <1>2, <2>1, <2>4, <2>5 DEF OnWay
    <2>7. mem[x][d] # Null /\ mem[x][d] = mem[y][e]
      BY <2>2, <2>5
    <2>8. x = y /\ d = e
      BY <2>6, <2>7 DEF Tree, OneParent
    <2>9. Agree(n - 1)
      BY <2>4, <2>5, <2>8
    <2>10. \A k \in 0 .. (n - 1) - 1 : DigitOf(id, k) = DigitOf(other, k)
      BY <1>4, <2>9
    <2> QED BY <2>3, <2>8, <2>10
  <1>5. \A n \in 0 .. Layers - 1 : n \in T
    <2> HIDE DEF T
    <2> QED BY <1>0, <1>3, <1>4, UpTo
  <1>6. last \in T /\ Agree(last)
    BY <1>0, <1>1, <1>2, <1>5
  <1> QED BY <1>6

\* Numbers with the same entry of a last layer are equal.
LEMMA SameEntry ==
    ASSUME NEW mem, NEW depth, Tree(mem, depth), NEW id \in Ids, NEW other \in Ids,
           LastLayer(mem, id) # Null, LastLayer(mem, id) = LastLayer(mem, other),
           Last(id) = Last(other)
    PROVE  id = other
  <1>0. Layers \in Nat \ {0} /\ Layers - 1 \in Depths
    BY DigitsAssumption DEF Depths
  <1>1. /\ Way(mem, id)[Layers - 1] # Null
        /\ Way(mem, id)[Layers - 1] = Way(mem, other)[Layers - 1]
    BY WayIs
  <1>2. \A k \in 0 .. (Layers - 1) - 1 : DigitOf(id, k) = DigitOf(other, k)
    BY <1>0, <1>1, SameWay
  <1>3. DigitOf(id, Layers - 1) = DigitOf(other, Layers - 1)
    BY DEF Last
  <1>4. \A k \in 0 .. Layers - 1 : DigitOf(id, k) = DigitOf(other, k)
    BY <1>0, <1>2, <1>3
  <1> QED BY <1>4, DigitsDetermine

-----------------------------------------------------------------------------
\* A layer is added.

Grown(mem, i, d, more) ==
    /\ more \in Seq(Layer) /\ Len(more) = Len(mem) + 1
    /\ more[i][d] = Len(mem) + 1
    /\ \A j \in 1 .. Len(mem), e \in Digits : j # i \/ e # d => more[j][e] = mem[j][e]
    /\ \A e \in Digits : more[Len(mem) + 1][e] = Null

LEMMA AppendGrows ==
    ASSUME NEW mem, NEW depth, Tree(mem, depth), NEW i \in 1 .. Len(mem), NEW d \in Digits
    PROVE  Grown(mem, i, d, Append([mem EXCEPT ![i][d] = Len(mem) + 1], EmptyLayer))
  <1>1. PICK new \in Nat : new = Len(mem) + 1
    BY DEF Tree
  <1>2. mem \in Seq(Layer) /\ mem[i] \in Layer /\ new # 0
    BY <1>1 DEF Tree
  <1>3. PICK layer \in Layer :
            /\ layer = [mem[i] EXCEPT ![d] = new]
            /\ layer[d] = new /\ \A e \in Digits : e # d => layer[e] = mem[i][e]
    <2>1. [mem[i] EXCEPT ![d] = new] \in Layer
      BY <1>2 DEF Layer
    <2>2. PICK layer \in Layer : layer = [mem[i] EXCEPT ![d] = new]
      BY <2>1
    <2> QED BY <1>2, <2>2 DEF Layer
  <1>4. PICK linked \in Seq(Layer) :
            /\ linked = [mem EXCEPT ![i][d] = new]
            /\ Len(linked) = Len(mem) /\ linked[i] = layer
            /\ \A j \in 1 .. Len(mem) : j # i => linked[j] = mem[j]
    <2>1. PICK linked : linked = [mem EXCEPT ![i] = layer]
      OBVIOUS
    <2>2. linked = [mem EXCEPT ![i][d] = new]
      BY <1>3, <2>1
    <2>3. /\ linked \in Seq(Layer) /\ Len(linked) = Len(mem) /\ linked[i] = layer
          /\ \A j \in 1 .. Len(mem) : j # i => linked[j] = mem[j]
      BY <1>2, <2>1
    <2> QED BY <2>2, <2>3
  <1>5. EmptyLayer \in Layer /\ \A e \in Digits : EmptyLayer[e] = Null
    BY DEF EmptyLayer, Layer, Digits, Null
  <1>6. PICK more : more = Append(linked, EmptyLayer)
    OBVIOUS
  <1>7. /\ more \in Seq(Layer) /\ Len(more) = Len(mem) + 1
        /\ \A j \in 1 .. Len(mem) : more[j] = linked[j]
        /\ more[Len(mem) + 1] = EmptyLayer
    BY <1>4, <1>5, <1>6 DEF Tree
  <1>8. Grown(mem, i, d, more)
    BY <1>1, <1>3, <1>4, <1>5, <1>7 DEF Grown
  <1> QED BY <1>1, <1>4, <1>6, <1>8

LEMMA GrownTree ==
    ASSUME NEW mem, NEW depth, Tree(mem, depth), NEW i \in 1 .. Len(mem), NEW d \in Digits,
           depth[i] # Layers - 1, mem[i][d] = Null, NEW more, Grown(mem, i, d, more)
    PROVE  \E below : Tree(more, below)
  <1>1. PICK new \in Nat : new = Len(mem) + 1 /\ Len(more) = new /\ new # Null
    BY DEF Tree, Grown, Null
  <1>2. 1 .. Len(more) = (1 .. Len(mem)) \cup {new} /\ new \notin 1 .. Len(mem)
    BY <1>1 DEF Tree
  <1>3. PICK below : below = [j \in 1 .. Len(more) |-> IF j = new THEN depth[i] + 1 ELSE depth[j]]
    OBVIOUS
  <1>4. /\ below[new] = depth[i] + 1
        /\ \A j \in 1 .. Len(mem) : below[j] = depth[j]
    BY <1>2, <1>3
  <1>5. depth[i] \in Depths /\ depth[i] + 1 \in Depths /\ Layers \in Nat
    BY DigitsAssumption DEF Tree, Depths
  <1>6. below \in [1 .. Len(more) -> Depths] /\ below[1] = 0
    <2>1. \A j \in 1 .. Len(more) : (IF j = new THEN depth[i] + 1 ELSE depth[j]) \in Depths
      BY <1>2, <1>5 DEF Tree
    <2>2. 1 \in 1 .. Len(mem)
      BY DEF Tree
    <2> QED BY <1>3, <1>4, <2>1, <2>2 DEF Tree
  <1>7. Leads(more, below)
    <2> SUFFICES ASSUME NEW j \in 1 .. Len(more), NEW e \in Digits,
                        below[j] # Layers - 1, more[j][e] # Null
                 PROVE  more[j][e] \in 1 .. Len(more) /\ below[more[j][e]] = below[j] + 1
      BY DEF Leads
    <2>1. j \in 1 .. Len(mem)
      BY <1>1, <1>2 DEF Grown
    <2>2. CASE j = i /\ e = d
      BY <1>1, <1>2, <1>4, <2>1, <2>2 DEF Grown
    <2>3. CASE j # i \/ e # d
      <3>1. more[j][e] = mem[j][e]
        BY <2>1, <2>3 DEF Grown
      <3>2. mem[j][e] \in 1 .. Len(mem) /\ depth[mem[j][e]] = depth[j] + 1
        BY <1>4, <2>1, <3>1 DEF Tree, Leads
      <3> QED BY <1>2, <1>4, <2>1, <3>1, <3>2
    <2> QED BY <2>2, <2>3
  <1>8. OneParent(more, below)
    <2> SUFFICES ASSUME NEW j \in 1 .. Len(more), NEW k \in 1 .. Len(more),
                        NEW e \in Digits, NEW f \in Digits,
                        below[j] # Layers - 1, below[k] # Layers - 1,
                        more[j][e] # Null, more[j][e] = more[k][f]
                 PROVE  j = k /\ e = f
      BY DEF OneParent
    <2>1. j \in 1 .. Len(mem) /\ k \in 1 .. Len(mem)
      BY <1>1, <1>2 DEF Grown
    <2>2. depth[j] # Layers - 1 /\ depth[k] # Layers - 1
      BY <1>4, <2>1
    <2>3. ASSUME NEW m \in 1 .. Len(mem), NEW g \in Digits, depth[m] # Layers - 1,
                 m # i \/ g # d, more[m][g] # Null
          PROVE  more[m][g] = mem[m][g] /\ more[m][g] # new
      <3>1. more[m][g] = mem[m][g]
        BY <2>3 DEF Grown
      <3>2. mem[m][g] \in 1 .. Len(mem)
        BY <2>3, <3>1 DEF Tree, Leads
      <3> QED BY <1>2, <3>1, <3>2
    <2>4. more[i][d] = new
      BY <1>1 DEF Grown
    <2>5. CASE j = i /\ e = d
      BY <2>1, <2>2, <2>3, <2>4, <2>5
    <2>6. CASE k = i /\ f = d
      BY <2>1, <2>2, <2>3, <2>4, <2>6
    <2>7. CASE (j # i \/ e # d) /\ (k # i \/ f # d)
      <3>1. mem[j][e] # Null /\ mem[j][e] = mem[k][f]
        BY <2>1, <2>2, <2>3, <2>7
      <3> QED BY <2>1, <2>2, <3>1 DEF Tree, OneParent
    <2> QED BY <2>5, <2>6, <2>7
  <1> QED BY <1>1, <1>6, <1>7, <1>8 DEF Tree, Grown

\* What is found stays found, what was missing is missing or in the new layer.
SameFinds(v, w, new) ==
    \A n \in Depths : IF v[n] = Null THEN w[n] \in {Null, new} ELSE w[n] = v[n]

LEMMA GrownWay ==
    ASSUME NEW mem, NEW depth, Tree(mem, depth), NEW i \in 1 .. Len(mem), NEW d \in Digits,
           depth[i] # Layers - 1, mem[i][d] = Null, NEW more, Grown(mem, i, d, more),
           NEW id \in Ids
    PROVE  SameFinds(Way(mem, id), Way(more, id), Len(mem) + 1)
  <1>0. Layers \in Nat \ {0} /\ Depths = 0 .. Layers - 1 /\ Layers - 1 \in Nat
    BY DigitsAssumption DEF Depths
  <1>1. PICK below : Tree(more, below)
    BY GrownTree
  <1>2. PICK v : v = Way(mem, id) /\ OnWay(v, mem, depth, id)
    BY WayIs
  <1>3. PICK w : w = Way(more, id) /\ OnWay(w, more, below, id)
    BY <1>1, WayIs
  <1>4. PICK new \in Nat : new = Len(mem) + 1 /\ new # Null
    BY DEF Tree, Null
  <1> DEFINE Same(n) == IF v[n] = Null THEN w[n] \in {Null, new} ELSE w[n] = v[n]
             T == {n \in Depths : Same(n)}
  <1>5. 0 \in T
    BY <1>0, <1>2, <1>3 DEF OnWay, Null
  <1>6. ASSUME NEW n \in 1 .. Layers - 1, n - 1 \in T PROVE n \in T
    <2>1. n \in Depths /\ n - 1 \in Depths /\ n - 1 # Layers - 1
      BY <1>0
    <2>2. PICK e \in Digits : e = DigitOf(id, n - 1)
      BY <2>1, DigitTypes
    <2>3. v[n] = IF v[n - 1] = Null THEN Null ELSE mem[v[n - 1]][e]
      BY <1>2, <2>2 DEF OnWay
    <2>4. w[n] = IF w[n - 1] = Null THEN Null ELSE more[w[n - 1]][e]
      BY <1>3, <2>2 DEF OnWay
    <2>5. CASE v[n - 1] = Null
      <3>1. w[n - 1] \in {Null, new} /\ v[n] = Null
        BY <1>6, <2>3, <2>5
      <3>2. more[new][e] = Null
        BY <1>4 DEF Grown
      <3> QED BY <2>1, <2>4, <3>1, <3>2
    <2>6. CASE v[n - 1] # Null
      <3>1. PICK x \in 1 .. Len(mem) : x = v[n - 1] /\ x = w[n - 1] /\ x # Null
        BY <1>2, <1>6, <2>1, <2>6 DEF OnWay
      <3>2. CASE x = i /\ e = d
        BY <1>4, <2>1, <2>3, <2>4, <3>1, <3>2 DEF Grown
      <3>3. CASE x # i \/ e # d
        <4>1. more[x][e] = mem[x][e]
          BY <3>3 DEF Grown
        <4>2. v[n] = w[n]
          BY <2>3, <2>4, <3>1, <4>1
        <4> QED BY <2>1, <4>2
      <3> QED BY <3>2, <3>3
    <2> QED BY <2>5, <2>6
  <1>7. \A n \in 0 .. Layers - 1 : n \in T
    <2> HIDE DEF T
    <2> QED BY <1>0, <1>5, <1>6, UpTo
  <1>8. \A n \in Depths : Same(n)
    BY <1>0, <1>7
  <1> QED BY <1>2, <1>3, <1>4, <1>8 DEF SameFinds

LEMMA GrownEntry ==
    ASSUME NEW mem, NEW depth, Tree(mem, depth), NEW i \in 1 .. Len(mem), NEW d \in Digits,
           depth[i] # Layers - 1, mem[i][d] = Null, NEW more, Grown(mem, i, d, more),
           NEW id \in Ids
    PROVE  Entry(more, id) = Entry(mem, id)
  <1>0. Layers - 1 \in Depths /\ Layers - 1 \in Nat
    BY DigitsAssumption DEF Depths
  <1>1. PICK below : Tree(more, below)
    BY GrownTree
  <1>2. PICK v : v = Way(mem, id) /\ OnWay(v, mem, depth, id) /\ LastLayer(mem, id) = v[Layers - 1]
    BY WayIs
  <1>3. PICK w : w = Way(more, id) /\ LastLayer(more, id) = w[Layers - 1]
    BY <1>1, WayIs
  <1>4. SameFinds(v, w, Len(mem) + 1)
    BY <1>2, <1>3, GrownWay
  <1>5. PICK e \in Digits : e = Last(id)
    BY <1>0, DigitTypes
  <1>6. CASE v[Layers - 1] = Null
    <2>1. w[Layers - 1] \in {Null, Len(mem) + 1}
      BY <1>0, <1>4, <1>6 DEF SameFinds
    <2>2. more[Len(mem) + 1][e] = Null
      BY DEF Grown
    <2> QED BY <1>2, <1>3, <1>5, <1>6, <2>1, <2>2 DEF Entry
  <1>7. CASE v[Layers - 1] # Null
    <2>1. w[Layers - 1] = v[Layers - 1]
      BY <1>0, <1>4, <1>7 DEF SameFinds
    <2>2. PICK x \in 1 .. Len(mem) : x = v[Layers - 1] /\ x # i
      BY <1>0, <1>2, <1>7 DEF OnWay
    <2>3. more[x][e] = mem[x][e]
      BY <2>2 DEF Grown
    <2> QED BY <1>2, <1>3, <1>5, <1>7, <2>1, <2>2, <2>3 DEF Entry
  <1> QED BY <1>6, <1>7

-----------------------------------------------------------------------------
\* WithPath, digit by digit: the memory is a tree with the same entries, and
\* the walk stands on the way of id.
Walked(old, w, id, n) ==
    /\ \E depth : Tree(w.mem, depth)
    /\ w.at = Way(w.mem, id)[n] /\ w.at # Null
    /\ \A o \in Ids : Entry(w.mem, o) = Entry(old, o)
Walk == [mem : Seq(Layer), at : Nat]
WalkOn(w, id, n) ==
    LET next == w.mem[w.at][DigitOf(id, n - 1)]
        new == Len(w.mem) + 1
    IN  IF next # Null THEN [w EXCEPT !.at = next]
        ELSE [mem |-> Append([w.mem EXCEPT ![w.at][DigitOf(id, n - 1)] = new], EmptyLayer),
              at |-> new]

LEMMA WalkStep ==
    ASSUME NEW old, NEW id \in Ids, NEW n \in 1 .. Layers - 1,
           NEW w \in Walk, Walked(old, w, id, n - 1)
    PROVE  WalkOn(w, id, n) \in Walk /\ Walked(old, WalkOn(w, id, n), id, n)
  <1>0. n - 1 \in Depths /\ n \in Depths /\ n - 1 # Layers - 1 /\ Layers \in Nat
    BY DigitsAssumption DEF Depths
  <1>1. PICK mem \in Seq(Layer), at \in Nat : w = [mem |-> mem, at |-> at]
    BY DEF Walk
  <1>2. PICK depth : Tree(mem, depth)
    BY <1>1 DEF Walked
  <1>3. PICK v : v = Way(mem, id) /\ OnWay(v, mem, depth, id)
    BY <1>2, WayIs
  <1>4. at = v[n - 1] /\ at # Null /\ at \in 1 .. Len(mem) /\ depth[at] = n - 1
    BY <1>0, <1>1, <1>3 DEF Walked, OnWay
  <1>5. PICK d \in Digits : d = DigitOf(id, n - 1)
    BY <1>0, DigitTypes
  <1>6. PICK next : next = mem[at][d]
    OBVIOUS
  <1>7. v[n] = next
    BY <1>3, <1>4, <1>5, <1>6 DEF OnWay
  <1>8. \A o \in Ids : Entry(mem, o) = Entry(old, o)
    BY <1>1 DEF Walked
  <1>9. CASE next # Null
    <2>1. PICK x : x = [mem |-> mem, at |-> next]
      OBVIOUS
    <2>2. WalkOn(w, id, n) = x
      BY <1>1, <1>5, <1>6, <1>9, <2>1 DEF WalkOn
    <2>3. next \in Nat
      BY <1>0, <1>2, <1>3, <1>7, <1>9 DEF OnWay, Tree
    <2>4. x \in Walk /\ x.mem = mem /\ x.at = next
      BY <2>1, <2>3 DEF Walk
    <2>5. Walked(old, x, id, n)
      BY <1>2, <1>3, <1>7, <1>8, <1>9, <2>4 DEF Walked
    <2> QED BY <2>2, <2>4, <2>5
  <1>10. CASE next = Null
    <2>1. PICK new \in Nat : new = Len(mem) + 1 /\ new # Null
      BY <1>2 DEF Tree, Null
    <2>2. PICK more : more = Append([mem EXCEPT ![at][d] = new], EmptyLayer)
      OBVIOUS
    <2>3. Grown(mem, at, d, more)
      BY <1>2, <1>4, <2>1, <2>2, AppendGrows
    <2>4. PICK x : x = [mem |-> more, at |-> new]
      OBVIOUS
    <2>5. WalkOn(w, id, n) = x
      BY <1>1, <1>5, <1>6, <1>10, <2>1, <2>2, <2>4 DEF WalkOn
    <2>6. x \in Walk /\ x.mem = more /\ x.at = new
      BY <2>1, <2>3, <2>4 DEF Walk, Grown
    <2>7. depth[at] # Layers - 1 /\ mem[at][d] = Null
      BY <1>0, <1>4, <1>6, <1>10
    <2>8. PICK below : Tree(more, below)
      BY <1>2, <1>4, <2>3, <2>7, GrownTree
    <2>9. \A o \in Ids : Entry(more, o) = Entry(old, o)
      BY <1>2, <1>4, <1>8, <2>3, <2>7, GrownEntry
    <2>10. PICK u : u = Way(more, id) /\ OnWay(u, more, below, id)
      BY <2>8, WayIs
    <2>11. u[n - 1] = at
      <3>1. SameFinds(v, u, Len(mem) + 1)
        BY <1>2, <1>3, <1>4, <2>3, <2>7, <2>10, GrownWay
      <3> QED BY <1>0, <1>4, <3>1 DEF SameFinds
    <2>12. u[n] = new
      BY <1>4, <1>5, <2>1, <2>3, <2>10, <2>11 DEF OnWay, Grown
    <2>13. Walked(old, x, id, n)
      BY <2>1, <2>6, <2>8, <2>9, <2>10, <2>12 DEF Walked
    <2> QED BY <2>5, <2>6, <2>13
  <1> QED BY <1>9, <1>10

Passes(f, old, id) ==
    f = [n \in 0 .. Layers - 1 |->
            IF n = 0 THEN [mem |-> old, at |-> 1] ELSE WalkOn(f[n - 1], id, n)]

LEMMA PathMade ==
    ASSUME NEW old, NEW depth, Tree(old, depth), NEW id \in Ids
    PROVE  WithPath(old, id) \in Walk /\ Walked(old, WithPath(old, id), id, Layers - 1)
  <1>0. Layers - 1 \in Nat /\ Layers \in Nat /\ Depths = 0 .. Layers - 1
    BY DigitsAssumption DEF Depths
  <1> DEFINE Good(n) == {w \in Walk : Walked(old, w, id, n)}
  <1>1. PICK start : start = [mem |-> old, at |-> 1]
    OBVIOUS
  <1>2. start \in Good(0)
    <2>1. start \in Walk /\ start.mem = old /\ start.at = 1
      BY <1>1 DEF Walk, Tree
    <2>2. Way(old, id)[0] = 1
      BY WayIs DEF OnWay
    <2>3. Walked(old, start, id, 0)
      BY <2>1, <2>2 DEF Walked, Null
    <2> QED BY <2>1, <2>3
  <1>3. ASSUME NEW n \in 1 .. Layers - 1, NEW w \in Good(n - 1) PROVE WalkOn(w, id, n) \in Good(n)
    BY WalkStep
  <1> HIDE DEF Good
  <1>4. \E f : Passes(f, old, id)
    <2>1. PICK X : X = [n \in Depths |-> Good(n)]
      OBVIOUS
    <2>2. PICK step : step = [n \in 1 .. Layers - 1 |->
                                [w \in Good(n - 1) |-> WalkOn(w, id, n)]]
      OBVIOUS
    <2>3. \A n \in 1 .. Layers - 1 : \A w \in Good(n - 1) : step[n][w] = WalkOn(w, id, n)
      BY <2>2
    <2>4. X[0] = Good(0) /\ \A n \in 1 .. Layers - 1 : X[n] = Good(n) /\ X[n - 1] = Good(n - 1)
      BY <1>0, <2>1
    <2>5. /\ start \in X[0]
          /\ \A n \in 1 .. Layers - 1 : \A w \in X[n - 1] : step[n][w] \in X[n]
      BY <1>2, <1>3, <2>3, <2>4
    <2>6. PICK f : Recursive(f, Layers - 1, start, step)
                   /\ \A n \in 0 .. Layers - 1 : f[n] \in X[n]
      BY <1>0, <2>5, Recursion
    <2>7. \A n \in 1 .. Layers - 1 : f[n - 1] \in Good(n - 1)
      <3>1. \A n \in 1 .. Layers - 1 : n - 1 \in 0 .. Layers - 1
        BY <1>0
      <3> QED BY <2>4, <2>6, <3>1
    <2>8. \A n \in 1 .. Layers - 1 : step[n][f[n - 1]] = WalkOn(f[n - 1], id, n)
      BY <2>3, <2>7
    <2>9. PICK g : g = [n \in 0 .. Layers - 1 |-> IF n = 0 THEN start ELSE WalkOn(f[n - 1], id, n)]
      OBVIOUS
    <2>10. f = [n \in 0 .. Layers - 1 |-> IF n = 0 THEN start ELSE step[n][f[n - 1]]]
      BY <2>6 DEF Recursive
    <2>11. f = g
      BY <1>0, <2>8, <2>9, <2>10
    <2> QED BY <1>1, <2>9, <2>11 DEF Passes
  <1> DEFINE walk == CHOOSE f : Passes(f, old, id)
  <1>5. Passes(walk, old, id)
    BY <1>4, Zenon
  <1>6. WithPath(old, id) = walk[Layers - 1]
    BY DEF WithPath, Passes, WalkOn
  <1> HIDE DEF walk
  <1>7. \A n \in 0 .. Layers - 1 :
            walk[n] = IF n = 0 THEN start ELSE WalkOn(walk[n - 1], id, n)
    BY <1>1, <1>5 DEF Passes
  <1> DEFINE T == {n \in Depths : walk[n] \in Good(n)}
  <1>8. 0 \in T
    BY <1>0, <1>2, <1>7
  <1>9. ASSUME NEW n \in 1 .. Layers - 1, n - 1 \in T PROVE n \in T
    BY <1>0, <1>3, <1>7, <1>9
  <1>10. Layers - 1 \in T
    <2>1. \A n \in 0 .. Layers - 1 : n \in T
      <3> HIDE DEF T
      <3> QED BY <1>0, <1>8, <1>9, UpTo
    <2> QED BY <1>0, <2>1
  <1> QED BY <1>6, <1>10 DEF Good

-----------------------------------------------------------------------------
\* An entry of a last layer is set: no walk changes, and only the number that
\* has the entry finds the new value.

With(mem, q, d, v) == [mem EXCEPT ![q][d] = v]
Changed(mem, depth, q, d, v, more) ==
    /\ Tree(more, depth) /\ Len(more) = Len(mem) /\ more[q][d] = v
    /\ \A j \in 1 .. Len(mem), e \in Digits : j # q \/ e # d => more[j][e] = mem[j][e]

LEMMA EntrySet ==
    ASSUME NEW mem, NEW depth, Tree(mem, depth), NEW q \in 1 .. Len(mem),
           depth[q] = Layers - 1, NEW d \in Digits, NEW v \in Nat,
           NEW more, more = With(mem, q, d, v)
    PROVE  Changed(mem, depth, q, d, v, more)
  <1>1. mem \in Seq(Layer) /\ mem[q] \in Layer
    BY DEF Tree
  <1>2. PICK layer \in Layer :
            /\ layer = [mem[q] EXCEPT ![d] = v]
            /\ layer[d] = v /\ \A e \in Digits : e # d => layer[e] = mem[q][e]
    <2>1. [mem[q] EXCEPT ![d] = v] \in Layer
      BY <1>1 DEF Layer
    <2>2. PICK layer \in Layer : layer = [mem[q] EXCEPT ![d] = v]
      BY <2>1
    <2> QED BY <1>1, <2>2 DEF Layer
  <1>3. more = [mem EXCEPT ![q] = layer]
    BY <1>2 DEF With
  <1>5. /\ more \in Seq(Layer) /\ Len(more) = Len(mem) /\ more[q] = layer
        /\ \A j \in 1 .. Len(mem) : j # q => more[j] = mem[j]
    BY <1>1, <1>3
  <1>6. \A j \in 1 .. Len(mem), e \in Digits : j # q \/ e # d => more[j][e] = mem[j][e]
    BY <1>2, <1>5
  <1>7. \A j \in 1 .. Len(mem), e \in Digits :
            depth[j] # Layers - 1 => more[j][e] = mem[j][e]
    BY <1>6
  <1>8. Leads(more, depth)
    BY <1>5, <1>7 DEF Tree, Leads
  <1>9. OneParent(more, depth)
    BY <1>5, <1>7 DEF Tree, OneParent
  <1>10. Tree(more, depth)
    BY <1>5, <1>8, <1>9 DEF Tree
  <1> QED BY <1>2, <1>5, <1>6, <1>10 DEF Changed

LEMMA SetKeepsWays ==
    ASSUME NEW mem, NEW more, NEW depth, Tree(mem, depth), Tree(more, depth),
           \A j \in 1 .. Len(mem), e \in Digits :
                depth[j] # Layers - 1 => more[j][e] = mem[j][e],
           NEW id \in Ids
    PROVE  LastLayer(more, id) = LastLayer(mem, id)
  <1>0. Layers \in Nat \ {0} /\ Depths = 0 .. Layers - 1 /\ Layers - 1 \in Nat
    BY DigitsAssumption DEF Depths
  <1>1. PICK v : /\ v = Way(mem, id) /\ OnWay(v, mem, depth, id)
                 /\ LastLayer(mem, id) = v[Layers - 1]
    BY WayIs
  <1>2. PICK w : /\ w = Way(more, id) /\ OnWay(w, more, depth, id)
                 /\ LastLayer(more, id) = w[Layers - 1]
    BY WayIs
  <1> DEFINE T == {n \in Depths : v[n] = w[n]}
  <1>3. 0 \in T
    BY <1>0, <1>1, <1>2 DEF OnWay
  <1>4. ASSUME NEW n \in 1 .. Layers - 1, n - 1 \in T PROVE n \in T
    <2>1. n \in Depths /\ n - 1 \in Depths /\ n - 1 # Layers - 1 /\ v[n - 1] = w[n - 1]
      BY <1>0, <1>4
    <2>2. PICK e \in Digits : e = DigitOf(id, n - 1)
      BY <2>1, DigitTypes
    <2>3. v[n - 1] # Null => more[v[n - 1]][e] = mem[v[n - 1]][e]
      BY <1>1, <2>1 DEF OnWay
    <2> QED BY <1>1, <1>2, <2>1, <2>2, <2>3 DEF OnWay
  <1>5. Layers - 1 \in T
    <2>1. \A n \in 0 .. Layers - 1 : n \in T
      <3> HIDE DEF T
      <3> QED BY <1>0, <1>3, <1>4, UpTo
    <2> QED BY <1>0, <2>1
  <1> QED BY <1>1, <1>2, <1>5

EntryIs(more, mem, id, v) ==
    /\ \E depth : Tree(more, depth)
    /\ Entry(more, id) = v
    /\ \A other \in Ids : other # id => Entry(more, other) = Entry(mem, other)

LEMMA SetEntry ==
    ASSUME NEW mem, NEW depth, Tree(mem, depth), NEW id \in Ids, LastLayer(mem, id) # Null,
           NEW v \in Nat, NEW more, more = With(mem, LastLayer(mem, id), Last(id), v)
    PROVE  EntryIs(more, mem, id, v)
  <1>0. Layers - 1 \in Depths
    BY DigitsAssumption DEF Depths
  <1>1. PICK q \in 1 .. Len(mem) : q = LastLayer(mem, id) /\ depth[q] = Layers - 1
    BY <1>0, WayIs DEF OnWay
  <1>2. PICK d \in Digits : d = Last(id)
    BY <1>0, DigitTypes
  <1>3. /\ Tree(more, depth) /\ Len(more) = Len(mem) /\ more[q][d] = v
        /\ \A j \in 1 .. Len(mem), e \in Digits :
                j # q \/ e # d => more[j][e] = mem[j][e]
    <2>1. more = With(mem, q, d, v)
      BY <1>1, <1>2
    <2>2. Changed(mem, depth, q, d, v, more)
      BY <1>1, <2>1, EntrySet
    <2> QED BY <2>2 DEF Changed
  <1>4. \A other \in Ids : LastLayer(more, other) = LastLayer(mem, other)
    <2>1. \A j \in 1 .. Len(mem), e \in Digits :
            depth[j] # Layers - 1 => more[j][e] = mem[j][e]
      BY <1>1, <1>3
    <2> QED BY <1>3, <2>1, SetKeepsWays
  <1>5. Entry(more, id) = v
    BY <1>1, <1>2, <1>3, <1>4 DEF Entry
  <1>6. ASSUME NEW other \in Ids, other # id PROVE Entry(more, other) = Entry(mem, other)
    <2>1. CASE LastLayer(mem, other) = Null
      BY <1>4, <2>1 DEF Entry
    <2>2. CASE LastLayer(mem, other) # Null
      <3>1. PICK x \in 1 .. Len(mem) : x = LastLayer(mem, other)
        BY <1>0, <2>2, WayIs DEF OnWay
      <3>2. PICK e \in Digits : e = Last(other)
        BY <1>0, DigitTypes
      <3>3. x # q \/ e # d
        BY <1>1, <1>2, <1>6, <3>1, <3>2, SameEntry
      <3>4. more[x][e] = mem[x][e]
        BY <1>3, <3>3
      <3> QED BY <1>4, <3>1, <3>2, <3>4 DEF Entry
    <2> QED BY <2>1, <2>2
  <1> QED BY <1>1, <1>2, <1>3, <1>5, <1>6 DEF EntryIs

-----------------------------------------------------------------------------
\* The invariant, and what a step makes of the table.

Copy == [text : Texts, live : BOOLEAN]
Kept(mem, all) ==
    /\ \E depth : Tree(mem, depth)
    /\ all \in Seq(Copy)
    /\ \A id \in Ids : Entry(mem, id) \in 0 .. Len(all)
    /\ \A id \in Ids : Entry(mem, id) # Null => all[Entry(mem, id)].live
    /\ \A id, other \in Ids : id # other /\ Entry(mem, id) # Null =>
            Entry(mem, id) # Entry(mem, other)
Found(mem, all, id) == IF Entry(mem, id) = Null THEN NoText ELSE all[Entry(mem, id)].text
MapInv == Kept(layers, copies) /\ client \in [Clients -> Texts \cup {NoText}]

\* The table after a step in which id is set to text.
Stands(mem, all, more, now, id, text) ==
    /\ Kept(more, now)
    /\ Found(more, now, id) = text
    /\ \A other \in Ids : other # id => Found(more, now, other) = Found(mem, all, other)

LEMMA InsertStands ==
    ASSUME NEW mem, NEW all, Kept(mem, all), NEW text \in Texts,
           NEW id, id = hashString(text),
           NEW now, now = Append(all, [text |-> text, live |-> TRUE]),
           NEW more, more = With(WithPath(mem, id).mem, WithPath(mem, id).at, Last(id), Len(now))
    PROVE  Stands(mem, all, more, now, id, text)
  <1>0. Layers - 1 \in Depths /\ id \in Ids
    BY DigitsAssumption, HashInIds DEF Depths
  <1>1. PICK path \in Walk : path = WithPath(mem, id) /\ Walked(mem, path, id, Layers - 1)
    BY <1>0, PathMade DEF Kept
  <1>2. PICK depth : Tree(path.mem, depth)
    BY <1>1 DEF Walked
  <1>3. path.at = LastLayer(path.mem, id) /\ LastLayer(path.mem, id) # Null
    BY <1>0, <1>1, <1>2, WayIs DEF Walked
  <1>4. PICK m \in Nat : m = Len(all)
    BY DEF Kept
  <1>5. PICK copy \in Copy : copy = [text |-> text, live |-> TRUE]
                             /\ copy.text = text /\ copy.live
    <2>1. [text |-> text, live |-> TRUE] \in Copy
      BY DEF Copy
    <2> QED BY <2>1
  <1>6. /\ now \in Seq(Copy) /\ Len(now) = m + 1 /\ now[m + 1] = copy
        /\ \A k \in 1 .. m : now[k] = all[k]
    BY <1>4, <1>5 DEF Kept
  <1>7. EntryIs(more, path.mem, id, m + 1)
    <2>1. m + 1 \in Nat /\ m + 1 = Len(now)
      BY <1>6
    <2>2. more = With(path.mem, LastLayer(path.mem, id), Last(id), m + 1)
      BY <1>1, <1>3, <2>1
    <2> QED BY <1>0, <1>2, <1>3, <2>1, <2>2, SetEntry
  <1>8. \A other \in Ids :
            Entry(more, other) = IF other = id THEN m + 1 ELSE Entry(mem, other)
    BY <1>1, <1>7 DEF EntryIs, Walked
  <1>9. \A other \in Ids : Entry(mem, other) \in 0 .. m
    BY <1>4 DEF Kept
  <1>10. Kept(more, now)
    <2>1. \E below : Tree(more, below)
      BY <1>7 DEF EntryIs
    <2>2. \A other \in Ids : Entry(more, other) \in 0 .. Len(now)
      BY <1>6, <1>8, <1>9
    <2>3. ASSUME NEW other \in Ids, Entry(more, other) # Null
          PROVE  now[Entry(more, other)].live
      <3>1. CASE other = id
        BY <1>5, <1>6, <1>8, <3>1
      <3>2. CASE other # id
        <4>1. PICK k \in 1 .. m : k = Entry(mem, other) /\ k = Entry(more, other) /\ k # Null
          BY <1>8, <1>9, <2>3, <3>2 DEF Null
        <4> QED BY <1>6, <4>1 DEF Kept
      <3> QED BY <3>1, <3>2
    <2>4. ASSUME NEW o \in Ids, NEW other \in Ids, o # other, Entry(more, o) # Null
          PROVE  Entry(more, o) # Entry(more, other)
      <3>1. Entry(mem, o) # m + 1 /\ Entry(mem, other) # m + 1
        BY <1>9
      <3>2. CASE o = id \/ other = id
        BY <1>8, <2>4, <3>1, <3>2
      <3>3. CASE o # id /\ other # id
        BY <1>8, <2>4, <3>3 DEF Kept
      <3> QED BY <3>2, <3>3
    <2> QED BY <1>6, <2>1, <2>2, <2>3, <2>4 DEF Kept
  <1>11. Found(more, now, id) = text
    BY <1>0, <1>4, <1>5, <1>6, <1>8 DEF Found, Null
  <1>12. ASSUME NEW other \in Ids, other # id
         PROVE  Found(more, now, other) = Found(mem, all, other)
    <2>1. PICK k \in 0 .. m : k = Entry(mem, other) /\ k = Entry(more, other)
      BY <1>8, <1>9, <1>12
    <2>2. k # Null => now[k] = all[k]
      BY <1>6 DEF Null
    <2> QED BY <2>1, <2>2 DEF Found
  <1> QED BY <1>10, <1>11, <1>12 DEF Stands

Forgotten(all, c) == IF c = Null THEN all ELSE [all EXCEPT ![c].live = FALSE]

LEMMA DiscardStands ==
    ASSUME NEW mem, NEW all, Kept(mem, all), NEW id \in Ids,
           NEW now, now = Forgotten(all, Entry(mem, id)),
           NEW more, more = IF LastLayer(mem, id) = Null THEN mem
                            ELSE With(mem, LastLayer(mem, id), Last(id), Null)
    PROVE  Stands(mem, all, more, now, id, NoText)
  <1>1. PICK c \in 0 .. Len(all) : c = Entry(mem, id)
    BY DEF Kept
  <1>2. PICK depth : Tree(mem, depth)
    BY DEF Kept
  <1>3. EntryIs(more, mem, id, Null)
    <2>1. CASE LastLayer(mem, id) = Null
      BY <1>2, <2>1 DEF EntryIs, Entry
    <2>2. CASE LastLayer(mem, id) # Null
      <3>1. more = With(mem, LastLayer(mem, id), Last(id), Null) /\ Null \in Nat
        BY <2>2 DEF Null
      <3> QED BY <1>2, <2>2, <3>1, SetEntry
    <2> QED BY <2>1, <2>2
  <1>4. /\ now \in Seq(Copy) /\ Len(now) = Len(all)
        /\ \A k \in 1 .. Len(all) : /\ now[k].text = all[k].text
                                    /\ k # c => now[k] = all[k]
    <2>1. all \in Seq(Copy)
      BY DEF Kept
    <2>2. CASE c = Null
      BY <1>1, <2>1, <2>2 DEF Forgotten
    <2>3. CASE c # Null
      <3>1. c \in 1 .. Len(all) /\ all[c] \in Copy
        BY <1>1, <2>1, <2>3 DEF Null
      <3>2. PICK dead \in Copy : dead = [all[c] EXCEPT !.live = FALSE]
                                 /\ dead.text = all[c].text
        <4>1. [all[c] EXCEPT !.live = FALSE] \in Copy
          BY <3>1 DEF Copy
        <4>2. PICK dead \in Copy : dead = [all[c] EXCEPT !.live = FALSE]
          BY <4>1
        <4>3. dead.text = all[c].text
          BY <3>1, <4>2 DEF Copy
        <4> QED BY <4>2, <4>3
      <3>3. now = [all EXCEPT ![c] = dead]
        BY <1>1, <2>3, <3>2 DEF Forgotten
      <3>4. /\ now \in Seq(Copy) /\ Len(now) = Len(all) /\ now[c] = dead
            /\ \A k \in 1 .. Len(all) : k # c => now[k] = all[k]
        BY <2>1, <3>1, <3>3
      <3>5. dead.text = all[c].text
        BY <3>2
      <3>6. \A k \in 1 .. Len(all) : now[k].text = all[k].text
        BY <3>4, <3>5
      <3> QED BY <3>4, <3>6
    <2> QED BY <2>2, <2>3
  <1>5. \A other \in Ids : Entry(more, other) = IF other = id THEN Null ELSE Entry(mem, other)
    BY <1>3 DEF EntryIs
  <1>6. ASSUME NEW other \in Ids, other # id, Entry(mem, other) # Null
        PROVE  Entry(mem, other) \in 1 .. Len(all) /\ Entry(mem, other) # c
    <2>1. Entry(mem, other) \in 0 .. Len(all)
      BY DEF Kept
    <2>2. Entry(mem, other) # c
      BY <1>1, <1>6 DEF Kept
    <2> QED BY <1>6, <2>1, <2>2 DEF Null
  <1>7. Kept(more, now)
    <2>1. \E below : Tree(more, below)
      BY <1>3 DEF EntryIs
    <2>2. \A other \in Ids : Entry(more, other) \in 0 .. Len(now)
      <3>1. Null \in 0 .. Len(now)
        BY <1>1, <1>4 DEF Null
      <3> QED BY <1>4, <1>5, <3>1 DEF Kept
    <2>3. \A other \in Ids : Entry(more, other) # Null => now[Entry(more, other)].live
      BY <1>4, <1>5, <1>6 DEF Kept
    <2>4. \A o, other \in Ids : o # other /\ Entry(more, o) # Null =>
            Entry(more, o) # Entry(more, other)
      BY <1>5 DEF Kept
    <2> QED BY <1>4, <2>1, <2>2, <2>3, <2>4 DEF Kept
  <1>8. Found(more, now, id) = NoText
    BY <1>5 DEF Found
  <1>9. ASSUME NEW other \in Ids, other # id
        PROVE  Found(more, now, other) = Found(mem, all, other)
    BY <1>4, <1>5, <1>6, <1>9 DEF Found
  <1> QED BY <1>7, <1>8, <1>9 DEF Stands

-----------------------------------------------------------------------------
\* The tree that has only its root finds nothing.
LEMMA RootTree ==
    ASSUME NEW mem, mem = <<EmptyLayer>>
    PROVE  (\E depth : Tree(mem, depth)) /\ \A id \in Ids : Entry(mem, id) = Null
  <1>0. Layers \in Nat \ {0} /\ Depths = 0 .. Layers - 1 /\ Layers - 1 \in Nat
    BY DigitsAssumption DEF Depths
  <1>1. EmptyLayer \in Layer /\ \A e \in Digits : EmptyLayer[e] = Null
    BY DEF EmptyLayer, Layer, Digits, Null
  <1>2. mem \in Seq(Layer) /\ Len(mem) = 1 /\ mem[1] = EmptyLayer /\ 1 .. Len(mem) = {1}
    BY <1>1
  <1>3. PICK depth : depth = [j \in 1 .. Len(mem) |-> 0]
    OBVIOUS
  <1>4. Tree(mem, depth)
    <2>1. Leads(mem, depth) /\ OneParent(mem, depth)
      BY <1>1, <1>2 DEF Leads, OneParent
    <2> QED BY <1>0, <1>2, <1>3, <2>1 DEF Tree
  <1>5. ASSUME NEW id \in Ids PROVE Entry(mem, id) = Null
    <2>1. PICK v : /\ v = Way(mem, id) /\ OnWay(v, mem, depth, id)
                   /\ LastLayer(mem, id) = v[Layers - 1]
      BY <1>4, WayIs
    <2>2. v[Layers - 1] = Null \/ v[Layers - 1] = 1
      BY <1>0, <1>2, <2>1 DEF OnWay
    <2>3. PICK e \in Digits : e = Last(id)
      BY <1>0, DigitTypes
    <2> QED BY <1>1, <1>2, <2>1, <2>2, <2>3 DEF Entry
  <1> QED BY <1>4, <1>5

LEMMA MapInitInv == MapInit => MapInv /\ Table!Init
  <1> SUFFICES ASSUME MapInit PROVE MapInv /\ Table!Init
    OBVIOUS
  <1>1. /\ layers = <<EmptyLayer>> /\ copies = <<>>
        /\ client = [c \in Clients |-> NoText]
    BY DEF MapInit
  <1>2. (\E depth : Tree(layers, depth)) /\ \A id \in Ids : Entry(layers, id) = Null
    BY <1>1, RootTree
  <1>3. copies \in Seq(Copy) /\ Len(copies) = 0 /\ Null \in 0 .. Len(copies)
    BY <1>1 DEF Null
  <1>4. Kept(layers, copies)
    BY <1>2, <1>3 DEF Kept
  <1>5. client \in [Clients -> Texts \cup {NoText}]
    BY <1>1
  <1>6. \A id \in Ids : TextOf(retrieveString(id)) = NoText
    BY <1>2 DEF retrieveString, TextOf
  <1> QED BY <1>4, <1>5, <1>6 DEF MapInv, Table!Init, AsTable

\* What the table is after a step that sets one number.
LEMMA TableSet ==
    ASSUME NEW id \in Ids, NEW text,
           Stands(layers, copies, layers', copies', id, text)
    PROVE  AsTable' = [AsTable EXCEPT ![id] = text]
  <1>1. /\ Found(layers', copies', id) = text
        /\ \A other \in Ids : other # id =>
                Found(layers', copies', other) = Found(layers, copies, other)
    BY DEF Stands
  <1>2. AsTable = [other \in Ids |-> Found(layers, copies, other)]
    BY DEF AsTable, TextOf, retrieveString, Found
  <1>3. AsTable' = [other \in Ids |-> Found(layers', copies', other)]
    BY DEF AsTable, TextOf, retrieveString, Found
  <1> QED BY <1>1, <1>2, <1>3

LEMMA InsertString_Table ==
    ASSUME MapInv, NEW c \in Clients, NEW text \in Texts, InsertString(c, text)
    PROVE  MapInv' /\ Table!Insert(text)
  <1>1. PICK id \in Ids : id = hashString(text)
    BY HashInIds
  <1>2. /\ copies' = Append(copies, [text |-> text, live |-> TRUE])
        /\ layers' = With(WithPath(layers, id).mem, WithPath(layers, id).at, Last(id), Len(copies'))
        /\ client' = [client EXCEPT ![c] = text]
    BY <1>1 DEF InsertString, With
  <1>3. Stands(layers, copies, layers', copies', id, text)
    BY <1>1, <1>2, InsertStands DEF MapInv
  <1>4. MapInv'
    BY <1>2, <1>3 DEF MapInv, Stands
  <1> QED BY <1>1, <1>3, <1>4, TableSet DEF Table!Insert

LEMMA DiscardString_Table ==
    ASSUME MapInv, NEW c \in Clients, DiscardString(c)
    PROVE  MapInv' /\ \E id \in Ids : Table!Discard(id)
  <1>1. client[c] \in Texts
    BY DEF MapInv, DiscardString
  <1>2. PICK id \in Ids : id = hashString(client[c])
    BY <1>1, HashInIds
  <1>3. /\ copies' = Forgotten(copies, Entry(layers, id))
        /\ layers' = IF LastLayer(layers, id) = Null THEN layers
                     ELSE With(layers, LastLayer(layers, id), Last(id), Null)
        /\ client' = [client EXCEPT ![c] = NoText]
    BY <1>2 DEF DiscardString, With, Forgotten, retrieveString
  <1>4. Stands(layers, copies, layers', copies', id, NoText)
    BY <1>3, DiscardStands DEF MapInv
  <1>5. MapInv'
    BY <1>3, <1>4 DEF MapInv, Stands
  <1> QED BY <1>4, <1>5, TableSet DEF Table!Discard

LEMMA MapStep == MapInv /\ [MapNext]_mapVars => MapInv' /\ [Table!Next]_AsTable
  <1> SUFFICES ASSUME MapInv, [MapNext]_mapVars PROVE MapInv' /\ [Table!Next]_AsTable
    OBVIOUS
  <1>1. CASE UNCHANGED mapVars
    BY <1>1 DEF mapVars, MapInv, AsTable, TextOf, retrieveString
  <1>2. ASSUME NEW c \in Clients, NEW text \in Texts, InsertString(c, text)
        PROVE  MapInv' /\ [Table!Next]_AsTable
    BY <1>2, InsertString_Table DEF Table!Next
  <1>3. ASSUME NEW c \in Clients, DiscardString(c) PROVE MapInv' /\ [Table!Next]_AsTable
    BY <1>3, DiscardString_Table DEF Table!Next
  <1> QED BY <1>1, <1>2, <1>3 DEF MapNext

\* The layers stay a tree whose entries lead to copies that are in use.
THEOREM MapInvariant == MapSpec => []MapInv
  BY MapInitInv, MapStep, PTL DEF MapSpec

\* insertString and discardString are the Insert and Discard of a table from
\* hashes to texts, and no entry of the tree points at a copy that was freed or
\* at the copy of another entry, however many digits their hashes share.
THEOREM MapIsTable == MapSpec => StringMapIsTable
  <1>1. MapInv => EntriesLive
    BY DEF MapInv, Kept, EntriesLive, retrieveString
  <1>2. MapSpec => []EntriesLive
    BY MapInvariant, <1>1, PTL
  <1>3. MapSpec => Table!Spec
    BY MapInvariant, MapInitInv, MapStep, PTL DEF MapSpec, Table!Spec
  <1> QED BY <1>2, <1>3, PTL DEF StringMapIsTable

-----------------------------------------------------------------------------
\* Lists: the cells that the loops visit form a path without repetition.

CellsTyped == cell \in [Cells -> [next : Cells \cup {NoCell}, data : Values \cup {NoCell}]]
Path(s, first, c) ==
    /\ s \in Seq(Cells)
    /\ first = IF s = <<>> THEN NoCell ELSE s[1]
    /\ \A i \in 1 .. Len(s) : c[s[i]].next = IF i = Len(s) THEN NoCell ELSE s[i + 1]
    /\ \A i, j \in 1 .. Len(s) : s[i] = s[j] => i = j
Accounted(s, cells, lost) ==
    /\ cells \in SUBSET Cells /\ lost \in Nat
    /\ \A i \in 1 .. Len(s) : s[i] \in cells
    /\ Cardinality(cells) = Len(s) + lost
ListInv ==
    /\ CellsTyped
    /\ \E s : Path(s, list, cell) /\ Accounted(s, used, cleared)

\* A path is no longer than there are cells.
LEMMA PathBounded ==
    ASSUME NEW s, NEW first, NEW c, Path(s, first, c)
    PROVE  /\ Len(s) \in Nat /\ Cardinality(Cells) \in Nat
           /\ Len(s) <= Cardinality(Cells)
  <1>1. s \in Injection(1 .. Len(s), Cells) /\ Len(s) \in Nat
    BY DEF Path, Injection, IsInjective
  <1>2. Cardinality(1 .. Len(s)) <= Cardinality(Cells)
    BY <1>1, CellsAssumption, FS_Injection
  <1>3. Cardinality(1 .. Len(s)) = Len(s)
    <2>1. PICK n \in Int : n = Len(s) /\ n >= 0 /\ 1 \in Int
      BY <1>1
    <2>2. Cardinality(1 .. n) = IF 1 > n THEN 0 ELSE n - 1 + 1
      BY <2>1, FS_Interval
    <2> QED BY <2>1, <2>2
  <1> QED BY <1>1, <1>2, <1>3, CellsAssumption, FS_CardinalityType

\* The beginning of a path that the walk has after n steps.
Visited(s, n) == [i \in 1 .. (IF n < Len(s) THEN n + 1 ELSE Len(s)) |-> s[i]]
NextOf(first, n, v) ==
    IF n = 0 THEN IF first = NoCell THEN <<>> ELSE <<first>>
    ELSE IF Len(v) < n \/ cell[v[n]].next = NoCell THEN v ELSE Append(v, cell[v[n]].next)

LEMMA VisitsNext ==
    ASSUME NEW s, Path(s, list, cell), NEW n \in Nat \ {0}
    PROVE  NextOf(list, n, Visited(s, n - 1)) = Visited(s, n)
  <1>1. s \in Seq(Cells) /\ Len(s) \in Nat
    BY DEF Path
  <1>2. PICK v : v = Visited(s, n - 1)
    OBVIOUS
  <1>3. CASE n > Len(s)
    <2>1. v = [i \in 1 .. Len(s) |-> s[i]] /\ Visited(s, n) = [i \in 1 .. Len(s) |-> s[i]]
      BY <1>1, <1>2, <1>3 DEF Visited
    <2>2. Len(v) = Len(s)
      BY <1>1, <2>1
    <2> QED BY <1>1, <1>2, <1>3, <2>1, <2>2 DEF NextOf
  <1>4. CASE n <= Len(s)
    <2>1. /\ v \in Seq(Cells) /\ Len(v) = n
          /\ \A i \in 1 .. n : v[i] = s[i]
      BY <1>1, <1>2, <1>4 DEF Visited
    <2>2. n \in 1 .. Len(s) /\ v[n] = s[n] /\ s[n] \in Cells
      BY <1>1, <1>4, <2>1
    <2>3. CASE n = Len(s)
      <3>1. cell[v[n]].next = NoCell
        BY <2>2, <2>3 DEF Path
      <3>2. Visited(s, n) = v
        BY <1>1, <1>2, <2>3 DEF Visited
      <3> QED BY <1>2, <3>1, <3>2 DEF NextOf
    <2>4. CASE n # Len(s)
      <3>1. n + 1 \in 1 .. Len(s) /\ cell[v[n]].next = s[n + 1] /\ s[n + 1] \in Cells
        BY <1>1, <2>2, <2>4 DEF Path
      <3>2. s[n + 1] # NoCell
        BY <3>1, CellsAssumption DEF NoCell
      <3>3. Visited(s, n) = Append(v, s[n + 1])
        <4>1. n < Len(s) /\ Visited(s, n) = [i \in 1 .. n + 1 |-> s[i]]
          BY <1>1, <1>4, <2>4 DEF Visited
        <4>2. /\ Append(v, s[n + 1]) = [i \in 1 .. n + 1 |-> IF i = n + 1 THEN s[n + 1] ELSE v[i]]
          BY <2>1, <3>1
        <4> QED BY <2>1, <4>1, <4>2
      <3> QED BY <1>2, <2>1, <3>1, <3>2, <3>3 DEF NextOf
    <2> QED BY <2>3, <2>4
  <1> QED BY <1>1, <1>3, <1>4

LEMMA VisitsFirst ==
    ASSUME NEW s, Path(s, list, cell), NEW v
    PROVE  NextOf(list, 0, v) = Visited(s, 0)
  <1>1. s \in Seq(Cells) /\ Len(s) \in Nat
    BY DEF Path
  <1>2. CASE s = <<>>
    BY <1>1, <1>2 DEF Path, NextOf, Visited
  <1>3. CASE s # <<>>
    <2>1. 1 \in 1 .. Len(s) /\ s[1] \in Cells /\ list = s[1] /\ list # NoCell
      BY <1>1, <1>3, CellsAssumption DEF Path, NoCell
    <2>2. Visited(s, 0) = <<s[1]>>
      BY <1>1, <2>1 DEF Visited
    <2> QED BY <2>1, <2>2 DEF NextOf
  <1> QED BY <1>2, <1>3

\* The loops of the list functions visit the cells of the path.
PathsVisited == \A s : Path(s, list, cell) => From(list) = s
LEMMA VisitsPath == PathsVisited
  <1>1. SUFFICES ASSUME NEW s, Path(s, list, cell) PROVE From(list) = s
    BY DEF PathsVisited
  <1>2. PICK N \in Nat : N = Cardinality(Cells) /\ Len(s) <= N /\ Len(s) \in Nat
    BY <1>1, PathBounded
  <1> DEFINE Visits(f) == f = [n \in 0 .. N |-> NextOf(list, n, f[n - 1])]
  <1>3. \E f : Visits(f)
    <2>1. PICK f : f = [n \in 0 .. N |-> Visited(s, n)]
      OBVIOUS
    <2>2. ASSUME NEW n \in 0 .. N PROVE Visited(s, n) = NextOf(list, n, f[n - 1])
      <3>1. CASE n = 0
        BY <1>1, <3>1, VisitsFirst
      <3>2. CASE n # 0
        <4>1. n - 1 \in 0 .. N /\ n \in Nat \ {0}
          BY <3>2
        <4>2. f[n - 1] = Visited(s, n - 1)
          BY <2>1, <4>1
        <4> QED BY <1>1, <4>1, <4>2, VisitsNext
      <3> QED BY <3>1, <3>2
    <2>3. f = [n \in 0 .. N |-> NextOf(list, n, f[n - 1])]
      BY <2>1, <2>2
    <2> QED BY <2>3
  <1>4. PICK f : Visits(f) /\ From(list) = f[N]
    <2> DEFINE g == CHOOSE f : Visits(f)
    <2>1. Visits(g)
      BY <1>3, Zenon
    <2>2. From(list) = g[N]
      BY <1>2 DEF From, NextOf
    <2> QED BY <2>1, <2>2
  <1> DEFINE T == {n \in 0 .. N : f[n] = Visited(s, n)}
  <1>5. \A n \in 0 .. N : f[n] = NextOf(list, n, f[n - 1])
    BY <1>4
  <1>6. 0 \in T
    BY <1>1, <1>5, VisitsFirst
  <1>7. ASSUME NEW n \in 1 .. N, n - 1 \in T PROVE n \in T
    BY <1>1, <1>5, <1>7, VisitsNext
  <1>8. N \in T
    <2> HIDE DEF T
    <2> QED BY <1>2, <1>6, <1>7, UpTo
  <1>9. Visited(s, N) = s
    BY <1>1, <1>2 DEF Visited, Path
  <1> QED BY <1>4, <1>8, <1>9

LEMMA VisitsPathNext == PathsVisited'
  BY VisitsPath, PTL

-----------------------------------------------------------------------------
\* What an operation makes of the path.

\* A sequence without its i-th element.
Drop(s, i) == [k \in 1 .. Len(s) - 1 |-> IF k < i THEN s[k] ELSE s[k + 1]]

LEMMA WithoutIs ==
    ASSUME NEW S, NEW s \in Seq(S), NEW i \in 1 .. Len(s)
    PROVE  Without(s, i) = Drop(s, i)
  <1>1. PICK n \in Nat : n = Len(s) /\ i \in 1 .. n
    OBVIOUS
  <1>2. PICK a : a = SubSeq(s, 1, i - 1)
    OBVIOUS
  <1>3. PICK b : b = SubSeq(s, i + 1, n)
    OBVIOUS
  <1>4. a \in Seq(S) /\ Len(a) = i - 1 /\ \A k \in 1 .. i - 1 : a[k] = s[k]
    BY <1>1, <1>2
  <1>5. b \in Seq(S) /\ Len(b) = n - i /\ \A k \in 1 .. n - i : b[k] = s[k + i]
    BY <1>1, <1>3
  <1>6. PICK t : t = a \o b
    OBVIOUS
  <1>7. /\ t \in Seq(S) /\ Len(t) = n - 1
        /\ \A k \in 1 .. n - 1 : t[k] = IF k < i THEN s[k] ELSE s[k + 1]
    <2>1. t \in Seq(S) /\ Len(t) = n - 1
      BY <1>1, <1>4, <1>5, <1>6
    <2>2. ASSUME NEW k \in 1 .. n - 1, k < i PROVE t[k] = s[k]
      <3>1. k \in 1 .. i - 1
        BY <1>1, <2>2
      <3>2. t[k] = a[k]
        BY <1>4, <1>5, <1>6, <3>1
      <3> QED BY <1>4, <3>1, <3>2
    <2>3. ASSUME NEW k \in 1 .. n - 1, ~(k < i) PROVE t[k] = s[k + 1]
      <3>1. PICK j \in 1 .. n - i : j = k - (i - 1) /\ j + i = k + 1
        BY <1>1, <2>3
      <3>2. t[k] = b[j]
        BY <1>1, <1>4, <1>5, <1>6, <2>3, <3>1
      <3> QED BY <1>5, <3>1, <3>2
    <2> QED BY <2>1, <2>2, <2>3
  <1>8. t = [k \in 1 .. n - 1 |-> IF k < i THEN s[k] ELSE s[k + 1]]
    BY <1>1, <1>7
  <1> QED BY <1>1, <1>2, <1>3, <1>6, <1>8 DEF Without, Drop

LEMMA TailIs ==
    ASSUME NEW S, NEW s \in Seq(S), s # <<>>
    PROVE  1 \in 1 .. Len(s) /\ Tail(s) = Drop(s, 1)
  <1>1. PICK n \in Nat \ {0} : n = Len(s)
    OBVIOUS
  <1>2. PICK t : t = Tail(s)
    OBVIOUS
  <1>3. t \in Seq(S) /\ Len(t) = n - 1 /\ \A k \in 1 .. n - 1 : t[k] = s[k + 1]
    BY <1>1, <1>2
  <1>4. t = [k \in 1 .. n - 1 |-> IF k < 1 THEN s[k] ELSE s[k + 1]]
    BY <1>1, <1>3
  <1>5. Drop(s, 1) = [k \in 1 .. n - 1 |-> IF k < 1 THEN s[k] ELSE s[k + 1]]
    BY <1>1, Zenon DEF Drop
  <1> QED BY <1>1, <1>2, <1>4, <1>5

LEMMA DropTypes ==
    ASSUME NEW S, NEW s \in Seq(S), NEW i \in 1 .. Len(s)
    PROVE  /\ Drop(s, i) \in Seq(S) /\ Len(Drop(s, i)) = Len(s) - 1 /\ Len(s) \in Nat \ {0}
           /\ \A k \in 1 .. Len(s) - 1 : Drop(s, i)[k] = IF k < i THEN s[k] ELSE s[k + 1]
  BY DEF Drop

\* A cell that is passed over by its predecessor leaves the path.
Unlinks(s, i, first, c) ==
    /\ first = IF i = 1 THEN cell[s[1]].next ELSE list
    /\ \A x \in Cells : c[x].next = IF i > 1 /\ x = s[i - 1] THEN cell[s[i]].next
                                    ELSE cell[x].next

LEMMA UnlinkPath ==
    ASSUME NEW s, Path(s, list, cell), NEW i \in 1 .. Len(s),
           NEW first, NEW c, Unlinks(s, i, first, c)
    PROVE  Path(Drop(s, i), first, c)
  <1>1. PICK n \in Nat \ {0} : n = Len(s) /\ i \in 1 .. n
    BY DEF Path
  <1>2. PICK t : t = Drop(s, i)
    OBVIOUS
  <1>3. /\ t \in Seq(Cells) /\ Len(t) = n - 1
        /\ \A k \in 1 .. n - 1 : t[k] = IF k < i THEN s[k] ELSE s[k + 1]
    BY <1>1, <1>2, DropTypes DEF Path
  <1>4. /\ \A k \in 1 .. n : s[k] \in Cells
        /\ \A k \in 1 .. n : cell[s[k]].next = IF k = n THEN NoCell ELSE s[k + 1]
        /\ \A j, k \in 1 .. n : s[j] = s[k] => j = k
    BY <1>1 DEF Path
  <1>5. first = IF t = <<>> THEN NoCell ELSE t[1]
    <2>1. CASE i = 1
      <3>1. first = IF n = 1 THEN NoCell ELSE s[2]
        BY <1>1, <1>4, <2>1 DEF Unlinks
      <3>2. n # 1 => t[1] = s[2] /\ t # <<>>
        BY <1>1, <1>3, <2>1
      <3>3. n = 1 => t = <<>>
        BY <1>3
      <3> QED BY <3>1, <3>2, <3>3
    <2>2. CASE i # 1
      <3>1. t # <<>> /\ t[1] = s[1] /\ first = list /\ s # <<>>
        BY <1>1, <1>3, <2>2 DEF Unlinks
      <3> QED BY <3>1 DEF Path
    <2> QED BY <2>1, <2>2
  <1>6. ASSUME NEW k \in 1 .. n - 1
        PROVE  c[t[k]].next = IF k = n - 1 THEN NoCell ELSE t[k + 1]
    <2>1. CASE k >= i
      <3>1. k + 1 \in 1 .. n /\ t[k] = s[k + 1] /\ s[k + 1] \in Cells
        BY <1>1, <1>3, <1>4, <2>1
      <3>2. ~(i > 1 /\ s[k + 1] = s[i - 1])
        BY <1>1, <1>4, <2>1, <3>1
      <3>3. c[t[k]].next = cell[s[k + 1]].next
        BY <3>1, <3>2 DEF Unlinks
      <3>4. k # n - 1 => t[k + 1] = s[k + 1 + 1]
        BY <1>1, <1>3, <2>1
      <3> QED BY <1>4, <3>1, <3>3, <3>4
    <2>2. CASE k = i - 1
      <3>1. k \in 1 .. n /\ t[k] = s[k] /\ s[k] \in Cells /\ i > 1
        BY <1>1, <1>3, <1>4, <2>2
      <3>2. c[t[k]].next = cell[s[i]].next
        BY <2>2, <3>1 DEF Unlinks
      <3>3. k # n - 1 => t[k + 1] = s[i + 1]
        BY <1>1, <1>3, <2>2
      <3> QED BY <1>1, <1>4, <2>2, <3>2, <3>3
    <2>3. CASE k < i - 1
      <3>1. k \in 1 .. n /\ t[k] = s[k] /\ s[k] \in Cells /\ k # n
        BY <1>1, <1>3, <1>4, <2>3
      <3>2. ~(i > 1 /\ s[k] = s[i - 1])
        <4>1. i - 1 \in 1 .. n /\ i - 1 # k
          BY <1>1, <2>3
        <4> QED BY <1>4, <3>1, <4>1
      <3>3. c[t[k]].next = cell[s[k]].next
        BY <3>1, <3>2 DEF Unlinks
      <3>4. k # n - 1 /\ t[k + 1] = s[k + 1]
        BY <1>1, <1>3, <2>3
      <3> QED BY <1>4, <3>1, <3>3, <3>4
    <2> QED BY <1>1, <2>1, <2>2, <2>3
  <1>7. ASSUME NEW j \in 1 .. n - 1, NEW k \in 1 .. n - 1, t[j] = t[k] PROVE j = k
    <2> DEFINE At(x) == IF x < i THEN x ELSE x + 1
    <2>1. /\ At(j) \in 1 .. n /\ t[j] = s[At(j)]
          /\ At(k) \in 1 .. n /\ t[k] = s[At(k)]
      BY <1>1, <1>3
    <2>2. At(j) = At(k)
      <3> HIDE DEF At
      <3> QED BY <1>4, <1>7, <2>1
    <2> QED BY <1>1, <2>2
  <1> QED BY <1>2, <1>3, <1>5, <1>6, <1>7 DEF Path

\* A cell from malloc is put behind the last one.
Links(s, new, first, c) ==
    /\ first = IF s = <<>> THEN new ELSE list
    /\ \A x \in Cells : c[x].next = IF x = new THEN NoCell
                                    ELSE IF s # <<>> /\ x = s[Len(s)] THEN new
                                    ELSE cell[x].next

LEMMA LinkPath ==
    ASSUME NEW s, Path(s, list, cell), NEW new \in Cells, \A i \in 1 .. Len(s) : s[i] # new,
           NEW first, NEW c, Links(s, new, first, c)
    PROVE  Path(Append(s, new), first, c)
  <1>1. PICK n \in Nat : n = Len(s) /\ (s = <<>> <=> n = 0)
    BY DEF Path
  <1>2. PICK t : t = Append(s, new)
    OBVIOUS
  <1>3. /\ t \in Seq(Cells) /\ Len(t) = n + 1 /\ t[n + 1] = new
        /\ \A k \in 1 .. n : t[k] = s[k]
    BY <1>1, <1>2 DEF Path
  <1>4. /\ \A k \in 1 .. n : s[k] \in Cells /\ s[k] # new
        /\ \A k \in 1 .. n : cell[s[k]].next = IF k = n THEN NoCell ELSE s[k + 1]
        /\ \A j, k \in 1 .. n : s[j] = s[k] => j = k
    BY <1>1 DEF Path
  <1>5. t # <<>> /\ first = t[1]
    <2>1. n = 0 => t[1] = new
      BY <1>3
    <2>2. n # 0 => t[1] = s[1]
      BY <1>3
    <2> QED BY <1>1, <1>3, <2>1, <2>2 DEF Path, Links
  <1>6. ASSUME NEW k \in 1 .. n + 1
        PROVE  c[t[k]].next = IF k = n + 1 THEN NoCell ELSE t[k + 1]
    <2>1. CASE k = n + 1
      BY <1>3, <2>1 DEF Links
    <2>2. CASE k = n
      <3>1. k \in 1 .. n /\ t[k] = s[k] /\ s[k] = s[Len(s)] /\ s # <<>>
        BY <1>1, <1>3, <2>2
      <3> QED BY <1>1, <1>3, <1>4, <2>2, <3>1 DEF Links
    <2>3. CASE k < n
      <3>1. k \in 1 .. n /\ n \in 1 .. n /\ t[k] = s[k] /\ t[k + 1] = s[k + 1] /\ k # n
        BY <1>1, <1>3, <2>3
      <3>2. s[k] # s[Len(s)]
        BY <1>1, <1>4, <3>1
      <3>3. c[s[k]].next = cell[s[k]].next
        BY <1>4, <3>1, <3>2 DEF Links
      <3> QED BY <1>4, <2>3, <3>1, <3>3
    <2> QED BY <2>1, <2>2, <2>3
  <1>7. ASSUME NEW j \in 1 .. n + 1, NEW k \in 1 .. n + 1, t[j] = t[k] PROVE j = k
    BY <1>3, <1>4, <1>7
  <1> QED BY <1>2, <1>3, <1>5, <1>6, <1>7 DEF Path

-----------------------------------------------------------------------------
\* What a list holds, and how the operations change it.

Data(s, c) == [i \in 1 .. Len(s) |-> c[s[i]].data]
PathsRead == \A s : Path(s, list, cell) => From(list) = s /\ Contents = Data(s, cell)
LEMMA ReadsPath == PathsRead
  <1>1. SUFFICES ASSUME NEW s, Path(s, list, cell)
                 PROVE  From(list) = s /\ Contents = Data(s, cell)
    BY DEF PathsRead
  <1>2. From(list) = s
    BY <1>1, VisitsPath DEF PathsVisited
  <1>3. PICK n \in Nat : n = Len(s)
    BY <1>1 DEF Path
  <1>4. listCount = n
    BY <1>2, <1>3 DEF listCount
  <1>5. \A i \in 1 .. n : listGet(i - 1) = cell[s[i]].data
    BY <1>2 DEF listGet
  <1>6. Contents = [i \in 1 .. n |-> cell[s[i]].data]
    BY <1>4, <1>5, Zenon DEF Contents
  <1> QED BY <1>2, <1>3, <1>6 DEF Data

LEMMA ReadsPathNext == PathsRead'
  BY ReadsPath, PTL

LEMMA DataTypes ==
    ASSUME NEW s \in Seq(Cells), CellsTyped
    PROVE  /\ Data(s, cell) \in Seq(Values \cup {NoCell}) /\ Len(Data(s, cell)) = Len(s)
           /\ \A i \in 1 .. Len(s) : Data(s, cell)[i] = cell[s[i]].data
           /\ DOMAIN Data(s, cell) = 1 .. Len(s) /\ Len(s) \in Nat
  BY DEF Data, CellsTyped

\* What the cells are after a step: their pointers c, and their contents.
Becomes(t) ==
    /\ Path(t, list', cell') /\ Accounted(t, used', cleared') /\ CellsTyped'

LEMMA AddStep ==
    ASSUME NEW s, Path(s, list, cell), Accounted(s, used, cleared), CellsTyped,
           NEW value \in Values, listAdd(value)
    PROVE  \E t : Becomes(t) /\ Data(t, cell') = Append(Data(s, cell), value)
  <1>1. PICK new \in Cells \ used :
            /\ used' = used \cup {new} /\ cleared' = cleared
            /\ \/ /\ list = NoCell /\ list' = new
                  /\ cell' = [cell EXCEPT ![new] = [next |-> NoCell, data |-> value]]
               \/ /\ list # NoCell /\ list' = list
                  /\ cell' = [cell EXCEPT ![new] = [next |-> NoCell, data |-> value],
                                          ![From(list)[listCount]].next = new]
    BY DEF listAdd
  <1>2. PICK n \in Nat : n = Len(s) /\ (s = <<>> <=> n = 0)
    BY DEF Path
  <1>3. /\ s \in Seq(Cells) /\ \A i \in 1 .. n : s[i] \in Cells /\ s[i] # new
        /\ list = NoCell <=> n = 0
    <2>1. \A i \in 1 .. n : s[i] \in Cells /\ s[i] # new
      BY <1>1, <1>2 DEF Path, Accounted
    <2> QED BY <1>2, <2>1, CellsAssumption DEF Path, NoCell
  <1>4. From(list)[listCount] = s[n]
    BY <1>2, ReadsPath DEF PathsRead, listCount
  <1>5. CellsTyped' /\ Links(s, new, list', cell')
        /\ \A x \in Cells : cell'[x].data = IF x = new THEN value ELSE cell[x].data
    <2>1. CASE n = 0
      <3>1. list' = new /\ cell' = [cell EXCEPT ![new] = [next |-> NoCell, data |-> value]]
        BY <1>1, <1>3, <2>1
      <3> QED BY <1>1, <1>2, <2>1, <3>1 DEF CellsTyped, Links
    <2>2. CASE n # 0
      <3>1. PICK z \in Cells : z = s[n] /\ z # new
        BY <1>3, <2>2
      <3>2. list' = list
            /\ cell' = [cell EXCEPT ![new] = [next |-> NoCell, data |-> value], ![z].next = new]
        BY <1>1, <1>3, <1>4, <2>2, <3>1
      <3>3. s # <<>> /\ s[Len(s)] = z
        BY <1>2, <2>2, <3>1
      <3>4. CellsTyped'
        BY <3>1, <3>2, <1>1 DEF CellsTyped
      <3>5. \A x \in Cells :
              /\ cell'[x].next = IF x = new THEN NoCell ELSE IF x = z THEN new ELSE cell[x].next
              /\ cell'[x].data = IF x = new THEN value ELSE cell[x].data
        BY <1>1, <3>1, <3>2 DEF CellsTyped
      <3> QED BY <3>2, <3>3, <3>4, <3>5 DEF Links
    <2> QED BY <2>1, <2>2
  <1>6. PICK t : t = Append(s, new)
    OBVIOUS
  <1>7. t \in Seq(Cells) /\ Len(t) = n + 1 /\ t[n + 1] = new /\ \A k \in 1 .. n : t[k] = s[k]
    BY <1>1, <1>2, <1>3, <1>6
  <1>8. Path(t, list', cell')
    BY <1>1, <1>2, <1>3, <1>5, <1>6, LinkPath
  <1>9. Accounted(t, used', cleared')
    <2>1. IsFiniteSet(used) /\ Cardinality(used \cup {new}) = Cardinality(used) + 1
      <3>1. IsFiniteSet(used)
        BY CellsAssumption, FS_Subset DEF Accounted
      <3> QED BY <1>1, <3>1, FS_AddElement
    <2>2. Cardinality(used') = Len(t) + cleared'
      BY <1>1, <1>2, <1>7, <2>1 DEF Accounted
    <2>3. \A i \in 1 .. Len(t) : t[i] \in used'
      BY <1>1, <1>2, <1>7 DEF Accounted
    <2> QED BY <1>1, <2>2, <2>3 DEF Accounted
  <1>10. Data(t, cell') = Append(Data(s, cell), value)
    <2>1. PICK d \in Seq(Values \cup {NoCell}) : d = Data(s, cell)
      BY <1>3, DataTypes
    <2>2. Len(d) = n /\ \A i \in 1 .. n : d[i] = cell[s[i]].data
      BY <1>2, <1>3, <2>1, DataTypes
    <2>3. \A k \in 1 .. n + 1 : cell'[t[k]].data = IF k = n + 1 THEN value ELSE d[k]
      BY <1>1, <1>3, <1>5, <1>7, <2>2
    <2>4. Append(d, value) = [k \in 1 .. n + 1 |-> IF k = n + 1 THEN value ELSE d[k]]
      <3>1. PICK a : a = Append(d, value)
        OBVIOUS
      <3>2. /\ a \in Seq(Values \cup {NoCell}) /\ Len(a) = n + 1 /\ a[n + 1] = value
            /\ \A k \in 1 .. n : a[k] = d[k]
        BY <2>1, <2>2, <3>1
      <3>3. a = [k \in 1 .. n + 1 |-> IF k = n + 1 THEN value ELSE d[k]]
        BY <3>2
      <3> QED BY <3>1, <3>3
    <2>5. Data(t, cell') = [k \in 1 .. n + 1 |-> cell'[t[k]].data]
      BY <1>7 DEF Data
    <2> QED BY <2>1, <2>3, <2>4, <2>5
  <1> QED BY <1>5, <1>8, <1>9, <1>10 DEF Becomes

\* A cell is unlinked and freed.
Removes(s, i) ==
    /\ Unlinks(s, i, list', cell') /\ CellsTyped'
    /\ \A x \in Cells : cell'[x].data = cell[x].data
    /\ used' = used \ {s[i]} /\ cleared' = cleared

LEMMA RemoveStep ==
    ASSUME NEW s, Path(s, list, cell), Accounted(s, used, cleared), CellsTyped,
           NEW i \in 1 .. Len(s), Removes(s, i)
    PROVE  \E t : Becomes(t) /\ Data(t, cell') = Drop(Data(s, cell), i)
  <1>1. PICK n \in Nat \ {0} : n = Len(s) /\ i \in 1 .. n
    BY DEF Path
  <1>2. PICK t : t = Drop(s, i)
    OBVIOUS
  <1>3. /\ s \in Seq(Cells) /\ t \in Seq(Cells) /\ Len(t) = n - 1
        /\ \A k \in 1 .. n - 1 : t[k] = IF k < i THEN s[k] ELSE s[k + 1]
    BY <1>1, <1>2, DropTypes DEF Path
  <1>4. Path(t, list', cell')
    BY <1>2, UnlinkPath DEF Removes
  <1>5. Accounted(t, used', cleared')
    <2>1. IsFiniteSet(used) /\ s[i] \in used
      BY CellsAssumption, FS_Subset DEF Accounted
    <2>2. Cardinality(used \ {s[i]}) = Cardinality(used) - 1
      BY <2>1, FS_RemoveElement
    <2>3. Cardinality(used') = Len(t) + cleared'
      BY <1>1, <1>3, <2>2 DEF Accounted, Removes
    <2>4. ASSUME NEW k \in 1 .. n - 1 PROVE t[k] \in used'
      <3>1. PICK j \in 1 .. n : t[k] = s[j] /\ j # i
        BY <1>1, <1>3
      <3>2. s[j] \in used /\ s[j] # s[i]
        BY <1>1, <3>1 DEF Accounted, Path
      <3> QED BY <3>1, <3>2 DEF Removes
    <2>5. used' \in SUBSET Cells /\ cleared' \in Nat
      BY DEF Accounted, Removes
    <2> QED BY <1>3, <2>3, <2>4, <2>5 DEF Accounted
  <1>6. Data(t, cell') = Drop(Data(s, cell), i)
    <2>1. PICK d : d = Data(s, cell)
      OBVIOUS
    <2>2. d \in Seq(Values \cup {NoCell}) /\ Len(d) = n /\ \A k \in 1 .. n : d[k] = cell[s[k]].data
      BY <1>1, <1>3, <2>1, DataTypes
    <2>3. \A k \in 1 .. n - 1 : cell'[t[k]].data = IF k < i THEN d[k] ELSE d[k + 1]
      <3>1. \A k \in 1 .. n - 1 : t[k] \in Cells /\ k \in 1 .. n /\ k + 1 \in 1 .. n
        BY <1>3
      <3> QED BY <1>1, <1>3, <2>2, <3>1 DEF Removes
    <2>4. Data(t, cell') = [k \in 1 .. n - 1 |-> cell'[t[k]].data]
      BY <1>3 DEF Data
    <2>5. Drop(d, i) = [k \in 1 .. n - 1 |-> IF k < i THEN d[k] ELSE d[k + 1]]
      BY <2>2 DEF Drop
    <2> QED BY <2>1, <2>3, <2>4, <2>5
  <1> QED BY <1>4, <1>5, <1>6 DEF Becomes, Removes

LEMMA PopStep ==
    ASSUME NEW s, Path(s, list, cell), Accounted(s, used, cleared), CellsTyped, listPopFirst
    PROVE  s # <<>> /\ Removes(s, 1)
  <1>1. s # <<>> /\ list = s[1]
    BY DEF Path, listPopFirst
  <1>2. s[1] \in Cells
    BY <1>1 DEF Path
  <1>3. list' = cell[s[1]].next /\ cell' = cell
    BY <1>1 DEF listPopFirst
  <1>4. Unlinks(s, 1, list', cell')
    BY <1>3 DEF Unlinks
  <1> QED BY <1>1, <1>2, <1>3, <1>4 DEF Removes, listPopFirst, CellsTyped

LEMMA RemoveValueStep ==
    ASSUME NEW s, Path(s, list, cell), Accounted(s, used, cleared), CellsTyped,
           NEW value, listRemoveValue(value)
    PROVE  \E i \in 1 .. Len(s) : Removes(s, i) /\ FirstOf(Data(s, cell), i, value)
  <1>1. From(list) = s
    BY ReadsPath DEF PathsRead
  <1>2. PICK n \in Nat : n = Len(s) /\ s \in Seq(Cells)
    BY DEF Path
  <1>3. PICK i \in 1 .. n :
            /\ cell[s[i]].data = value
            /\ \A j \in 1 .. i - 1 : cell[s[j]].data # value
            /\ list' = IF i = 1 THEN cell[s[i]].next ELSE list
            /\ cell' = IF i = 1 THEN cell
                       ELSE [cell EXCEPT ![s[i - 1]].next = cell[s[i]].next]
            /\ used' = used \ {s[i]} /\ cleared' = cleared
    <2>1. DOMAIN s = 1 .. n
      BY <1>2
    <2>2. \E i \in DOMAIN s :
            /\ cell[s[i]].data = value
            /\ \A j \in 1 .. i - 1 : cell[s[j]].data # value
            /\ list' = IF i = 1 THEN cell[s[i]].next ELSE list
            /\ cell' = IF i = 1 THEN cell
                       ELSE [cell EXCEPT ![s[i - 1]].next = cell[s[i]].next]
            /\ used' = used \ {s[i]}
            /\ UNCHANGED cleared
      BY <1>1, Zenon DEF listRemoveValue
    <2> QED BY <2>1, <2>2, Zenon
  <1>4. FirstOf(Data(s, cell), i, value)
    <2>1. PICK d : d = Data(s, cell)
      OBVIOUS
    <2>2. \A k \in 1 .. n : d[k] = cell[s[k]].data
      BY <1>2, <2>1, DataTypes
    <2>3. \A j \in 1 .. i - 1 : j \in 1 .. n
      BY <1>3
    <2> QED BY <1>3, <2>1, <2>2, <2>3 DEF FirstOf
  <1>5. /\ CellsTyped'
        /\ \A x \in Cells : /\ cell'[x].data = cell[x].data
                            /\ cell'[x].next = IF i > 1 /\ x = s[i - 1] THEN cell[s[i]].next
                                               ELSE cell[x].next
    <2>1. CASE i = 1
      BY <1>3, <2>1 DEF CellsTyped
    <2>2. CASE i # 1
      <3>1. PICK z \in Cells, y \in Cells \cup {NoCell} : z = s[i - 1] /\ y = cell[s[i]].next
        <4>1. s[i] \in Cells /\ s[i - 1] \in Cells
          BY <1>2, <2>2
        <4>2. cell[s[i]].next \in Cells \cup {NoCell}
          BY <4>1 DEF CellsTyped
        <4> QED BY <4>1, <4>2
      <3>2. cell' = [cell EXCEPT ![z].next = y] /\ i > 1
        BY <1>3, <2>2, <3>1
      <3>3. CellsTyped' /\ \A x \in Cells :
                /\ cell'[x].data = cell[x].data
                /\ cell'[x].next = IF x = z THEN y ELSE cell[x].next
        BY <3>1, <3>2 DEF CellsTyped
      <3> QED BY <3>1, <3>2, <3>3
    <2> QED BY <2>1, <2>2
  <1>6. Unlinks(s, i, list', cell')
    BY <1>3, <1>5 DEF Unlinks
  <1> QED BY <1>2, <1>3, <1>4, <1>5, <1>6 DEF Removes

LEMMA ClearStep ==
    ASSUME NEW s, Path(s, list, cell), Accounted(s, used, cleared), CellsTyped, listClear
    PROVE  Becomes(<<>>)
  <1>1. PICK n \in Nat \ {0} : n = Len(s) /\ s # <<>> /\ s \in Seq(Cells)
    BY DEF Path, listClear
  <1>2. From(list) = s /\ listCount = n
    BY <1>1, ReadsPath DEF PathsRead, listCount
  <1>3. PICK freed : freed = {s[i] : i \in 1 .. n - 1}
    OBVIOUS
  <1>4. list' = NoCell /\ cleared' = cleared + 1 /\ used' = used \ freed /\ cell' = cell
    BY <1>2, <1>3 DEF listClear
  <1>5. IsFiniteSet(freed) /\ Cardinality(freed) = n - 1
    <2>1. PICK f : f = [i \in 1 .. n - 1 |-> s[i]]
      OBVIOUS
    <2>2. f \in Bijection(1 .. n - 1, freed)
      <3>1. f \in [1 .. n - 1 -> freed] /\ \A i \in 1 .. n - 1 : f[i] = s[i]
        BY <1>3, <2>1
      <3>2. \A i, j \in 1 .. n - 1 : f[i] = f[j] => i = j
        BY <1>1, <3>1 DEF Path
      <3>3. \A x \in freed : \E i \in 1 .. n - 1 : f[i] = x
        BY <1>3, <3>1
      <3> QED BY <3>1, <3>2, <3>3 DEF Bijection, Injection, Surjection, IsInjective
    <2>3. PICK k \in Int : k = n - 1 /\ k >= 0 /\ 1 \in Int
      BY <1>1
    <2>4. IsFiniteSet(1 .. k) /\ Cardinality(1 .. k) = k
      BY <2>3, FS_Interval
    <2>5. ExistsBijection(1 .. k, freed)
      BY <2>2, <2>3 DEF ExistsBijection
    <2> QED BY <2>3, <2>4, <2>5, FS_Bijection
  <1>6. freed \subseteq used
    <2>1. \A i \in 1 .. n - 1 : i \in 1 .. Len(s)
      BY <1>1
    <2> QED BY <1>3, <2>1 DEF Accounted
  <1>7. Cardinality(used \ freed) = cleared + 1
    <2>1. IsFiniteSet(used)
      BY CellsAssumption, FS_Subset DEF Accounted
    <2>2. IsFiniteSet(used \ freed)
      BY <2>1, FS_Subset
    <2>3. (used \ freed) \cup freed = used /\ (used \ freed) \cap freed = {}
      BY <1>6
    <2>4. Cardinality(used) = Cardinality(used \ freed) + Cardinality(freed) - 0
      <3>1. PICK kept : kept = used \ freed
        OBVIOUS
      <3>2. Cardinality(kept \cup freed)
              = Cardinality(kept) + Cardinality(freed) - Cardinality(kept \cap freed)
        BY <1>5, <2>2, <3>1, FS_Union
      <3>3. Cardinality(kept \cap freed) = 0
        BY <2>3, <3>1, FS_EmptySet
      <3> QED BY <2>3, <3>1, <3>2, <3>3
    <2>5. Cardinality(used \ freed) \in Nat
      BY <2>2, FS_CardinalityType
    <2> QED BY <1>1, <1>5, <2>4, <2>5 DEF Accounted
  <1>8. Path(<<>>, list', cell')
    BY <1>4 DEF Path
  <1>9. Accounted(<<>>, used', cleared')
    BY <1>4, <1>7 DEF Accounted
  <1> QED BY <1>4, <1>8, <1>9 DEF Becomes, CellsTyped

-----------------------------------------------------------------------------
LEMMA ListInitInv == ListInit => ListInv
  <1>1. ListInit => CellsTyped
    BY DEF ListInit, CellsTyped
  <1>2. ListInit => Path(<<>>, list, cell)
    BY DEF ListInit, Path
  <1>3. ListInit => Accounted(<<>>, used, cleared)
    BY FS_EmptySet DEF ListInit, Accounted
  <1> QED BY <1>1, <1>2, <1>3 DEF ListInv

\* Each operation keeps the invariant and changes the sequence as it should.
LEMMA AddKeeps ==
    ASSUME ListInv, NEW value \in Values, listAdd(value)
    PROVE  ListInv' /\ Contents' = Append(Contents, value)
  <1>1. PICK s : Path(s, list, cell) /\ Accounted(s, used, cleared) /\ CellsTyped
    BY DEF ListInv
  <1>2. PICK t : Becomes(t) /\ Data(t, cell') = Append(Data(s, cell), value)
    BY <1>1, AddStep
  <1>3. Contents = Data(s, cell) /\ Contents' = Data(t, cell')
    BY <1>1, <1>2, ReadsPath, ReadsPathNext DEF PathsRead, Becomes
  <1> QED BY <1>2, <1>3 DEF ListInv, Becomes

LEMMA RemovesKeeps ==
    ASSUME NEW s, Path(s, list, cell), Accounted(s, used, cleared), CellsTyped,
           NEW i \in 1 .. Len(s), Removes(s, i)
    PROVE  /\ ListInv' /\ Contents' = Without(Contents, i)
           /\ Contents = Data(s, cell) /\ i \in DOMAIN Contents
           /\ i = 1 => Contents' = Tail(Contents)
  <1>1. PICK t : Becomes(t) /\ Data(t, cell') = Drop(Data(s, cell), i)
    BY RemoveStep
  <1>2. PICK d : d = Data(s, cell)
    OBVIOUS
  <1>3. Contents = d /\ Contents' = Drop(d, i)
    BY <1>1, <1>2, ReadsPath, ReadsPathNext DEF PathsRead, Becomes
  <1>4. PICK n \in Nat : n = Len(s) /\ s \in Seq(Cells)
    BY DEF Path
  <1>5. d \in Seq(Values \cup {NoCell}) /\ i \in 1 .. Len(d) /\ DOMAIN d = 1 .. Len(d)
    BY <1>2, <1>4, DataTypes
  <1>6. Without(d, i) = Drop(d, i)
    BY <1>5, WithoutIs
  <1>7. Tail(d) = Drop(d, 1)
    BY <1>5, TailIs
  <1> QED BY <1>1, <1>2, <1>3, <1>5, <1>6, <1>7 DEF ListInv, Becomes

LEMMA RemoveValueKeeps ==
    ASSUME ListInv, NEW value, listRemoveValue(value)
    PROVE  /\ ListInv'
           /\ \E i \in DOMAIN Contents :
                FirstOf(Contents, i, value) /\ Contents' = Without(Contents, i)
  <1>1. PICK s : Path(s, list, cell) /\ Accounted(s, used, cleared) /\ CellsTyped
    BY DEF ListInv
  <1>2. PICK i \in 1 .. Len(s) : Removes(s, i) /\ FirstOf(Data(s, cell), i, value)
    BY <1>1, RemoveValueStep
  <1> QED BY <1>1, <1>2, RemovesKeeps

LEMMA PopKeeps ==
    ASSUME ListInv, listPopFirst
    PROVE  ListInv' /\ Contents' = Tail(Contents)
  <1>1. PICK s : Path(s, list, cell) /\ Accounted(s, used, cleared) /\ CellsTyped
    BY DEF ListInv
  <1>2. 1 \in 1 .. Len(s) /\ Removes(s, 1)
    BY <1>1, PopStep, TailIs DEF Path
  <1> QED BY <1>1, <1>2, RemovesKeeps

LEMMA ClearKeeps ==
    ASSUME ListInv, listClear
    PROVE  ListInv' /\ Contents' = <<>>
  <1>1. PICK s : Path(s, list, cell) /\ Accounted(s, used, cleared) /\ CellsTyped
    BY DEF ListInv
  <1>2. Becomes(<<>>)
    BY <1>1, ClearStep
  <1>3. Contents' = Data(<<>>, cell')
    BY <1>2, ReadsPathNext DEF PathsRead, Becomes
  <1>4. Data(<<>>, cell') = <<>>
    BY DEF Data
  <1> QED BY <1>2, <1>3, <1>4 DEF ListInv, Becomes

LEMMA ListStepInv == ListInv /\ [ListNext]_listVars => ListInv'
  <1> SUFFICES ASSUME ListInv, [ListNext]_listVars PROVE ListInv'
    OBVIOUS
  <1>1. CASE UNCHANGED listVars
    BY <1>1 DEF listVars, ListInv, CellsTyped
  <1>2. ASSUME NEW value \in Values, listAdd(value) PROVE ListInv'
    BY <1>2, AddKeeps
  <1>3. ASSUME NEW value \in Values, listRemoveValue(value) PROVE ListInv'
    BY <1>3, RemoveValueKeeps
  <1>4. CASE listPopFirst
    BY <1>4, PopKeeps
  <1>5. CASE listClear
    BY <1>5, ClearKeeps
  <1> QED BY <1>1, <1>2, <1>3, <1>4, <1>5 DEF ListNext

LEMMA ListStep == ListInv => SequenceStep
  <1> SUFFICES ASSUME ListInv PROVE SequenceStep
    OBVIOUS
  <1>1. ASSUME NEW value \in Values, listAdd(value) PROVE Contents' = Append(Contents, value)
    BY <1>1, AddKeeps
  <1>2. ASSUME NEW value \in Values, listRemoveValue(value)
        PROVE  \E i \in DOMAIN Contents :
                    FirstOf(Contents, i, value) /\ Contents' = Without(Contents, i)
    BY <1>2, RemoveValueKeeps
  <1>3. listPopFirst => Contents' = Tail(Contents)
    BY PopKeeps
  <1>4. listClear => Contents' = <<>>
    BY ClearKeeps
  <1> QED BY <1>1, <1>2, <1>3, <1>4 DEF SequenceStep

LEMMA ListAccounts == ListInv => CellsAccounted
  <1> SUFFICES ASSUME ListInv PROVE CellsAccounted
    OBVIOUS
  <1>1. PICK s : Path(s, list, cell) /\ Accounted(s, used, cleared)
    BY DEF ListInv
  <1>2. From(list) = s /\ DOMAIN s = 1 .. Len(s)
    BY <1>1, ReadsPath DEF PathsRead, Path
  <1> QED BY <1>1, <1>2 DEF CellsAccounted, Accounted

\* The cells of a list are a path without repetition, in cells that malloc has
\* given out; all other ones given out are those that listClear left.
THEOREM ListInvariant == ListSpec => []ListInv
  <1> QED BY ListInitInv, ListStepInv, PTL DEF ListSpec

\* A list of hlib is a sequence, whatever cells malloc gives and however often
\* they are used again, and it leaks one cell for each listClear.
THEOREM ListsAreSequences == ListSpec => ListIsSequence
  <1> QED BY ListInvariant, ListStep, ListAccounts, PTL DEF ListIsSequence

=============================================================================
