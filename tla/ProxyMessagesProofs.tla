------------------------- MODULE ProxyMessagesProofs -------------------------
(***************************************************************************)
(* Proofs about ProxyMessages.tla: what is parsed from a serialised message *)
(* of the same class is that message, whatever fields are set, left at     *)
(* their defaults or unknown, and it is accepted if its strings are UTF-8. *)
(* The classes, their constructors and setters meet what that rests on.    *)
(***************************************************************************)
EXTENDS ProxyMessages, FiniteSetTheorems, SequenceTheorems, TLAPS

\* The fields of a class have different names and numbers.
WellFormed(T) ==
  /\ \E n \in Nat : DOMAIN T = 1..n
  /\ \A i, j \in DOMAIN T : T[i].num = T[j].num \/ T[i].name = T[j].name => i = j
  /\ \A i \in DOMAIN T : /\ T[i].name # "unknown"
                         /\ T[i].wire = Bytes => T[i].default = ""

\* A message of the class, with unknown fields that are none of its own.
Names(T) == {T[i].name : i \in DOMAIN T} \cup {"unknown"}
IsMessage(T, m) ==
  /\ m = [name \in Names(T) |-> m[name]]
  /\ \E S : m["unknown"] \in Seq(S)
  /\ \A k \in DOMAIN m["unknown"] : ~Known(T, m["unknown"][k])

-----------------------------------------------------------------------------
(* What Selected returns.                                                   *)

Rank(I, i) == Cardinality({j \in I : j <= i})
At(I, k)   == CHOOSE i \in I : Rank(I, i) = k

LEMMA SelectedAt ==
  \A s, I : Selected(s, I) = [k \in 1..Cardinality(I) |-> s[At(I, k)]]
BY DEF Selected, At, Rank

\* Each element of I has one of the ranks, and each rank one of the elements.
LEMMA Ranks ==
  ASSUME NEW I, IsFiniteSet(I), I \subseteq Int
  PROVE  /\ Cardinality(I) \in Nat
         /\ \A i \in I : Rank(I, i) \in 1..Cardinality(I)
         /\ \A i, j \in I : Rank(I, i) = Rank(I, j) => i = j
         /\ \A k \in 1..Cardinality(I) : \E i \in I : Rank(I, i) = k
<1> DEFINE n == Cardinality(I)
           Below(i) == {j \in I : j <= i}
<1>1. n \in Nat
  BY FS_CardinalityType
<1>2. ASSUME NEW i \in I
      PROVE  /\ IsFiniteSet(Below(i)) /\ Rank(I, i) = Cardinality(Below(i))
             /\ Rank(I, i) \in Nat /\ Rank(I, i) <= n /\ Rank(I, i) # 0
  <2>1. Below(i) \in SUBSET I /\ i \in Below(i)
    OBVIOUS
  <2>2. Rank(I, i) = Cardinality(Below(i))
    BY DEF Rank
  <2> HIDE DEF Below
  <2>3. IsFiniteSet(Below(i)) /\ Cardinality(Below(i)) <= n
    BY <2>1, FS_Subset
  <2>4. Cardinality(Below(i)) \in Nat
    BY <2>3, FS_CardinalityType
  <2>5. Cardinality(Below(i)) # 0
    BY <2>1, <2>3, FS_EmptySet
  <2> QED
    BY <2>2, <2>3, <2>4, <2>5
<1>3. ASSUME NEW i \in I, NEW j \in I, Rank(I, i) = Rank(I, j), i < j
      PROVE  FALSE
  <2>1. Below(i) \in SUBSET Below(j) /\ j \in Below(j) /\ j \notin Below(i)
    <3>1. i \in Int /\ j \in Int /\ \A k \in I : k \in Int
      OBVIOUS
    <3>2. \A k \in I : k <= i => k <= j
      BY <1>3, <3>1
    <3>3. ~(j <= i) /\ j <= j
      BY <1>3, <3>1
    <3> QED
      BY <3>2, <3>3
  <2>2. IsFiniteSet(Below(j)) /\ Cardinality(Below(i)) = Cardinality(Below(j))
    BY <1>2, <1>3
  <2> HIDE DEF Below
  <2>3. Below(i) = Below(j)
    BY <2>1, <2>2, FS_Subset
  <2> QED
    BY <2>1, <2>3
<1>4. \A i, j \in I : Rank(I, i) = Rank(I, j) => i = j
  BY <1>3
<1>5. ASSUME NEW i \in I PROVE Rank(I, i) \in 1..n
  <2>1. Rank(I, i) \in Nat /\ Rank(I, i) <= n /\ Rank(I, i) # 0
    BY <1>2
  <2> HIDE DEF n
  <2> QED
    BY <1>1, <2>1
<1>6. \A k \in 1..n : \E i \in I : Rank(I, i) = k
  <2> DEFINE f == [i \in I |-> Rank(I, i)]
  <2>1. f \in Injection(I, 1..n)
    BY <1>4, <1>5 DEF Injection, IsInjective
  <2>2. IsFiniteSet(1..n) /\ Cardinality(1..n) = n
    BY <1>1, FS_Interval
  <2>3. f \in Surjection(I, 1..n)
    BY <2>1, <2>2, FS_Injection
  <2> QED
    BY <2>3 DEF Surjection
<1> QED
  BY <1>1, <1>4, <1>5, <1>6

\* So At is the inverse of Rank.
LEMMA Places ==
  ASSUME NEW I, IsFiniteSet(I), I \subseteq Int
  PROVE  /\ \A k \in 1..Cardinality(I) : At(I, k) \in I /\ Rank(I, At(I, k)) = k
         /\ \A i \in I : Rank(I, i) \in 1..Cardinality(I) /\ At(I, Rank(I, i)) = i
<1>1. ASSUME NEW k \in 1..Cardinality(I)
      PROVE  At(I, k) \in I /\ Rank(I, At(I, k)) = k
  <2>1. \E i \in I : Rank(I, i) = k
    BY Ranks
  <2> QED
    BY <2>1 DEF At
<1>2. ASSUME NEW i \in I
      PROVE  Rank(I, i) \in 1..Cardinality(I) /\ At(I, Rank(I, i)) = i
  <2>1. Rank(I, i) \in 1..Cardinality(I)
    BY Ranks
  <2>2. At(I, Rank(I, i)) \in I /\ Rank(I, At(I, Rank(I, i))) = Rank(I, i)
    BY <1>1, <2>1
  <2> QED
    BY <2>1, <2>2, Ranks
<1> QED
  BY <1>1, <1>2

\* The end of a sequence is what is selected at its positions.
LEMMA SelectedEnd ==
  ASSUME NEW n \in Nat, NEW u \in Nat, NEW s
  PROVE  Selected(s, n+1 .. n+u) = [k \in 1..u |-> s[n + k]]
<1> DEFINE I == n+1 .. n+u
<1>1. IsFiniteSet(I) /\ Cardinality(I) = u /\ I \subseteq Int
  BY FS_Interval
<1>2. ASSUME NEW k \in 1..u PROVE At(I, k) = n + k
  <2>1. ASSUME NEW i \in I PROVE Rank(I, i) = i - n
    <3>1. {j \in I : j <= i} = n+1 .. i
      OBVIOUS
    <3>2. Cardinality(n+1 .. i) = i - n
      BY FS_Interval
    <3> QED
      BY <3>1, <3>2 DEF Rank
  <2>2. n + k \in I /\ Rank(I, n + k) = k
    BY <2>1
  <2> HIDE DEF I
  <2>3. At(I, k) \in I /\ Rank(I, At(I, k)) = k
    BY <1>1, Places
  <2>4. \A i, j \in I : Rank(I, i) = Rank(I, j) => i = j
    BY <1>1, Ranks
  <2> QED
    BY <2>2, <2>3, <2>4
<1>3. Selected(s, I) = [k \in 1..u |-> s[At(I, k)]]
  BY <1>1, SelectedAt
<1> HIDE DEF I
<1>4. Selected(s, I) = [k \in 1..u |-> s[n + k]]
  BY <1>2, <1>3
<1> QED
  BY <1>4 DEF I

-----------------------------------------------------------------------------
(* What is sent is what arrives.                                            *)

\* The positions of the fields that are sent.
Given(T, m) == {i \in DOMAIN T : m[T[i].name] # T[i].default}

LEMMA GivenFinite ==
  ASSUME NEW T, WellFormed(T), NEW m
  PROVE  IsFiniteSet(Given(T, m)) /\ Given(T, m) \subseteq Int
<1>1. PICK n \in Nat : DOMAIN T = 1..n
  BY DEF WellFormed
<1>2. IsFiniteSet(1..n) /\ Given(T, m) \in SUBSET (1..n) /\ 1..n \subseteq Int
  BY <1>1, FS_Interval DEF Given
<1> QED
  BY <1>2, FS_Subset

\* The wire has one token for each of them, in their order, and then the unknown fields.
Shape(T, m, w, n, u) ==
  /\ n \in Nat /\ u \in Nat
  /\ n = Cardinality(Given(T, m))
  /\ m["unknown"] = [k \in 1..u |-> m["unknown"][k]]
  /\ DOMAIN w = 1..n + u
  /\ \A k \in 1..n : w[k] = Token(m, T[At(Given(T, m), k)])
  /\ \A k \in 1..u : w[n + k] = m["unknown"][k]

LEMMA WireShape ==
  ASSUME NEW T, WellFormed(T), NEW m, IsMessage(T, m)
  PROVE  \E n, u : Shape(T, m, Serialize(T, m), n, u)
<1> DEFINE I == Given(T, m)
           n == Cardinality(I)
           e == Emitted(T, m)
           t == [k \in 1..n |-> Token(m, e[k])]
           x == m["unknown"]
<1>1. n \in Nat /\ \A k \in 1..n : At(I, k) \in I
  BY GivenFinite, Places, Ranks
<1>2. e = [k \in 1..n |-> T[At(I, k)]]
  BY SelectedAt DEF Emitted, Given
<1>3. DOMAIN e = 1..n /\ \A k \in 1..n : e[k] = T[At(I, k)]
  BY <1>2
<1>4. Serialize(T, m) = t \o x
  BY <1>3 DEF Serialize
<1>5. PICK S : x \in Seq(S)
  BY DEF IsMessage
<1> DEFINE A == S \cup {Token(m, e[k]) : k \in 1..n}
<1>6. t \in [1..n -> A]
  OBVIOUS
<1>7. t \in Seq(A) /\ x \in Seq(A) /\ Len(t) = n
  <2>1. x \in Seq(A)
    BY <1>5, SeqMonotonic
  <2>2. t \in Seq(A)
    BY <1>1, <1>6, SeqDef
  <2>3. Len(t) = n
    BY <1>1, <1>6, <2>2, LenProperties
  <2> QED
    BY <2>1, <2>2, <2>3
<1>8. \A k \in 1..n : t[k] = Token(m, T[At(I, k)])
  BY <1>3
<1> DEFINE u == Len(x)
<1>9. u \in Nat /\ x = [k \in 1..u |-> x[k]]
  BY <1>7, LenProperties
<1> HIDE DEF A, t, x, e, n
<1>10. /\ Len(t \o x) = n + u /\ t \o x \in Seq(A)
       /\ \A k \in 1..n + u : (t \o x)[k] = IF k <= n THEN t[k] ELSE x[k - n]
  BY <1>7, ConcatProperties
<1>11. DOMAIN (t \o x) = 1..n + u
  BY <1>10, LenProperties
<1>12. \A k \in 1..n : (t \o x)[k] = t[k]
  BY <1>1, <1>9, <1>10
<1>13. \A k \in 1..u : (t \o x)[n + k] = x[k]
  BY <1>1, <1>9, <1>10
<1>14. n = Cardinality(Given(T, m)) /\ x = m["unknown"]
  BY DEF n, x
<1> HIDE DEF u, I
<1>15. n = Cardinality(Given(T, m)) /\ m["unknown"] = [k \in 1..u |-> m["unknown"][k]]
  BY <1>9, <1>14
<1>16. DOMAIN Serialize(T, m) = 1..n + u
  BY <1>4, <1>11
<1>17. \A k \in 1..n : Serialize(T, m)[k] = Token(m, T[At(Given(T, m), k)])
  BY <1>4, <1>8, <1>12 DEF I
<1>18. \A k \in 1..u : Serialize(T, m)[n + k] = m["unknown"][k]
  BY <1>4, <1>13, <1>14
<1>19. n \in Nat /\ u \in Nat
  BY <1>1, <1>9
<1> HIDE DEF n
<1>20. Shape(T, m, Serialize(T, m), n, u)
  BY <1>15, <1>16, <1>17, <1>18, <1>19 DEF Shape
<1> QED
  BY <1>20

\* Which tokens are for a field, and which for none.
LEMMA TokensFor ==
  ASSUME NEW T, WellFormed(T), NEW m, IsMessage(T, m),
         NEW w, NEW n, NEW u, Shape(T, m, w, n, u), NEW I, I = Given(T, m)
  PROVE  /\ \A i \in DOMAIN T : {k \in DOMAIN w : IsFor(w[k], T[i])}
                                  = IF i \in I THEN {Rank(I, i)} ELSE {}
         /\ \A i \in I : /\ Rank(I, i) \in 1..n
                         /\ w[Rank(I, i)].val = m[T[i].name]
                         /\ w[Rank(I, i)].wire = T[i].wire
         /\ {k \in DOMAIN w : ~Known(T, w[k])} = n+1 .. n+u
         /\ \A k \in 1..n : At(I, k) \in DOMAIN T
<1> USE DEF Shape
<1>1. /\ IsFiniteSet(I) /\ I \subseteq Int /\ I \subseteq DOMAIN T
      /\ \A i, j \in DOMAIN T : T[i].num = T[j].num => i = j
  <2>1. IsFiniteSet(I) /\ I \subseteq Int
    BY GivenFinite
  <2>2. I \subseteq DOMAIN T
    BY DEF Given
  <2>3. \A i, j \in DOMAIN T : T[i].num = T[j].num => i = j
    BY DEF WellFormed
  <2> QED
    BY <2>1, <2>2, <2>3
<1>2. /\ \A k \in 1..n : At(I, k) \in I /\ Rank(I, At(I, k)) = k
      /\ \A i \in I : Rank(I, i) \in 1..n /\ At(I, Rank(I, i)) = i
  BY <1>1, Places
<1>3. ASSUME NEW k \in 1..n
      PROVE  /\ w[k].num = T[At(I, k)].num /\ w[k].wire = T[At(I, k)].wire
             /\ w[k].val = m[T[At(I, k)].name]
             /\ \A i \in DOMAIN T : IsFor(w[k], T[i]) <=> i = At(I, k)
  <2>1. /\ w[k].num = T[At(I, k)].num /\ w[k].wire = T[At(I, k)].wire
        /\ w[k].val = m[T[At(I, k)].name]
    <3> DEFINE f == T[At(I, k)]
    <3>1. w[k] = Token(m, f)
      OBVIOUS
    <3> HIDE DEF f
    <3>2. w[k].num = f.num /\ w[k].wire = f.wire /\ w[k].val = m[f.name]
      BY <3>1 DEF Token
    <3> QED
      BY <3>2 DEF f
  <2>2. At(I, k) \in DOMAIN T
    BY <1>1, <1>2
  <2>3. \A i \in DOMAIN T : IsFor(w[k], T[i]) <=> i = At(I, k)
    BY <1>1, <2>1, <2>2 DEF IsFor
  <2> QED
    BY <2>1, <2>3
<1>4. ASSUME NEW k \in n+1 .. n+u PROVE ~Known(T, w[k])
  <2>1. k - n \in 1..u /\ n + (k - n) = k
    OBVIOUS
  <2>2. w[k] = m["unknown"][k - n]
    BY <2>1
  <2>3. k - n \in DOMAIN m["unknown"]
    BY <2>1
  <2> QED
    BY <2>2, <2>3 DEF IsMessage
<1>5. \A k \in DOMAIN w : k \in 1..n \/ k \in n+1 .. n+u
  OBVIOUS
<1>6. \A k \in 1..n : k \in DOMAIN w /\ Known(T, w[k]) /\ k \notin n+1 .. n+u
  BY <1>1, <1>2, <1>3 DEF Known
<1>7. ASSUME NEW i \in DOMAIN T
      PROVE  {k \in DOMAIN w : IsFor(w[k], T[i])} = IF i \in I THEN {Rank(I, i)} ELSE {}
  <2>1. ASSUME NEW k \in DOMAIN w
        PROVE  IsFor(w[k], T[i]) <=> k \in 1..n /\ At(I, k) = i
    <3>1. k \in n+1 .. n+u => ~IsFor(w[k], T[i]) /\ k \notin 1..n
      BY <1>4 DEF Known
    <3> QED
      BY <1>3, <1>5, <3>1
  <2>2. \A k \in 1..n : At(I, k) = i <=> i \in I /\ k = Rank(I, i)
    BY <1>2
  <2> QED
    BY <1>2, <1>6, <2>1, <2>2
<1>8. \A i \in I : /\ Rank(I, i) \in 1..n
                   /\ w[Rank(I, i)].val = m[T[i].name]
                   /\ w[Rank(I, i)].wire = T[i].wire
  BY <1>2, <1>3
<1>9. {k \in DOMAIN w : ~Known(T, w[k])} = n+1 .. n+u
  <2>1. \A k \in n+1 .. n+u : k \in DOMAIN w
    OBVIOUS
  <2> QED
    BY <1>4, <1>5, <1>6, <2>1
<1> QED
  BY <1>1, <1>2, <1>7, <1>8, <1>9

\* What is parsed from a message is the message, if its strings are UTF-8.
THEOREM RoundTrip ==
  ASSUME NEW T, WellFormed(T), NEW m, IsMessage(T, m)
  PROVE  /\ Parse(T, Serialize(T, m)).msg = m
         /\ Parse(T, Serialize(T, m)).ok <=>
              \A i \in DOMAIN T : T[i].wire = Bytes => m[T[i].name] \notin NotUtf8
<1> DEFINE I == Given(T, m)
           w == Serialize(T, m)
           x == m["unknown"]
<1>1. PICK n, u : Shape(T, m, w, n, u)
  BY WireShape
<1> HIDE DEF w
<1>2. /\ \A i \in DOMAIN T : {k \in DOMAIN w : IsFor(w[k], T[i])}
                               = IF i \in I THEN {Rank(I, i)} ELSE {}
      /\ \A i \in I : /\ Rank(I, i) \in 1..n
                      /\ w[Rank(I, i)].val = m[T[i].name]
                      /\ w[Rank(I, i)].wire = T[i].wire
      /\ {k \in DOMAIN w : ~Known(T, w[k])} = n+1 .. n+u
      /\ \A k \in 1..n : At(I, k) \in DOMAIN T
  <2>1. I = Given(T, m)
    OBVIOUS
  <2> HIDE DEF I
  <2> QED
    BY <1>1, <2>1, TokensFor
<1> USE DEF Shape
<1>3. \A i \in DOMAIN T : i \notin I => m[T[i].name] = T[i].default
  BY DEF Given
<1>4. /\ \A i, j \in DOMAIN T : T[i].name = T[j].name => i = j
      /\ \A i \in DOMAIN T : T[i].name # "unknown" /\ (T[i].wire = Bytes => T[i].default = "")
  BY DEF WellFormed
<1>5. I \subseteq DOMAIN T
  BY DEF Given
<1> HIDE DEF I
<1> DEFINE For(i) == {k \in DOMAIN w : IsFor(w[k], T[i])}
           value == [i \in DOMAIN T |-> IF For(i) = {} THEN T[i].default ELSE w[Max(For(i))].val]
<1>6. ASSUME NEW i \in DOMAIN T PROVE value[i] = m[T[i].name]
  <2>1. CASE i \in I
    <3>1. For(i) = {Rank(I, i)} /\ Rank(I, i) \in Int
      BY <1>2, <2>1
    <3>2. Max({Rank(I, i)}) = Rank(I, i)
      BY <3>1 DEF Max
    <3> QED
      BY <1>2, <2>1, <3>1, <3>2
  <2>2. CASE i \notin I
    <3>1. For(i) = {}
      BY <1>2, <2>2
    <3> QED
      BY <1>3, <2>2, <3>1
  <2> QED
    BY <2>1, <2>2
<1>7. Selected(w, {k \in DOMAIN w : ~Known(T, w[k])}) = x
  <2>1. Selected(w, n+1 .. n+u) = [k \in 1..u |-> w[n + k]]
    <3>1. n \in Nat /\ u \in Nat
      BY <1>1
    <3> HIDE DEF Shape, x
    <3> QED
      BY <3>1, SelectedEnd, SMTT(30)
  <2>2. [k \in 1..u |-> w[n + k]] = [k \in 1..u |-> x[k]]
    BY <1>1
  <2> QED
    BY <1>1, <1>2, <2>1, <2>2
<1>8. Parse(T, w).msg = Message(T, value, x)
  <2>1. Parse(T, w).msg
          = Message(T, value, Selected(w, {k \in DOMAIN w : ~Known(T, w[k])}))
    BY DEF Parse
  <2> HIDE DEF value, x
  <2> QED
    BY <1>7, <2>1
<1> HIDE DEF value
<1>9. Message(T, value, x) = m
  <2> DEFINE at(name) == CHOOSE i \in DOMAIN T : T[i].name = name
  <2>1. ASSUME NEW i \in DOMAIN T PROVE at(T[i].name) = i
    BY <1>4
  <2>2. Message(T, value, x)
          = [name \in Names(T) |-> IF name = "unknown" THEN x ELSE value[at(name)]]
    BY DEF Message, Names
  <2>3. m = [name \in Names(T) |-> m[name]]
    BY DEF IsMessage
  <2> HIDE DEF at
  <2>4. ASSUME NEW name \in Names(T)
        PROVE  (IF name = "unknown" THEN x ELSE value[at(name)]) = m[name]
    <3>1. CASE name = "unknown"
      BY <3>1
    <3>2. ASSUME NEW i \in DOMAIN T, name = T[i].name
          PROVE  (IF name = "unknown" THEN x ELSE value[at(name)]) = m[name]
      <4>1. name # "unknown" /\ at(name) = i
        BY <1>4, <2>1, <3>2
      <4>2. value[i] = m[name]
        BY <1>6, <3>2
      <4> QED
        BY <4>1, <4>2
    <3>3. name = "unknown" \/ \E i \in DOMAIN T : name = T[i].name
      BY DEF Names
    <3> HIDE DEF x
    <3> QED
      BY <3>1, <3>2, <3>3
  <2> HIDE DEF x
  <2> QED
    BY <2>2, <2>3, <2>4
<1>10. Parse(T, w).ok <=> \A i \in DOMAIN T : T[i].wire = Bytes => m[T[i].name] \notin NotUtf8
  <2>1. Parse(T, w).ok <=> \A k \in DOMAIN w :
          Known(T, w[k]) /\ w[k].wire = Bytes => w[k].val \notin NotUtf8
    BY DEF Parse, Valid
  <2>2. \A k \in DOMAIN w : Known(T, w[k]) <=> \E i \in I : k = Rank(I, i)
    <3>1. \A k \in DOMAIN w : Known(T, w[k]) <=> \E i \in DOMAIN T : k \in For(i)
      BY DEF Known
    <3>2. \A i \in I : Rank(I, i) \in For(i)
      BY <1>2, <1>5
    <3>3. \A i \in DOMAIN T : \A k \in For(i) : i \in I /\ k = Rank(I, i)
      BY <1>2
    <3> HIDE DEF For
    <3> QED
      BY <1>5, <3>1, <3>2, <3>3
  <2>3. \A i \in I : Rank(I, i) \in DOMAIN w
    BY <1>1, <1>2
  <2>4. \A i \in DOMAIN T : i \notin I /\ T[i].wire = Bytes => m[T[i].name] \notin NotUtf8
    BY <1>3, <1>4, Utf8Assumption
  <2> QED
    BY <1>2, <1>5, <2>1, <2>2, <2>3, <2>4
<1> QED
  BY <1>8, <1>9, <1>10 DEF w
-----------------------------------------------------------------------------
(* The messages of the classes.                                             *)

\* A class with fields 1 to n that have these names.
Fields(T, n, names) ==
  /\ n \in Nat /\ DOMAIN T = 1..n
  /\ \A i \in 1..n : T[i] = Str(i, names[i]) \/ T[i] = Int32(i, names[i])
  /\ \A i, j \in 1..n : names[i] = names[j] => i = j
  /\ \A i \in 1..n : names[i] # "unknown"

LEMMA FieldsWellFormed ==
  ASSUME NEW T, NEW n, NEW names, Fields(T, n, names)
  PROVE  WellFormed(T)
<1>1. ASSUME NEW i \in 1..n
      PROVE  T[i].num = i /\ T[i].name = names[i] /\ (T[i].wire = Bytes => T[i].default = "")
  <2> DEFINE f == T[i]
             name == names[i]
  <2>1. f = Str(i, name) \/ f = Int32(i, name)
    BY DEF Fields
  <2> HIDE DEF f, name
  <2>2. CASE f = Str(i, name)
    <3>1. f.num = i /\ f.name = name /\ f.default = ""
      BY <2>2 DEF Str
    <3> QED
      BY <3>1 DEF f, name
  <2>3. CASE f = Int32(i, name)
    <3>1. f.num = i /\ f.name = name /\ f.wire = 0
      BY <2>3 DEF Int32, Varint
    <3> QED
      BY <3>1 DEF f, name, Bytes
  <2> QED
    BY <2>1, <2>2, <2>3
<1>2. ASSUME NEW i \in DOMAIN T, NEW j \in DOMAIN T, T[i].num = T[j].num \/ T[i].name = T[j].name
      PROVE  i = j
  <2>1. i \in 1..n /\ j \in 1..n
    BY DEF Fields
  <2>2. T[i].num = i /\ T[j].num = j /\ T[i].name = names[i] /\ T[j].name = names[j]
    BY <1>1, <2>1
  <2>3. i = j \/ names[i] = names[j]
    BY <1>2, <2>2
  <2> QED
    BY <2>1, <2>3 DEF Fields
<1>3. ASSUME NEW i \in DOMAIN T
      PROVE  T[i].name # "unknown" /\ (T[i].wire = Bytes => T[i].default = "")
  <2>1. i \in 1..n
    BY DEF Fields
  <2>2. T[i].name = names[i] /\ (T[i].wire = Bytes => T[i].default = "")
    BY <1>1, <2>1
  <2>3. T[i].name # "unknown"
    BY <2>1, <2>2 DEF Fields
  <2> QED
    BY <2>2, <2>3
<1> QED
  BY <1>2, <1>3 DEF Fields, WellFormed

LEMMA ClassesWellFormed ==
  /\ WellFormed(ProduceRequest) /\ WellFormed(ConsumeRequest)
  /\ WellFormed(ConsumeAckRequest) /\ WellFormed(ConsumeReply)
<1>1. WellFormed(ProduceRequest)
  <2> DEFINE T == ProduceRequest
             names == <<"topic", "group", "tag", "body", "delayLevel">>
  <2>1. /\ DOMAIN T = 1..5
        /\ T[1] = Str(1, names[1])
        /\ T[2] = Str(2, names[2])
        /\ T[3] = Str(3, names[3])
        /\ T[4] = Str(4, names[4])
        /\ T[5] = Int32(5, names[5])
    BY DEF ProduceRequest
  <2>2. \A i, j \in 1..5 : names[i] = names[j] => i = j
    OBVIOUS
  <2>3. \A i \in 1..5 : names[i] # "unknown"
    OBVIOUS
  <2> HIDE DEF T, names
  <2>4. \A i \in 1..5 : T[i] = Str(i, names[i]) \/ T[i] = Int32(i, names[i])
    BY <2>1
  <2>5. Fields(T, 5, names)
    BY <2>1, <2>2, <2>3, <2>4 DEF Fields
  <2> QED
    BY <2>5, FieldsWellFormed DEF T
<1>2. WellFormed(ConsumeRequest)
  <2> DEFINE T == ConsumeRequest
             names == <<"topic", "consumer_group">>
  <2>1. /\ DOMAIN T = 1..2
        /\ T[1] = Str(1, names[1])
        /\ T[2] = Str(2, names[2])
    BY DEF ConsumeRequest
  <2>2. \A i, j \in 1..2 : names[i] = names[j] => i = j
    OBVIOUS
  <2>3. \A i \in 1..2 : names[i] # "unknown"
    OBVIOUS
  <2> HIDE DEF T, names
  <2>4. \A i \in 1..2 : T[i] = Str(i, names[i]) \/ T[i] = Int32(i, names[i])
    BY <2>1
  <2>5. Fields(T, 2, names)
    BY <2>1, <2>2, <2>3, <2>4 DEF Fields
  <2> QED
    BY <2>5, FieldsWellFormed DEF T
<1>3. WellFormed(ConsumeAckRequest)
  <2> DEFINE T == ConsumeAckRequest
             names == <<"topic", "msg_id", "consumer_group", "status">>
  <2>1. /\ DOMAIN T = 1..4
        /\ T[1] = Str(1, names[1])
        /\ T[2] = Str(2, names[2])
        /\ T[3] = Str(3, names[3])
        /\ T[4] = Int32(4, names[4])
    BY DEF ConsumeAckRequest
  <2>2. \A i, j \in 1..4 : names[i] = names[j] => i = j
    OBVIOUS
  <2>3. \A i \in 1..4 : names[i] # "unknown"
    OBVIOUS
  <2> HIDE DEF T, names
  <2>4. \A i \in 1..4 : T[i] = Str(i, names[i]) \/ T[i] = Int32(i, names[i])
    BY <2>1
  <2>5. Fields(T, 4, names)
    BY <2>1, <2>2, <2>3, <2>4 DEF Fields
  <2> QED
    BY <2>5, FieldsWellFormed DEF T
<1>4. WellFormed(ConsumeReply)
  <2> DEFINE T == ConsumeReply
             names == <<"code", "msg_id", "body", "error_msg">>
  <2>1. /\ DOMAIN T = 1..4
        /\ T[1] = Int32(1, names[1])
        /\ T[2] = Str(2, names[2])
        /\ T[3] = Str(3, names[3])
        /\ T[4] = Str(4, names[4])
    BY DEF ConsumeReply
  <2>2. \A i, j \in 1..4 : names[i] = names[j] => i = j
    OBVIOUS
  <2>3. \A i \in 1..4 : names[i] # "unknown"
    OBVIOUS
  <2> HIDE DEF T, names
  <2>4. \A i \in 1..4 : T[i] = Str(i, names[i]) \/ T[i] = Int32(i, names[i])
    BY <2>1
  <2>5. Fields(T, 4, names)
    BY <2>1, <2>2, <2>3, <2>4 DEF Fields
  <2> QED
    BY <2>5, FieldsWellFormed DEF T
<1> QED
  BY <1>1, <1>2, <1>3, <1>4

\* A new message, and one with fields set.
LEMMA ClearIsMessage ==
  ASSUME NEW T, WellFormed(T)
  PROVE  /\ IsMessage(T, Clear(T))
         /\ \A i \in DOMAIN T : Clear(T)[T[i].name] = T[i].default
<1> DEFINE S == Names(T)
           value == [i \in DOMAIN T |-> T[i].default]
           at(name) == CHOOSE i \in DOMAIN T : T[i].name = name
           m == Clear(T)
<1>1. m = [name \in S |-> IF name = "unknown" THEN <<>> ELSE value[at(name)]]
  BY DEF Clear, Message, Names
<1>2. "unknown" \in S /\ \A i \in DOMAIN T : T[i].name \in S /\ T[i].name # "unknown"
  BY DEF Names, WellFormed
<1>3. \A i \in DOMAIN T : at(T[i].name) = i
  <2>1. \A i, j \in DOMAIN T : T[i].name = T[j].name => i = j
    BY DEF WellFormed
  <2> QED
    BY <2>1
<1> HIDE DEF S, at, m
<1>4. m = [name \in S |-> m[name]] /\ m["unknown"] = <<>>
  BY <1>1, <1>2
<1>5. \A i \in DOMAIN T : m[T[i].name] = T[i].default
  BY <1>1, <1>2, <1>3
<1>6. <<>> \in Seq({}) /\ DOMAIN <<>> = {}
  OBVIOUS
<1>7. \E A : m["unknown"] \in Seq(A)
  BY <1>4, <1>6
<1>8. \A k \in DOMAIN m["unknown"] : ~Known(T, m["unknown"][k])
  BY <1>4, <1>6
<1> QED
  BY <1>4, <1>5, <1>7, <1>8 DEF IsMessage, S, m

LEMMA SetIsMessage ==
  ASSUME NEW T, NEW m, IsMessage(T, m), NEW n, n = [name \in Names(T) |-> n[name]],
         n["unknown"] = m["unknown"]
  PROVE  IsMessage(T, n)
BY DEF IsMessage

\* With the fields of a newer Proxy.proto.
LEMMA NewerIsMessage ==
  ASSUME NEW T, WellFormed(T), NEW extra,
         \E S : extra \in Seq(S), \A i \in DOMAIN extra : ~Known(T, extra[i])
  PROVE  IsMessage(T, [Clear(T) EXCEPT !.unknown = extra])
<1> DEFINE S == Names(T)
           c == Clear(T)
           m == [c EXCEPT !.unknown = extra]
<1>1. c = [name \in S |-> c[name]] /\ "unknown" \in S
  BY ClearIsMessage DEF IsMessage, Names
<1> HIDE DEF S, c
<1>2. m = [name \in S |-> m[name]] /\ m["unknown"] = extra
  BY <1>1
<1> HIDE DEF m
<1>3. IsMessage(T, m)
  BY <1>2 DEF IsMessage, S
<1> QED
  BY <1>3 DEF c, m

\* With the fields of a request set.
LEMMA SetRequests ==
  /\ \A m, a, b, c, d, e :
       IsMessage(ProduceRequest, m) => IsMessage(ProduceRequest, SetProduceRequest(m, a, b, c, d, e))
  /\ \A m, a, b :
       IsMessage(ConsumeRequest, m) => IsMessage(ConsumeRequest, SetConsumeRequest(m, a, b))
  /\ \A m, a, b, c, d :
       IsMessage(ConsumeAckRequest, m) =>
         /\ IsMessage(ConsumeAckRequest, SetConsumeAckRequest(m, a, b, c, d))
         /\ SetConsumeAckRequest(m, a, b, c, d).msg_id = b
<1>1. ASSUME NEW m, NEW a, NEW b, NEW c, NEW d, NEW e, IsMessage(ProduceRequest, m)
      PROVE  IsMessage(ProduceRequest, SetProduceRequest(m, a, b, c, d, e))
  <2> DEFINE S == Names(ProduceRequest)
             n == SetProduceRequest(m, a, b, c, d, e)
  <2>1. m = [name \in S |-> m[name]] /\ "unknown" \in S
    BY <1>1 DEF IsMessage, Names
  <2>2. n = [m EXCEPT !.topic = a, !.group = b, !.tag = c, !.body = d, !.delayLevel = e]
    BY DEF SetProduceRequest
  <2> HIDE DEF S, n
  <2>3. n = [name \in S |-> n[name]] /\ n["unknown"] = m["unknown"]
    BY <2>1, <2>2
  <2>4. IsMessage(ProduceRequest, n)
    BY <1>1, <2>3, SetIsMessage DEF S
  <2> QED
    BY <2>4 DEF n
<1>2. ASSUME NEW m, NEW a, NEW b, IsMessage(ConsumeRequest, m)
      PROVE  IsMessage(ConsumeRequest, SetConsumeRequest(m, a, b))
  <2> DEFINE S == Names(ConsumeRequest)
             n == SetConsumeRequest(m, a, b)
  <2>1. m = [name \in S |-> m[name]] /\ "unknown" \in S
    BY <1>2 DEF IsMessage, Names
  <2>2. n = [m EXCEPT !.topic = a, !.consumer_group = b]
    BY DEF SetConsumeRequest
  <2> HIDE DEF S, n
  <2>3. n = [name \in S |-> n[name]] /\ n["unknown"] = m["unknown"]
    BY <2>1, <2>2
  <2>4. IsMessage(ConsumeRequest, n)
    BY <1>2, <2>3, SetIsMessage DEF S
  <2> QED
    BY <2>4 DEF n
<1>3. ASSUME NEW m, NEW a, NEW b, NEW c, NEW d, IsMessage(ConsumeAckRequest, m)
      PROVE  IsMessage(ConsumeAckRequest, SetConsumeAckRequest(m, a, b, c, d))
  <2> DEFINE S == Names(ConsumeAckRequest)
             n == SetConsumeAckRequest(m, a, b, c, d)
  <2>1. m = [name \in S |-> m[name]] /\ "unknown" \in S
    BY <1>3 DEF IsMessage, Names
  <2>2. n = [m EXCEPT !.topic = a, !.msg_id = b, !.consumer_group = c, !.status = d]
    BY DEF SetConsumeAckRequest
  <2> HIDE DEF S, n
  <2>3. n = [name \in S |-> n[name]] /\ n["unknown"] = m["unknown"]
    BY <2>1, <2>2
  <2>4. IsMessage(ConsumeAckRequest, n)
    BY <1>3, <2>3, SetIsMessage DEF S
  <2> QED
    BY <2>4 DEF n
<1>4. ASSUME NEW m, IsMessage(ConsumeAckRequest, m), NEW a, NEW b, NEW c, NEW d
      PROVE  SetConsumeAckRequest(m, a, b, c, d).msg_id = b
  <2> DEFINE T == ConsumeAckRequest
             S == Names(T)
  <2>1. m = [name \in S |-> m[name]]
    BY <1>4 DEF IsMessage
  <2>2. 2 \in DOMAIN T /\ T[2].name = "msg_id"
    <3>1. 2 \in DOMAIN T /\ T[2] = Str(2, "msg_id")
      BY DEF ConsumeAckRequest
    <3> DEFINE f == T[2]
    <3>2. f = Str(2, "msg_id")
      BY <3>1
    <3> HIDE DEF f, T
    <3>3. f.name = "msg_id"
      BY <3>2 DEF Str
    <3> QED
      BY <3>1, <3>3 DEF f
  <2> HIDE DEF T
  <2>3. "msg_id" \in S
    BY <2>2 DEF Names
  <2> HIDE DEF S
  <2> QED
    BY <2>1, <2>3 DEF SetConsumeAckRequest
<1> QED
  BY <1>1, <1>2, <1>3, <1>4
=============================================================================
