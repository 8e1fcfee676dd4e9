-------------------------- MODULE AuditTrail_proofs --------------------------
(***************************************************************************)
(* Proofs about AuditTrail, for every set of runs, rows, deployments and   *)
(* readers, every page size, number of attempts and scan limit; and about  *)
(* what is sorted the same way: the detections in a text, and the files of *)
(* a task, with what the sanitizer and the earlier orchestrator make of    *)
(* them; and about the figures computed from rows and runs.                *)
(***************************************************************************)
EXTENDS AuditTrail, Sanitizer, ContextAndPatch, Figures, FiniteSetTheorems, WellFoundedInduction, TLAPS

(* Orders *)

\* The pairs are a strict total order of the members of S.
Orders(before, S) ==
    /\ \A a, b \in S : <<a, b>> \in before \/ <<b, a>> \in before \/ a = b
    /\ \A a \in S : <<a, a>> \notin before
    /\ \A a, b, c \in S : <<a, b>> \in before /\ <<b, c>> \in before => <<a, c>> \in before

\* A list has every member of S, in the order.
Lists(q, n, S, before) ==
    /\ q \in [1 .. n -> S]
    /\ \A t \in S : \E i \in 1 .. n : q[i] = t
    /\ \A i, j \in 1 .. n : i < j => <<q[i], q[j]>> \in before

LEMMA InOrderIsExact ==
    ASSUME NEW S, IsFiniteSet(S), NEW before, Orders(before, S)
    PROVE  Cardinality(S) \in Nat /\ Lists(InOrder(S, before), Cardinality(S), S, before)
<1> DEFINE n == Cardinality(S)
<1> DEFINE under(a) == {b \in S : <<b, a>> \in before}
<1> DEFINE rank == [a \in S |-> Cardinality(under(a)) + 1]
<1>1. n \in Nat
  BY FS_CardinalityType
<1>2. ASSUME NEW a \in S
      PROVE  rank[a] \in 1 .. n /\ Cardinality(under(a)) \in Nat
  <2>1. under(a) \in SUBSET S /\ under(a) # S
    BY DEF Orders
  <2>2. IsFiniteSet(under(a)) /\ Cardinality(under(a)) <= n /\ Cardinality(under(a)) # n
    BY <2>1, FS_Subset
  <2>3. Cardinality(under(a)) \in Nat
    BY <2>2, FS_CardinalityType
  <2> QED
    BY <1>1, <2>2, <2>3
<1>3. ASSUME NEW a \in S, NEW b \in S, <<a, b>> \in before
      PROVE  rank[a] < rank[b]
  <2>1. under(a) \in SUBSET under(b) /\ under(a) # under(b) /\ under(b) \in SUBSET S
    BY <1>3 DEF Orders
  <2>2. IsFiniteSet(under(b))
    BY <2>1, FS_Subset
  <2>3. Cardinality(under(a)) <= Cardinality(under(b)) /\ Cardinality(under(a)) # Cardinality(under(b))
    BY <2>1, <2>2, FS_Subset
  <2> QED
    BY <1>2, <2>3
<1>4. rank \in [S -> 1 .. n]
  BY <1>2
<1>5. \A a \in S : \A i \in 1 .. n : Cardinality(under(a)) = i - 1 <=> rank[a] = i
  <2> SUFFICES ASSUME NEW a \in S, NEW i \in 1 .. n
               PROVE  Cardinality(under(a)) = i - 1 <=> rank[a] = i
    OBVIOUS
  <2>1. rank[a] = Cardinality(under(a)) + 1
    OBVIOUS
  <2> QED
    BY <1>1, <1>2, <2>1
<1> HIDE DEF rank
<1>6. \A a, b \in S : rank[a] = rank[b] => a = b
  <2>1. \A a \in S : rank[a] \in Int
    BY <1>1, <1>4
  <2>2. \A a, b \in S : <<a, b>> \in before => rank[a] # rank[b]
    BY <1>3, <2>1
  <2> QED
    BY <2>2 DEF Orders
<1>7. rank \in Injection(S, 1 .. n)
  BY <1>4, <1>6 DEF Injection, IsInjective
<1>8. IsFiniteSet(1 .. n) /\ Cardinality(1 .. n) = n
  BY <1>1, FS_Interval
<1>9. rank \in Surjection(S, 1 .. n)
  BY <1>7, <1>8, FS_Injection
<1>10. \A i \in 1 .. n : \E a \in S : Cardinality(under(a)) = i - 1
  BY <1>5, <1>9 DEF Surjection
<1> DEFINE q == InOrder(S, before)
<1>11. q = [i \in 1 .. n |-> CHOOSE a \in S : Cardinality(under(a)) = i - 1]
  BY DEF InOrder
<1> HIDE DEF q
<1>12. \A i \in 1 .. n : q[i] \in S /\ Cardinality(under(q[i])) = i - 1
  BY <1>10, <1>11
<1>13. \A i \in 1 .. n : rank[q[i]] = i
  BY <1>5, <1>12
<1>14. q \in [1 .. n -> S]
  BY <1>11, <1>12
<1> HIDE DEF n, under
<1>15. \A t \in S : \E i \in 1 .. n : q[i] = t
  BY <1>4, <1>6, <1>12, <1>13
<1>16. ASSUME NEW i \in 1 .. n, NEW j \in 1 .. n, i < j
       PROVE  <<q[i], q[j]>> \in before
  <2>1. q[i] \in S /\ q[j] \in S /\ rank[q[i]] = i /\ rank[q[j]] = j
    BY <1>12, <1>13
  <2>2. ~(rank[q[j]] < rank[q[i]]) /\ q[i] # q[j]
    BY <1>1, <1>16, <2>1
  <2> QED
    BY <1>3, <2>1, <2>2 DEF Orders
<1> QED
  BY <1>1, <1>14, <1>15, <1>16 DEF Lists, q, n

\* Finite sets of numbers, and images.
LEMMA ImageIsFinite ==
    ASSUME NEW S, IsFiniteSet(S), NEW f, NEW T, \A t \in T : \E s \in S : f[s] = t, \A s \in S : f[s] \in T
    PROVE  IsFiniteSet(T)
<1> DEFINE g == [s \in S |-> f[s]]
<1>1. g \in Surjection(S, T)
  BY DEF Surjection
<1> QED
  BY <1>1, FS_Surjection

LEMMA EndsOfNumbers ==
    ASSUME NEW S, S \subseteq Nat, IsFiniteSet(S), S # {}
    PROVE  /\ Max(S) \in S /\ \A s \in S : s <= Max(S)
           /\ Min(S) \in S /\ \A s \in S : Min(S) <= s
<1> DEFINE before == {e \in Nat \X Nat : e[1] < e[2]}
<1> DEFINE n == Cardinality(S)
<1> DEFINE q == InOrder(S, before)
<1>1. \A a, b \in Nat : <<a, b>> \in before <=> a < b
  OBVIOUS
<1>2. Orders(before, S)
  BY <1>1 DEF Orders
<1>3. n \in Nat /\ Lists(q, n, S, before)
  BY <1>2, InOrderIsExact
<1> HIDE DEF q, n, before
<1>4. \A t \in S : \E i \in 1 .. n : q[i] = t
  BY <1>3 DEF Lists
<1>5. 1 \in 1 .. n /\ n \in 1 .. n
  <2>1. PICK i \in 1 .. n : TRUE
    BY <1>4
  <2> QED
    BY <1>3, <2>1
<1>6. \A i \in 1 .. n : q[i] \in S /\ q[1] <= q[i] /\ q[i] <= q[n]
  <2>1. \A i \in 1 .. n : q[i] \in S /\ q[i] \in Nat
    BY <1>3 DEF Lists
  <2>2. \A i, j \in 1 .. n : i < j => q[i] < q[j]
    BY <1>1, <1>3, <2>1 DEF Lists
  <2> QED
    BY <1>3, <1>5, <2>1, <2>2
<1>7. \E m \in S : \A s \in S : m >= s
  BY <1>4, <1>5, <1>6
<1>8. \E m \in S : \A s \in S : m =< s
  <2>1. q[1] \in S /\ \A s \in S : q[1] =< s
    BY <1>4, <1>5, <1>6
  <2> QED
    BY <2>1
<1>9. Max(S) \in S /\ \A s \in S : Max(S) >= s
  BY <1>7 DEF Max
<1>10. Min(S) \in S /\ \A s \in S : Min(S) =< s
  BY <1>8 DEF Min
<1> QED
  BY <1>9, <1>10

\* A page is the beginning of a list: what is shown stays without repetition,
\* and nothing that is owed is left behind.
Turns(U, shown, rest, due, before, sorted, n, page, m) ==
    /\ shown \in Seq(U) /\ IsInjective(shown)
    /\ rest \subseteq U /\ ToSet(shown) \cap rest = {} /\ due \subseteq ToSet(shown) \cup rest
    /\ Orders(before, rest) /\ n \in Nat /\ Lists(sorted, n, rest, before)
    /\ m \in 0 .. n /\ page \in Seq(rest) /\ Len(page) = m /\ \A i \in 1 .. m : page[i] = sorted[i]

LEMMA PageGoesOn ==
    ASSUME NEW U, NEW shown, NEW rest, NEW due, NEW before, NEW sorted, NEW n, NEW page, NEW m,
           Turns(U, shown, rest, due, before, sorted, n, page, m)
    PROVE  /\ shown \o page \in Seq(U) /\ IsInjective(shown \o page)
           /\ ToSet(shown \o page) = ToSet(shown) \cup ToSet(page) /\ ToSet(page) \subseteq rest
           /\ m = n => due \subseteq ToSet(shown \o page)
           /\ m >= 1 => /\ page[m] \in rest
                        /\ \A t \in ToSet(page) : t = page[m] \/ <<t, page[m]>> \in before
                        /\ \A t \in rest : t \in ToSet(page) \/ <<page[m], t>> \in before
<1> DEFINE l == Len(shown)
<1> DEFINE new == shown \o page
<1> USE DEF Turns
<1>1. m \in Nat /\ m <= n /\ l \in Nat /\ (\A i \in 1 .. m : i \in 1 .. n) /\ page \in Seq(U)
  OBVIOUS
<1>2. new \in Seq(U) /\ Len(new) = l + m
  BY <1>1
<1>3. DOMAIN new = 1 .. l + m /\ DOMAIN shown = 1 .. l /\ DOMAIN page = 1 .. m
  BY <1>2
<1>4. (\A i \in 1 .. l : new[i] = shown[i]) /\ \A i \in 1 .. m : new[l + i] = page[i] /\ page[i] \in rest
  BY <1>1
<1> HIDE DEF l, new
<1>5. \A i \in 1 .. l + m : i \in 1 .. l \/ (i - l \in 1 .. m /\ i = l + (i - l) /\ i \notin 1 .. l)
  BY <1>1
<1>6. (\A i \in 1 .. l : i \in 1 .. l + m) /\ \A i \in 1 .. m : l + i \in 1 .. l + m
  BY <1>1
<1>7. ToSet(shown) = {shown[i] : i \in 1 .. l} /\ ToSet(page) = {page[i] : i \in 1 .. m} /\ ToSet(new) = {new[i] : i \in 1 .. l + m}
  BY <1>3 DEF ToSet
<1>8. ToSet(new) = ToSet(shown) \cup ToSet(page)
  <2>1. ASSUME NEW t \in ToSet(new)
        PROVE  t \in ToSet(shown) \cup ToSet(page)
    <3>1. PICK i \in 1 .. l + m : t = new[i]
      BY <1>7
    <3>2. CASE i \in 1 .. l
      BY <1>4, <1>7, <3>1, <3>2
    <3>3. CASE i \notin 1 .. l
      <4>1. PICK k \in 1 .. m : i = l + k
        BY <1>5, <3>3
      <4> QED
        BY <1>4, <1>7, <3>1, <4>1
    <3> QED
      BY <3>2, <3>3
  <2>2. \A i \in 1 .. l : shown[i] \in ToSet(new)
    BY <1>4, <1>6, <1>7
  <2>3. \A i \in 1 .. m : page[i] \in ToSet(new)
    BY <1>4, <1>6, <1>7
  <2>4. ToSet(shown) \subseteq ToSet(new)
    BY <1>7, <2>2
  <2>5. ToSet(page) \subseteq ToSet(new)
    BY <1>7, <2>3
  <2> HIDE DEF new
  <2> QED
    BY <2>1, <2>4, <2>5
<1>9. ToSet(page) \subseteq rest
  BY <1>4, <1>7
<1>10. \A i, j \in 1 .. m : i < j => <<page[i], page[j]>> \in before
  BY <1>1 DEF Lists
<1>11. ASSUME NEW i \in 1 .. l + m, NEW j \in 1 .. l + m, i < j
       PROVE  new[i] # new[j]
  <2>1. CASE j \in 1 .. l
    <3>1. i \in 1 .. l /\ i # j
      BY <1>1, <1>11, <2>1
    <3> QED
      BY <1>3, <1>4, <2>1, <3>1 DEF IsInjective
  <2>2. CASE i \in 1 .. l /\ j \notin 1 .. l
    BY <1>4, <1>5, <1>7, <2>2
  <2>3. CASE i \notin 1 .. l
    <3>1. j \notin 1 .. l
      BY <1>1, <1>11, <2>3
    <3>2. PICK a \in 1 .. m : i = l + a
      BY <1>5, <2>3
    <3>3. PICK b \in 1 .. m : j = l + b
      BY <1>5, <3>1
    <3>4. a < b /\ page[a] \in rest
      BY <1>1, <1>4, <1>11, <3>2, <3>3
    <3>5. <<page[a], page[b]>> \in before
      BY <1>10, <3>4
    <3> QED
      BY <1>4, <3>2, <3>3, <3>4, <3>5 DEF Orders
  <2> QED
    BY <2>1, <2>2, <2>3
<1>12. IsInjective(new)
  <2>1. \A i, j \in 1 .. l + m : i < j \/ j < i \/ i = j
    BY <1>1
  <2> QED
    BY <1>3, <1>11, <2>1 DEF IsInjective
<1>13. ASSUME m = n
       PROVE  due \subseteq ToSet(new)
  <2>1. due \subseteq ToSet(shown) \cup rest
    OBVIOUS
  <2>2. \A t \in rest : \E i \in 1 .. m : page[i] = t
    BY <1>13 DEF Lists
  <2>3. rest \subseteq ToSet(page)
    BY <1>7, <2>2
  <2> HIDE DEF Turns
  <2> QED
    BY <1>8, <2>1, <2>3
<1>14. ASSUME m >= 1
       PROVE  /\ page[m] \in rest
              /\ \A t \in ToSet(page) : t = page[m] \/ <<t, page[m]>> \in before
              /\ \A t \in rest : t \in ToSet(page) \/ <<page[m], t>> \in before
  <2>1. m \in 1 .. m /\ m \in 1 .. n
    BY <1>1, <1>14
  <2>2. ASSUME NEW t \in rest
        PROVE  t \in ToSet(page) \/ <<page[m], t>> \in before
    <3>1. PICK i \in 1 .. n : sorted[i] = t
      BY DEF Lists
    <3>2. CASE i <= m
      BY <1>1, <1>7, <3>1, <3>2
    <3>3. CASE m < i
      BY <2>1, <3>1, <3>3 DEF Lists
    <3> QED
      BY <1>1, <3>2, <3>3
  <2>3. ASSUME NEW i \in 1 .. m
        PROVE  page[i] = page[m] \/ <<page[i], page[m]>> \in before
    <3>1. i = m \/ i < m
      BY <1>1
    <3> QED
      BY <1>10, <2>1, <3>1
  <2> QED
    BY <1>4, <1>7, <2>1, <2>2, <2>3
<1> QED
  BY <1>2, <1>8, <1>9, <1>12, <1>13, <1>14 DEF new

----------------------------------------------------------------------------
(* Deployments and files *)

Kinds == {"file", "object", "siem"}
Part == Runs \X Rows \X (1 .. 2)
Line == [parts : Seq(Part), ended : BOOLEAN]

\* A line is never empty, it is ended when its last piece is the end of a row,
\* and only the last one of a file may still be open.
FileFits(lines) ==
    /\ lines \in Seq(Line)
    /\ \A l \in 1 .. Len(lines) :
        /\ lines[l].parts # <<>>
        /\ l < Len(lines) => lines[l].ended
        /\ lines[l].ended <=> Last(lines[l].parts)[3] = 2

FilesFit == scene \in Scenes /\ file \in [Files -> Seq(Line)] /\ \A f \in Files : FileFits(file[f])

\* Lines that are ended stay as they are.
Grows(old, new) == Len(old) <= Len(new) /\ \A l \in 1 .. Len(old) : old[l].ended => new[l] = old[l]

LEMMA DeploymentFits ==
    ASSUME scene \in Scenes
    PROVE  /\ scene \in Scene
           /\ Sinks \in Seq(Kinds) /\ Len(Sinks) \in Nat \ {0} /\ DOMAIN Sinks = 1 .. Len(Sinks)
           /\ \A i, j \in 1 .. Len(Sinks) : Sinks[i] = Sinks[j] => i = j
           /\ Files \subseteq Nat /\ IsFiniteSet(Files) /\ \A r \in Runs : FileOf(r) \in Files
<1>1. scene \in Scene /\ Sinks # <<>> /\ IsInjective(Sinks)
  BY AuditTrailAssumption DEF Sinks
<1>2. Sinks \in SeqOf(Kinds, 3) /\ scene.file \in [Runs -> Nat \ {0}]
  BY <1>1 DEF Scene, Sinks, Kinds
<1>3. PICK m \in 0 .. 3 : Sinks \in [1 .. m -> Kinds]
  BY <1>2 DEF SeqOf
<1>4. Sinks \in Seq(Kinds)
  BY <1>3
<1> HIDE DEF Kinds
<1>5. Len(Sinks) \in Nat \ {0} /\ DOMAIN Sinks = 1 .. Len(Sinks)
  BY <1>1, <1>4
<1>6. \A i, j \in 1 .. Len(Sinks) : Sinks[i] = Sinks[j] => i = j
  BY <1>1, <1>5 DEF IsInjective
<1> DEFINE numbers == {FileOf(r) : r \in Runs}
<1>7. \A r \in Runs : FileOf(r) \in Nat \ {0}
  BY <1>2 DEF FileOf
<1>8. numbers \subseteq Nat /\ numbers # {} /\ IsFiniteSet(Runs)
  BY <1>7, AuditTrailAssumption
<1>9. IsFiniteSet(numbers)
  <2> DEFINE f == [r \in Runs |-> FileOf(r)]
  <2>1. (\A t \in numbers : \E s \in Runs : f[s] = t) /\ \A s \in Runs : f[s] \in numbers
    OBVIOUS
  <2> HIDE DEF f, numbers
  <2> QED
    BY <1>8, <2>1, ImageIsFinite
<1>10. Files = 1 .. Max(numbers) /\ \A r \in Runs : FileOf(r) \in numbers
  BY DEF Files
<1> HIDE DEF numbers
<1>11. Max(numbers) \in Nat /\ \A s \in numbers : s <= Max(numbers)
  BY <1>8, <1>9, EndsOfNumbers
<1>12. Files \subseteq Nat /\ IsFiniteSet(Files) /\ \A r \in Runs : FileOf(r) \in Files
  <2>1. PICK most \in Nat : most = Max(numbers)
    BY <1>11
  <2>2. Files = 1 .. most /\ IsFiniteSet(1 .. most)
    BY <1>10, <2>1, FS_Interval
  <2>3. \A r \in Runs : FileOf(r) \in Nat \ {0} /\ FileOf(r) <= most
    BY <1>7, <1>10, <1>11, <2>1
  <2> QED
    BY <2>2, <2>3
<1> QED
  BY <1>1, <1>4, <1>5, <1>6, <1>12

\* What an append does to a list of lines: the last one is continued, or a new
\* one is begun.
LEMMA LastIsReplaced ==
    ASSUME NEW S, NEW s \in Seq(S), s # <<>>, NEW e \in S
    PROVE  LET t == Front(s) \o <<e>>
           IN  /\ t \in Seq(S) /\ Len(t) = Len(s) /\ t[Len(s)] = e /\ Len(s) \in 1 .. Len(s)
               /\ \A l \in 1 .. Len(s) : l # Len(s) => t[l] = s[l]
<1> DEFINE f == Front(s)
<1>1. Len(s) \in Nat /\ Len(s) >= 1
  OBVIOUS
<1>2. f \in Seq(S) /\ Len(f) = Len(s) - 1 /\ \A l \in 1 .. Len(s) - 1 : f[l] = s[l]
  <2>1. f = SubSeq(s, 1, Len(s) - 1)
    BY DEF Front
  <2>2. Len(s) - 1 \in Nat /\ Len(s) - 1 <= Len(s)
    BY <1>1
  <2> HIDE DEF f
  <2>3. Len(f) = Len(s) - 1
    <3>1. PICK k \in Nat : k = Len(s) - 1
      BY <2>2
    <3>2. Len(SubSeq(s, 1, k)) = IF 1 <= k THEN k - 1 + 1 ELSE 0
      BY <1>1, <3>1
    <3>3. Len(SubSeq(s, 1, k)) = k
      BY <3>2
    <3> QED
      BY <2>1, <3>1, <3>3
  <2>4. \A l \in 1 .. Len(s) - 1 : f[l] = s[l]
    BY <1>1, <2>1, <2>2
  <2>5. f \in Seq(S)
    BY <1>1, <2>1, <2>2
  <2> QED
    BY <2>3, <2>4, <2>5
<1> HIDE DEF f
<1>3. \A l \in 1 .. Len(s) : l # Len(s) => l \in 1 .. Len(s) - 1
  BY <1>1
<1>4. f \o <<e>> \in Seq(S) /\ Len(f \o <<e>>) = Len(s) /\ (f \o <<e>>)[Len(s)] = e /\ \A l \in 1 .. Len(s) - 1 : (f \o <<e>>)[l] = s[l]
  BY <1>1, <1>2
<1> QED
  BY <1>1, <1>3, <1>4 DEF f

LEMMA LastIsAdded ==
    ASSUME NEW S, NEW s \in Seq(S), NEW e \in S
    PROVE  LET t == Append(s, e)
           IN  /\ t \in Seq(S) /\ Len(t) = Len(s) + 1 /\ t[Len(s) + 1] = e /\ Len(s) \in Nat
               /\ \A l \in 1 .. Len(s) : t[l] = s[l]
OBVIOUS

\* The line that text is appended to, its number, and what it becomes.
Target(f) == IF Open(f) THEN Len(file[f]) ELSE Len(file[f]) + 1
Before(f) == IF Open(f) THEN Last(file[f]).parts ELSE <<>>

GoesToTheEnd(f, part, ended) ==
    LET new == Appended(f, part, ended)
        last == [parts |-> Append(Before(f), part), ended |-> ended]
    IN  /\ FileFits(new) /\ Grows(file[f], new)
        /\ Len(new) = Target(f) /\ Target(f) \in Nat \ {0} /\ new[Target(f)] = last
        /\ \A l \in 1 .. Target(f) : l # Target(f) => l \in 1 .. Len(file[f]) /\ new[l] = file[f][l]
        /\ Before(f) \in Seq(Part) /\ (Open(f) => Before(f) # <<>> /\ Last(Before(f))[3] # 2)
        /\ last \in Line /\ Last(last.parts) = part

LEMMA AppendsGoToTheEnd ==
    ASSUME FilesFit, NEW f \in Files, NEW part \in Part, NEW ended \in BOOLEAN, ended <=> part[3] = 2
    PROVE  GoesToTheEnd(f, part, ended)
<1> DEFINE s == file[f]
<1> DEFINE new == Appended(f, part, ended)
<1> DEFINE last == [parts |-> Append(Before(f), part), ended |-> ended]
<1> DEFINE n == Target(f)
<1>1. s \in Seq(Line) /\ FileFits(s) /\ Len(s) \in Nat
  BY DEF FilesFit
<1>2. Open(f) => s # <<>> /\ Len(s) \in 1 .. Len(s) /\ s[Len(s)] \in Line /\ Last(s) = s[Len(s)] /\ ~s[Len(s)].ended
  BY <1>1 DEF Open, Last
<1>3. Before(f) \in Seq(Part) /\ (Open(f) => Before(f) # <<>> /\ Last(Before(f))[3] # 2)
  <2>1. CASE Open(f)
    <3>1. PICK x \in Line : x = s[Len(s)]
      BY <1>2, <2>1
    <3>2. Before(f) = x.parts /\ x.parts # <<>> /\ (x.ended <=> Last(x.parts)[3] = 2) /\ ~x.ended
      BY <1>1, <1>2, <2>1, <3>1 DEF Before, FileFits
    <3> QED
      BY <3>1, <3>2 DEF Line
  <2>2. CASE ~Open(f)
    BY <2>2 DEF Before
  <2> QED
    BY <2>1, <2>2
<1>4. last \in Line /\ last.parts = Append(Before(f), part) /\ last.ended = ended
  BY <1>3 DEF Line
<1>5. last.parts # <<>> /\ Last(last.parts) = part
  BY <1>3, <1>4 DEF Last
<1>6. new = IF Open(f) THEN Front(s) \o <<last>> ELSE Append(s, last)
  BY <1>2 DEF Appended, Before
<1>7. n = IF Open(f) THEN Len(s) ELSE Len(s) + 1
  BY DEF Target
<1> HIDE DEF s, new, last, n
<1>8. /\ new \in Seq(Line) /\ Len(new) = n /\ n \in Nat \ {0} /\ new[n] = last
      /\ \A l \in 1 .. n : l # n => l \in 1 .. Len(s) /\ new[l] = s[l]
  <2>1. CASE Open(f)
    <3>1. new = Front(s) \o <<last>> /\ n = Len(s) /\ s # <<>>
      BY <1>2, <1>6, <1>7, <2>1
    <3> QED
      BY <1>1, <1>4, <3>1, LastIsReplaced
  <2>2. CASE ~Open(f)
    <3>1. new = Append(s, last) /\ n = Len(s) + 1
      BY <1>6, <1>7, <2>2
    <3>2. \A l \in 1 .. n : l # n => l \in 1 .. Len(s)
      BY <1>1, <3>1
    <3> QED
      BY <1>1, <1>4, <3>1, <3>2, LastIsAdded
  <2> QED
    BY <2>1, <2>2
<1>9. \A l \in 1 .. Len(s) : ~Open(f) => s[l].ended
  <2> SUFFICES ASSUME NEW l \in 1 .. Len(s), ~Open(f)
               PROVE  s[l].ended
    OBVIOUS
  <2>1. CASE l < Len(s)
    BY <1>1, <2>1 DEF FileFits
  <2>2. CASE l = Len(s)
    <3>1. s # <<>> /\ Last(s) = s[l]
      BY <1>1, <2>2 DEF Last
    <3> QED
      BY <3>1 DEF Open, s
  <2> QED
    BY <1>1, <2>1, <2>2
<1>10. \A l \in 1 .. n : l # n => new[l].ended
  <2> SUFFICES ASSUME NEW l \in 1 .. n, l # n
               PROVE  s[l].ended
    BY <1>8
  <2>1. l \in 1 .. Len(s)
    BY <1>8
  <2>2. CASE Open(f)
    <3>1. l < Len(s)
      BY <1>1, <1>7, <2>1, <2>2
    <3> QED
      BY <1>1, <2>1, <3>1 DEF FileFits
  <2> QED
    BY <1>9, <2>1, <2>2
<1>11. FileFits(new)
  <2> SUFFICES ASSUME NEW l \in 1 .. n
               PROVE  /\ new[l].parts # <<>>
                      /\ l < n => new[l].ended
                      /\ new[l].ended <=> Last(new[l].parts)[3] = 2
    BY <1>8 DEF FileFits
  <2>1. l < n => l # n
    BY <1>8
  <2>2. CASE l # n
    <3>1. l \in 1 .. Len(s) /\ new[l] = s[l]
      BY <1>8, <2>2
    <3> QED
      BY <1>1, <1>10, <2>2, <3>1 DEF FileFits
  <2>3. CASE l = n
    BY <1>4, <1>5, <1>8, <2>1, <2>3
  <2> QED
    BY <2>2, <2>3
<1>12. Grows(s, new)
  <2>1. Len(s) <= n /\ (\A l \in 1 .. Len(s) : l \in 1 .. n)
    BY <1>1, <1>7
  <2>2. ASSUME NEW l \in 1 .. Len(s), s[l].ended
        PROVE  l # n
    <3> SUFFICES ASSUME l = n
                 PROVE  FALSE
      OBVIOUS
    <3>1. Open(f)
      BY <1>1, <1>7
    <3> QED
      BY <1>2, <1>7, <2>2, <3>1 DEF s
  <2> QED
    BY <1>8, <2>1, <2>2 DEF Grows
<1> QED
  BY <1>3, <1>4, <1>5, <1>8, <1>11, <1>12 DEF s, new, last, n, GoesToTheEnd

----------------------------------------------------------------------------
(* What can be read from the files *)

\* A line that is decoded is ended, and its last piece tells its row.
LEMMA DecodedLines ==
    ASSUME scene \in Scenes, NEW line \in Line
    PROVE  /\ RowOf(line) # None => \E r \in Runs, i \in Rows :
                /\ RowOf(line) = <<r, i>> /\ Last(line.parts) = <<r, i, 2>>
                /\ line.parts = IF r \in Bulky THEN <<<<r, i, 1>>, <<r, i, 2>>>> ELSE <<<<r, i, 2>>>>
           /\ \A r \in Runs, i \in Rows :
                line.parts = (IF r \in Bulky THEN <<<<r, i, 1>>, <<r, i, 2>>>> ELSE <<<<r, i, 2>>>>) => RowOf(line) = <<r, i>>
<1> DEFINE short == {<<<<r, i, 2>>>> : r \in Runs \ Bulky, i \in Rows}
<1> DEFINE long == {<<<<r, i, 1>>, <<r, i, 2>>>> : r \in Bulky, i \in Rows}
<1> DEFINE found == <<Head(line.parts)[1], Head(line.parts)[2]>>
<1>1. RowOf(line) = IF line.parts \in short \cup long THEN found ELSE None
  BY DEF RowOf
<1>2. Bulky \subseteq Runs
  BY DeploymentFits DEF Scene, Bulky
<1>3. ASSUME NEW r \in Runs, NEW i \in Rows, r \notin Bulky, line.parts = <<<<r, i, 2>>>>
      PROVE  found = <<r, i>> /\ Last(line.parts) = <<r, i, 2>>
  BY <1>3 DEF Last
<1>4. ASSUME NEW r \in Runs, NEW i \in Rows, r \in Bulky, line.parts = <<<<r, i, 1>>, <<r, i, 2>>>>
      PROVE  found = <<r, i>> /\ Last(line.parts) = <<r, i, 2>>
  BY <1>4 DEF Last
<1> HIDE DEF found
<1>5. ASSUME line.parts \in short \cup long
      PROVE  \E r \in Runs, i \in Rows :
                /\ found = <<r, i>> /\ Last(line.parts) = <<r, i, 2>>
                /\ line.parts = IF r \in Bulky THEN <<<<r, i, 1>>, <<r, i, 2>>>> ELSE <<<<r, i, 2>>>>
  <2>1. CASE line.parts \in short
    <3>1. PICK r \in Runs \ Bulky, i \in Rows : line.parts = <<<<r, i, 2>>>>
      BY <2>1
    <3> QED
      BY <1>3, <3>1
  <2>2. CASE line.parts \in long
    <3>1. PICK r \in Bulky, i \in Rows : line.parts = <<<<r, i, 1>>, <<r, i, 2>>>>
      BY <2>2
    <3> QED
      BY <1>2, <1>4, <3>1
  <2> HIDE DEF short, long
  <2> QED
    BY <1>5, <2>1, <2>2
<1>6. ASSUME NEW r \in Runs, NEW i \in Rows,
             line.parts = IF r \in Bulky THEN <<<<r, i, 1>>, <<r, i, 2>>>> ELSE <<<<r, i, 2>>>>
      PROVE  RowOf(line) = <<r, i>>
  <2>1. CASE r \in Bulky
    <3>1. line.parts \in long
      BY <1>6, <2>1
    <3> QED
      BY <1>1, <1>4, <1>6, <2>1, <3>1
  <2>2. CASE r \notin Bulky
    <3>1. line.parts \in short
      BY <1>6, <2>2
    <3> QED
      BY <1>1, <1>3, <1>6, <2>2, <3>1
  <2> QED
    BY <2>1, <2>2
<1> HIDE DEF short, long
<1>7. RowOf(line) # None => RowOf(line) = found /\ line.parts \in short \cup long
  BY <1>1
<1> QED
  BY <1>5, <1>6, <1>7

LEMMA PlacesOfLines ==
    /\ \A f \in Files : \A l \in 1 .. Len(file[f]) : <<f, l>> \in Positions
    /\ \A p \in Positions : p[1] \in Files /\ p[2] \in 1 .. Len(file[p[1]]) /\ p = <<p[1], p[2]>>
BY DEF Positions

\* The decoded lines stay where they are.
RowsStay ==
    /\ Positions \subseteq Positions'
    /\ \A p \in Positions : RowAt(p) # None => RowAt(p)' = RowAt(p)

LEMMA GrowingKeepsRows ==
    ASSUME FilesFit, scene' = scene, FilesFit', \A f \in Files : Grows(file[f], file'[f])
    PROVE  RowsStay
<1>1. Files' = Files /\ Bulky' = Bulky
  BY DEF Files, FileOf, Bulky
<1>2. \A f \in Files : Len(file[f]) \in Nat /\ Len(file'[f]) \in Nat /\ Len(file[f]) <= Len(file'[f])
  BY <1>1 DEF FilesFit, Grows
<1>3. \A f \in Files : \A l \in 1 .. Len(file[f]) : l \in 1 .. Len(file'[f])
  BY <1>2
<1>4. ASSUME NEW p \in Positions
      PROVE  p \in Positions' /\ p[1] \in Files /\ p[2] \in 1 .. Len(file[p[1]])
  <2>1. p[1] \in Files /\ p[2] \in 1 .. Len(file[p[1]]) /\ p = <<p[1], p[2]>>
    BY PlacesOfLines
  <2>2. PICK f, l : f \in Files /\ l \in 1 .. Len(file[f]) /\ p = <<f, l>>
    BY <2>1
  <2>3. l \in 1 .. Len(file'[f])
    BY <1>3, <2>2
  <2>4. p \in Positions'
    BY <1>1, <2>2, <2>3 DEF Positions
  <2> QED
    BY <2>1, <2>4
<1>5. ASSUME NEW p \in Positions, RowAt(p) # None
      PROVE  RowAt(p)' = RowAt(p)
  <2> DEFINE line == file[p[1]][p[2]]
  <2>1. line \in Line /\ RowOf(line) # None
    BY <1>4, <1>5 DEF RowAt, FilesFit
  <2>2. line.ended
    <3>1. PICK r \in Runs, i \in Rows : Last(line.parts) = <<r, i, 2>>
      BY <2>1, DecodedLines DEF FilesFit
    <3>2. line.ended <=> Last(line.parts)[3] = 2
      BY <1>4 DEF FilesFit, FileFits
    <3> QED
      BY <3>1, <3>2
  <2>3. file'[p[1]][p[2]] = line
    BY <1>4, <2>2 DEF Grows
  <2>4. RowAt(p)' = RowOf(file'[p[1]][p[2]])
    BY <1>1 DEF RowAt, RowOf
  <2> QED
    BY <2>3, <2>4 DEF RowAt
<1> QED
  BY <1>4, <1>5 DEF RowsStay

LEMMA ListsAreJoined ==
    ASSUME NEW S, NEW s \in Seq(S), NEW k \in Nat, NEW t \in [1 .. k -> S]
    PROVE  /\ s \o t \in Seq(S) /\ Len(s \o t) = Len(s) + k
           /\ \A l \in 1 .. Len(s) : (s \o t)[l] = s[l]
           /\ \A i \in 1 .. k : (s \o t)[Len(s) + i] = t[i]
<1>1. t \in Seq(S) /\ Len(t) = k
  OBVIOUS
<1> QED
  BY <1>1

\* A batch that is written in one piece: its first row goes where text is
\* appended, and every other one gets a line of its own.
LEMMA BatchesGoToTheEnd ==
    ASSUME FilesFit, NEW r \in Runs, AppendBatch(r)
    PROVE  LET f == FileOf(r)
               n == Target(f)
               new == file'[f]
           IN  /\ file' = [file EXCEPT ![f] = new] /\ FileFits(new) /\ Grows(file[f], new)
               /\ Len(new) = n + Cardinality(Rows) - 1 /\ n \in Nat \ {0}
               /\ new[n] = [parts |-> Append(Before(f), <<r, 1, 2>>), ended |-> TRUE] /\ new[n] \in Line
               /\ \A i \in Rows : i # 1 => new[n + i - 1] = [parts |-> <<<<r, i, 2>>>>, ended |-> TRUE]
               /\ \A l \in 1 .. Len(new) : \/ l \in 1 .. Len(file[f]) /\ l < n /\ new[l] = file[f][l]
                                           \/ l = n
                                           \/ \E i \in Rows : i # 1 /\ l = n + i - 1
<1> DEFINE f == FileOf(r)
<1> DEFINE n == Target(f)
<1> DEFINE k == Cardinality(Rows)
<1> DEFINE first == Appended(f, <<r, 1, 2>>, TRUE)
<1> DEFINE others == [i \in 1 .. k - 1 |-> [parts |-> <<<<r, i + 1, 2>>>>, ended |-> TRUE]]
<1> DEFINE new == first \o others
<1>1. file' = [file EXCEPT ![f] = new]
  BY DEF AppendBatch
<1>2. f \in Files /\ file'[f] = new
  BY <1>1, DeploymentFits DEF FilesFit
<1>3. k \in Nat \ {0} /\ Rows = 1 .. k
  <2>1. k \in Nat /\ Rows = 1 .. k /\ Rows # {}
    BY AuditTrailAssumption, FS_CardinalityType
  <2> HIDE DEF k
  <2> QED
    BY <2>1
<1>4. \A i \in Rows : <<r, i, 2>> \in Part /\ [parts |-> <<<<r, i, 2>>>>, ended |-> TRUE] \in Line
  BY DEF Part, Line
<1>5. 1 \in Rows /\ \A i \in 1 .. k - 1 : i + 1 \in Rows
  <2> HIDE DEF k
  <2> QED
    BY <1>3
<1>6. others \in [1 .. k - 1 -> Line] /\ k - 1 \in Nat
  BY <1>3, <1>4, <1>5
<1>7. /\ FileFits(first) /\ Grows(file[f], first)
      /\ Len(first) = n /\ n \in Nat \ {0} /\ first[n] = [parts |-> Append(Before(f), <<r, 1, 2>>), ended |-> TRUE]
      /\ \A l \in 1 .. n : l # n => l \in 1 .. Len(file[f]) /\ first[l] = file[f][l]
      /\ first[n] \in Line /\ Last(first[n].parts) = <<r, 1, 2>>
  <2>1. PICK part \in Part : part = <<r, 1, 2>> /\ part[3] = 2
    BY <1>4, <1>5
  <2>2. PICK g \in Files : g = f
    BY <1>2
  <2> DEFINE text == Appended(g, part, TRUE)
  <2>3. /\ FileFits(text) /\ Grows(file[g], text)
        /\ Len(text) = Target(g) /\ Target(g) \in Nat \ {0} /\ text[Target(g)] = [parts |-> Append(Before(g), part), ended |-> TRUE]
        /\ \A l \in 1 .. Target(g) : l # Target(g) => l \in 1 .. Len(file[g]) /\ text[l] = file[g][l]
        /\ [parts |-> Append(Before(g), part), ended |-> TRUE] \in Line /\ Last(Append(Before(g), part)) = part
    <3>1. GoesToTheEnd(g, part, TRUE)
      BY <2>1, AppendsGoToTheEnd
    <3>2. [parts |-> Append(Before(g), part), ended |-> TRUE].parts = Append(Before(g), part)
      OBVIOUS
    <3> QED
      BY <3>1, <3>2 DEF GoesToTheEnd
  <2>4. first = text /\ n = Target(g) /\ Before(f) = Before(g)
    BY <2>1, <2>2
  <2> DEFINE last == [parts |-> Append(Before(g), part), ended |-> TRUE]
  <2>5. last.parts = Append(Before(g), part)
    OBVIOUS
  <2> HIDE DEF first, n, text, f, last
  <2>6. first[n] = last /\ last \in Line /\ Last(first[n].parts) = part
    BY <2>3, <2>4, <2>5 DEF last
  <2>7. last = [parts |-> Append(Before(f), <<r, 1, 2>>), ended |-> TRUE]
    BY <2>1, <2>4 DEF last
  <2>8. FileFits(first) /\ Grows(file[f], first) /\ Len(first) = n /\ n \in Nat \ {0}
    BY <2>2, <2>3, <2>4
  <2>9. \A l \in 1 .. n : l # n => l \in 1 .. Len(file[f]) /\ first[l] = file[f][l]
    BY <2>2, <2>3, <2>4
  <2> QED
    BY <2>1, <2>6, <2>7, <2>8, <2>9
<1>8. \A i \in 1 .. k - 1 : others[i] = [parts |-> <<<<r, i + 1, 2>>>>, ended |-> TRUE]
  OBVIOUS
<1> HIDE DEF first, others, n, k, f
<1>9. first \in Seq(Line)
  BY <1>7 DEF FileFits
<1>10. /\ new \in Seq(Line) /\ Len(new) = n + (k - 1)
       /\ \A l \in 1 .. n : new[l] = first[l]
       /\ \A i \in 1 .. k - 1 : new[n + i] = others[i]
  <2>1. PICK j \in Nat : j = k - 1
    BY <1>6
  <2>2. others \in [1 .. j -> Line]
    BY <1>6, <2>1
  <2>3. /\ first \o others \in Seq(Line) /\ Len(first \o others) = Len(first) + j
        /\ \A l \in 1 .. Len(first) : (first \o others)[l] = first[l]
        /\ \A i \in 1 .. j : (first \o others)[Len(first) + i] = others[i]
    BY <1>9, <2>2, ListsAreJoined
  <2> QED
    BY <1>7, <2>1, <2>3
<1> HIDE DEF new
<1>11. \A l \in 1 .. Len(new) : l \in 1 .. n \/ \E i \in 1 .. k - 1 : l = n + i
  <2> SUFFICES ASSUME NEW l \in 1 .. Len(new), l \notin 1 .. n
               PROVE  \E i \in 1 .. k - 1 : l = n + i
    OBVIOUS
  <2>1. l - n \in 1 .. k - 1 /\ l = n + (l - n)
    BY <1>3, <1>7, <1>10
  <2> QED
    BY <2>1
<1>12. \A i \in 1 .. k - 1 : new[n + i].ended /\ new[n + i].parts # <<>> /\ Last(new[n + i].parts)[3] = 2
  <2> SUFFICES ASSUME NEW i \in 1 .. k - 1
               PROVE  new[n + i].ended /\ new[n + i].parts # <<>> /\ Last(new[n + i].parts)[3] = 2
    OBVIOUS
  <2>1. new[n + i] = [parts |-> <<<<r, i + 1, 2>>>>, ended |-> TRUE]
    BY <1>8, <1>10
  <2> QED
    BY <2>1 DEF Last
<1>13. first[n].ended /\ \A l \in 1 .. n : first[l].ended /\ first[l].parts # <<>> /\ Last(first[l].parts)[3] = 2
  <2>1. first[n].ended
    BY <1>7
  <2>2. \A l \in 1 .. n : l < n \/ l = n
    BY <1>7
  <2> QED
    BY <1>7, <2>1, <2>2 DEF FileFits
<1>14. \A l \in 1 .. Len(new) : new[l].ended /\ new[l].parts # <<>> /\ Last(new[l].parts)[3] = 2
  BY <1>10, <1>11, <1>12, <1>13
<1>15. FileFits(new)
  BY <1>10, <1>14 DEF FileFits
<1>16. Grows(file[f], new)
  <2>1. Len(file[f]) \in Nat /\ Len(file[f]) <= n /\ n <= Len(new)
    BY <1>2, <1>3, <1>7, <1>10 DEF Grows, FilesFit
  <2>2. \A l \in 1 .. Len(file[f]) : l \in 1 .. n
    BY <1>7, <2>1
  <2>3. Len(file[f]) <= Len(new)
    BY <1>3, <1>7, <1>10, <2>1
  <2> QED
    BY <1>7, <1>10, <2>2, <2>3 DEF Grows
<1>17. ASSUME NEW i \in Rows, i # 1
       PROVE  new[n + i - 1] = [parts |-> <<<<r, i, 2>>>>, ended |-> TRUE]
  <2>1. PICK j \in 1 .. k - 1 : i = j + 1 /\ n + i - 1 = n + j
    <3>1. i - 1 \in 1 .. k - 1 /\ i = (i - 1) + 1 /\ n + i - 1 = n + (i - 1)
      BY <1>3, <1>7, <1>17
    <3> QED
      BY <3>1
  <2> QED
    BY <1>8, <1>10, <2>1
<1>18. ASSUME NEW l \in 1 .. Len(new)
       PROVE  \/ l \in 1 .. Len(file[f]) /\ l < n /\ new[l] = file[f][l]
              \/ l = n
              \/ \E i \in Rows : i # 1 /\ l = n + i - 1
  <2>1. CASE l \in 1 .. n
    <3>1. l < n \/ l = n
      BY <1>7, <2>1
    <3> QED
      BY <1>7, <1>10, <2>1, <3>1
  <2>2. CASE \E i \in 1 .. k - 1 : l = n + i
    <3>1. PICK i \in 1 .. k - 1 : l = n + i
      BY <2>2
    <3>2. i + 1 \in Rows /\ i + 1 # 1 /\ l = n + (i + 1) - 1
      BY <1>3, <1>5, <1>7, <3>1
    <3> QED
      BY <3>2
  <2> QED
    BY <1>11, <2>1, <2>2
<1>19. Len(new) = n + k - 1 /\ new[n] = first[n]
  BY <1>3, <1>7, <1>10
<1> QED
  BY <1>1, <1>2, <1>7, <1>15, <1>16, <1>17, <1>18, <1>19 DEF f, n, k

----------------------------------------------------------------------------
(* Where the writes are *)

Stages == {"idle", "write", "stamped", "acked", "marked", "raised", "dead"}
Place == [attempt : 1 .. MaxRetries, sink : 1 .. Len(Sinks), row : Rows, half : 1 .. 2]

Keys == {KeyOf(r) : r \in Runs}

LEMMA KeysStay ==
    ASSUME scene' = scene
    PROVE  Keys' = Keys /\ \A r : KeyOf(r)' = KeyOf(r)
BY DEF Keys, KeyOf, FileOf, RunId

WritesTyped ==
    /\ scene \in Scenes /\ now \in 0 .. MaxTime
    /\ object \in [Keys -> Runs \cup {None}]
    /\ siem \in [Runs \X Rows -> Nat] /\ spoilt \in Nat /\ dlq \subseteq Runs
    /\ pc \in [Runs -> Stages] /\ at \in [Runs -> Place]
    /\ stamped \in [Runs -> 0 .. MaxTime \cup {None}]

RunFits(r) ==
    /\ r \in dlq <=> pc[r] = "marked"
    /\ pc[r] \in {"marked", "raised"} => at[r].attempt = MaxRetries
    /\ pc[r] \in {"idle", "stamped"} => at[r] = Begun
    /\ pc[r] = "stamped" => stamped[r] \in Nat /\ store = "db"
    /\ pc[r] \in {"write", "marked", "raised"} => store = "jsonl"
    /\ pc[r] = "write" /\ at[r].half = 2 => r \in Bulky /\ Sinks[at[r].sink] = "file"
    /\ pc[r] = "write" /\ at[r].row # 1 => Sinks[at[r].sink] = "siem" \/ (Sinks[at[r].sink] = "file" /\ r \in Bulky)

WritesFit == WritesTyped /\ \A r \in Runs : RunFits(r)

\* The current attempt has brought row i to the sink of a kind.
Passed(r, i, kind) ==
    \E k \in 1 .. Len(Sinks) :
        /\ Sinks[k] = kind
        /\ pc[r] = "acked" \/ at[r].sink > k \/ (at[r].sink = k /\ at[r].row > i)

\* The rows in G, and no others, are brought to the sink of a kind now.
Brings(r, kind, G) ==
    /\ \A i \in Rows, k \in Kinds : Passed(r, i, k)' <=> Passed(r, i, k) \/ (k = kind /\ i \in G)
    /\ \A i \in G : ~Passed(r, i, kind)
    /\ at'[r].attempt = at[r].attempt /\ pc[r] = "write" /\ pc'[r] \in {"write", "acked"}

\* Where the other runs are.
OthersWait(r) == scene' = scene /\ \A z \in Runs \ {r} : at'[z] = at[z] /\ pc'[z] = pc[z]

LEMMA RowsAreNumbers ==
    /\ Cardinality(Rows) \in Nat \ {0} /\ Rows = 1 .. Cardinality(Rows) /\ 1 \in Rows
    /\ \A i \in Rows : i \in Nat /\ i >= 1
    /\ \A i, j \in Rows : i + 1 \notin Rows => j <= i
<1> DEFINE k == Cardinality(Rows)
<1>1. k \in Nat /\ Rows = 1 .. k /\ Rows # {}
  BY AuditTrailAssumption, FS_CardinalityType
<1> HIDE DEF k
<1> QED
  BY <1>1 DEF k

\* A run that goes to a place that fits.
LEMMA MovesFit ==
    ASSUME WritesFit, NEW r \in Runs, scene' = scene, NEW a \in Place, NEW p \in Stages,
           at' = [at EXCEPT ![r] = a], pc' = [pc EXCEPT ![r] = p], WritesTyped',
           \A z \in Runs \ {r} : z \in dlq' <=> z \in dlq,
           \A z \in Runs \ {r} : stamped'[z] = stamped[z],
           r \in dlq' <=> p = "marked",
           p \in {"marked", "raised"} => a.attempt = MaxRetries,
           p \in {"idle", "stamped"} => a = Begun,
           p = "stamped" => stamped'[r] \in Nat /\ store = "db",
           p \in {"write", "marked", "raised"} => store = "jsonl",
           p = "write" /\ a.half = 2 => r \in Bulky /\ Sinks[a.sink] = "file",
           p = "write" /\ a.row # 1 => Sinks[a.sink] = "siem" \/ (Sinks[a.sink] = "file" /\ r \in Bulky)
    PROVE  WritesFit' /\ OthersWait(r) /\ at'[r] = a /\ pc'[r] = p
<1>1. at'[r] = a /\ pc'[r] = p /\ \A z \in Runs \ {r} : at'[z] = at[z] /\ pc'[z] = pc[z]
  BY DEF WritesFit, WritesTyped
<1>2. Sinks' = Sinks /\ store' = store /\ Bulky' = Bulky
  BY DEF Sinks, store, Bulky
<1>3. RunFits(r)'
  BY <1>1, <1>2 DEF RunFits
<1>4. ASSUME NEW z \in Runs \ {r}
      PROVE  RunFits(z)'
  <2>1. RunFits(z) /\ at'[z] = at[z] /\ pc'[z] = pc[z]
    BY <1>1 DEF WritesFit
  <2> QED
    BY <1>2, <2>1 DEF RunFits
<1> QED
  BY <1>1, <1>3, <1>4 DEF WritesFit, OthersWait

\* The next sink, or the end of the write: the rest of the rows is brought.
LEMMA NextSinkBrings ==
    ASSUME WritesFit, NEW r \in Runs, NEW kind \in Kinds, Writing(r, kind), NextSink(r), scene' = scene
    PROVE  /\ Brings(r, kind, {i \in Rows : i >= at[r].row})
           /\ \E a \in Place, p \in {"write", "acked"} :
                /\ at' = [at EXCEPT ![r] = a] /\ pc' = [pc EXCEPT ![r] = p]
                /\ p = "write" => a.half = 1 /\ a.row = 1
<1> DEFINE a == at[r]
<1> DEFINE n == Len(Sinks)
<1>1. a \in Place /\ pc[r] = "write" /\ Sinks[a.sink] = kind
  BY DEF WritesFit, WritesTyped, Writing
<1>2. a.sink \in 1 .. n /\ a.row \in Rows /\ a.attempt \in 1 .. MaxRetries
  BY <1>1 DEF Place
<1>3. n \in Nat \ {0} /\ \A i, j \in 1 .. n : Sinks[i] = Sinks[j] => i = j
  BY DeploymentFits DEF WritesFit, WritesTyped
<1>4. Sinks' = Sinks
  BY DEF Sinks
<1>5. \A i \in Rows, k \in Kinds : Passed(r, i, k) <=> \E j \in 1 .. n : Sinks[j] = k /\ (a.sink > j \/ (a.sink = j /\ a.row > i))
  BY <1>1 DEF Passed
<1>6. \A i \in {i \in Rows : i >= a.row} : ~Passed(r, i, kind)
  BY <1>1, <1>2, <1>3, <1>5, RowsAreNumbers
<1>7. CASE a.sink < n
  <2> DEFINE b == [attempt |-> a.attempt, sink |-> a.sink + 1, row |-> 1, half |-> 1]
  <2>1. at' = [at EXCEPT ![r] = b] /\ pc' = pc
    BY <1>7 DEF NextSink, GoOn
  <2> HIDE DEF a
  <2>2. b \in Place
    BY <1>2, <1>3, <1>7, RowsAreNumbers DEF Place
  <2>3. b.attempt = a.attempt /\ b.sink = a.sink + 1 /\ b.row = 1 /\ b.half = 1
    OBVIOUS
  <2> HIDE DEF b
  <2>4. at' = [at EXCEPT ![r] = b] /\ pc' = [pc EXCEPT ![r] = "write"] /\ pc'[r] = "write" /\ at'[r] = b
    BY <1>1, <2>1 DEF WritesFit, WritesTyped
  <2>5. ASSUME NEW i \in Rows, NEW k \in Kinds
        PROVE  Passed(r, i, k)' <=> Passed(r, i, k) \/ (k = kind /\ i \in {j \in Rows : j >= a.row})
    <3>1. Passed(r, i, k)' <=> \E j \in 1 .. n : Sinks[j] = k /\ (b.sink > j \/ (b.sink = j /\ b.row > i))
      BY <1>4, <2>4 DEF Passed
    <3>2. \A j \in 1 .. n : (b.sink > j \/ (b.sink = j /\ b.row > i)) <=> j <= a.sink
      BY <1>2, <1>3, <2>3, RowsAreNumbers
    <3>3. CASE k = kind
      BY <1>1, <1>2, <1>3, <1>5, <3>1, <3>2, <3>3, RowsAreNumbers
    <3>4. CASE k # kind
      <4>1. \A j \in 1 .. n : Sinks[j] = k => (j <= a.sink <=> a.sink > j) /\ j # a.sink
        BY <1>1, <1>2, <1>3, <3>4
      <4> QED
        BY <1>5, <3>1, <3>2, <3>4, <4>1
    <3> QED
      BY <3>3, <3>4
  <2> QED
    BY <1>1, <1>6, <2>2, <2>3, <2>4, <2>5 DEF Brings, a
<1>8. CASE ~(a.sink < n)
  <2>1. at' = at /\ pc' = [pc EXCEPT ![r] = "acked"]
    BY <1>8 DEF NextSink
  <2>2. pc'[r] = "acked" /\ at' = [at EXCEPT ![r] = a] /\ a.sink = n
    BY <1>2, <1>3, <1>8, <2>1 DEF WritesFit, WritesTyped
  <2>3. ASSUME NEW i \in Rows, NEW k \in Kinds
        PROVE  Passed(r, i, k)' <=> Passed(r, i, k) \/ (k = kind /\ i \in {j \in Rows : j >= a.row})
    <3>1. Passed(r, i, k)' <=> \E j \in 1 .. n : Sinks[j] = k
      BY <1>4, <2>2 DEF Passed
    <3> HIDE DEF a
    <3>2. CASE k = kind
      BY <1>1, <1>2, <1>3, <1>5, <3>1, <3>2, RowsAreNumbers
    <3>3. CASE k # kind
      <4>1. \A j \in 1 .. n : Sinks[j] = k => a.sink > j
        BY <1>1, <1>2, <1>3, <2>2, <3>3
      <4> QED
        BY <1>5, <3>1, <3>3, <4>1
    <3> QED
      BY <3>2, <3>3
  <2> QED
    BY <1>1, <1>6, <2>1, <2>2, <2>3 DEF Brings
<1> QED
  BY <1>7, <1>8

\* The next row for the same sink: this one is brought.
LEMMA NextRowBrings ==
    ASSUME WritesFit, NEW r \in Runs, NEW kind \in Kinds, Writing(r, kind), scene' = scene, pc' = pc,
           at[r].row + 1 \in Rows, NEW a \in Place, at' = [at EXCEPT ![r] = a],
           a.attempt = at[r].attempt, a.sink = at[r].sink, a.row = at[r].row + 1
    PROVE  Brings(r, kind, {at[r].row})
<1> DEFINE b == at[r]
<1> DEFINE n == Len(Sinks)
<1>1. b \in Place /\ pc[r] = "write" /\ Sinks[b.sink] = kind /\ at'[r] = a
  BY DEF WritesFit, WritesTyped, Writing
<1>2. b.sink \in 1 .. n /\ b.row \in Rows
  BY <1>1 DEF Place
<1>3. n \in Nat \ {0} /\ \A i, j \in 1 .. n : Sinks[i] = Sinks[j] => i = j
  BY DeploymentFits DEF WritesFit, WritesTyped
<1>4. Sinks' = Sinks
  BY DEF Sinks
<1>5. \A i \in Rows, k \in Kinds : Passed(r, i, k) <=> \E j \in 1 .. n : Sinks[j] = k /\ (b.sink > j \/ (b.sink = j /\ b.row > i))
  BY <1>1 DEF Passed
<1>6. \A i \in Rows, k \in Kinds : Passed(r, i, k)' <=> \E j \in 1 .. n : Sinks[j] = k /\ (b.sink > j \/ (b.sink = j /\ b.row + 1 > i))
  BY <1>1, <1>4 DEF Passed
<1> HIDE DEF b, n
<1>7. ~Passed(r, b.row, kind)
  BY <1>1, <1>2, <1>3, <1>5, RowsAreNumbers
<1>8. ASSUME NEW i \in Rows, NEW k \in Kinds
      PROVE  Passed(r, i, k)' <=> Passed(r, i, k) \/ (k = kind /\ i \in {b.row})
  <2>1. b.row + 1 > i <=> b.row > i \/ i = b.row
    BY <1>2, RowsAreNumbers
  <2>2. \A j \in 1 .. n : Sinks[j] = k /\ b.sink = j => k = kind
    BY <1>1
  <2> QED
    BY <1>1, <1>2, <1>5, <1>6, <2>1, <2>2
<1> QED
  BY <1>1, <1>7, <1>8 DEF Brings, b


\* The record that an attempt goes on with.
LEMMA GoesOn ==
    ASSUME WritesFit, NEW r \in Runs, NEW k \in 1 .. Len(Sinks), NEW i \in Rows, NEW h \in 1 .. 2, GoOn(r, k, i, h)
    PROVE  \E a \in Place : at' = [at EXCEPT ![r] = a] /\ a.attempt = at[r].attempt /\ a.sink = k /\ a.row = i /\ a.half = h
<1> DEFINE a == [attempt |-> at[r].attempt, sink |-> k, row |-> i, half |-> h]
<1>1. at[r].attempt \in 1 .. MaxRetries
  BY DEF WritesFit, WritesTyped, Place
<1>2. a \in Place
  BY <1>1 DEF Place
<1>3. at' = [at EXCEPT ![r] = a] /\ a.attempt = at[r].attempt /\ a.sink = k /\ a.row = i /\ a.half = h
  BY DEF GoOn
<1> QED
  BY <1>2, <1>3

\* A write that is not given up.
LEMMA WritesGoOn ==
    ASSUME WritesFit, NEW r \in Runs, scene' = scene, dlq' = dlq, stamped' = stamped, pc[r] = "write",
           NEW a \in Place, NEW p \in {"write", "acked"},
           at' = [at EXCEPT ![r] = a], pc' = [pc EXCEPT ![r] = p], WritesTyped',
           p = "write" /\ a.half = 2 => r \in Bulky /\ Sinks[a.sink] = "file",
           p = "write" /\ a.row # 1 => Sinks[a.sink] = "siem" \/ (Sinks[a.sink] = "file" /\ r \in Bulky)
    PROVE  WritesFit' /\ OthersWait(r) /\ at'[r] = a /\ pc'[r] = p
<1>1. p \in Stages /\ p \notin {"idle", "stamped", "marked", "raised"}
  BY DEF Stages
<1>2. store = "jsonl" /\ r \notin dlq
  BY DEF WritesFit, RunFits
<1>3. /\ \A z \in Runs \ {r} : z \in dlq' <=> z \in dlq
      /\ \A z \in Runs \ {r} : stamped'[z] = stamped[z]
      /\ r \in dlq' <=> p = "marked"
  BY <1>1, <1>2
<1>4. /\ p \in {"marked", "raised"} => a.attempt = MaxRetries
      /\ p \in {"idle", "stamped"} => a = Begun
      /\ p = "stamped" => stamped'[r] \in Nat /\ store = "db"
      /\ p \in {"write", "marked", "raised"} => store = "jsonl"
  BY <1>1, <1>2
<1> QED
  BY <1>1, <1>3, <1>4, MovesFit

----------------------------------------------------------------------------
(* What the steps of a write do *)

\* The write goes on with its rows in another sink, or is done.
Advances(r, kind, G) ==
    /\ WritesFit' /\ OthersWait(r) /\ Brings(r, kind, G)
    /\ pc'[r] = "write" => at'[r].half = 1

\* Nothing is brought anywhere.
Rests(r) ==
    /\ WritesFit' /\ OthersWait(r)
    /\ \A i \in Rows, k \in Kinds : Passed(r, i, k)' <=> Passed(r, i, k)
    /\ at'[r].attempt = at[r].attempt

LEMMA SinkIsDone ==
    ASSUME WritesFit, NEW r \in Runs, NEW kind \in Kinds, Writing(r, kind), NextSink(r), scene' = scene,
           now' = now, dlq' = dlq, stamped' = stamped,
           object' \in [Keys -> Runs \cup {None}], siem' \in [Runs \X Rows -> Nat], spoilt' \in Nat
    PROVE  Advances(r, kind, {i \in Rows : i >= at[r].row})
<1>1. PICK a \in Place, p \in {"write", "acked"} :
        /\ at' = [at EXCEPT ![r] = a] /\ pc' = [pc EXCEPT ![r] = p]
        /\ p = "write" => a.half = 1 /\ a.row = 1
  BY NextSinkBrings
<1>2. Brings(r, kind, {i \in Rows : i >= at[r].row})
  BY NextSinkBrings
<1>3. Sinks' = Sinks /\ p \in Stages /\ pc[r] = "write"
  BY DEF Sinks, Stages, Writing
<1>4. Place' = Place
  BY <1>3 DEF Place
<1>5. WritesTyped'
  BY <1>1, <1>3, <1>4, KeysStay DEF WritesFit, WritesTyped
<1>6. /\ p = "write" /\ a.half = 2 => r \in Bulky /\ Sinks[a.sink] = "file"
      /\ p = "write" /\ a.row # 1 => Sinks[a.sink] = "siem" \/ (Sinks[a.sink] = "file" /\ r \in Bulky)
  BY <1>1
<1>7. WritesFit' /\ OthersWait(r) /\ at'[r] = a /\ pc'[r] = p
  BY <1>1, <1>3, <1>5, <1>6, WritesGoOn
<1> QED
  BY <1>1, <1>2, <1>7 DEF Advances

LEMMA RowIsDone ==
    ASSUME WritesFit, NEW r \in Runs, NEW kind \in Kinds, Writing(r, kind), scene' = scene, pc' = pc,
           at[r].row + 1 \in Rows, GoOn(r, at[r].sink, at[r].row + 1, 1), kind = "siem" \/ (kind = "file" /\ r \in Bulky),
           now' = now, dlq' = dlq, stamped' = stamped,
           object' \in [Keys -> Runs \cup {None}], siem' \in [Runs \X Rows -> Nat], spoilt' \in Nat
    PROVE  Advances(r, kind, {at[r].row})
<1>1. at[r].sink \in 1 .. Len(Sinks) /\ pc[r] = "write" /\ Sinks[at[r].sink] = kind
  BY DEF WritesFit, WritesTyped, Place, Writing
<1>2. PICK a \in Place : at' = [at EXCEPT ![r] = a] /\ a.attempt = at[r].attempt /\ a.sink = at[r].sink /\ a.row = at[r].row + 1 /\ a.half = 1
  BY <1>1, GoesOn
<1>3. Brings(r, kind, {at[r].row})
  BY <1>2, NextRowBrings
<1>4. Sinks' = Sinks /\ pc' = [pc EXCEPT ![r] = "write"] /\ "write" \in Stages
  BY <1>1 DEF Sinks, Stages, WritesFit, WritesTyped
<1>5. Place' = Place
  BY <1>4 DEF Place
<1>6. WritesTyped'
  BY <1>2, <1>4, <1>5, KeysStay DEF WritesFit, WritesTyped
<1>7. PICK p \in {"write", "acked"} : p = "write" /\ pc' = [pc EXCEPT ![r] = p]
  BY <1>4
<1>8. WritesFit' /\ OthersWait(r) /\ at'[r] = a /\ pc'[r] = "write"
  <2>1. /\ p = "write" /\ a.half = 2 => r \in Bulky /\ Sinks[a.sink] = "file"
        /\ p = "write" /\ a.row # 1 => Sinks[a.sink] = "siem" \/ (Sinks[a.sink] = "file" /\ r \in Bulky)
    BY <1>1, <1>2
  <2> QED
    BY <1>1, <1>2, <1>6, <1>7, <2>1, WritesGoOn
<1> QED
  BY <1>2, <1>3, <1>8 DEF Advances

\* The last row is done with the sink.
LEMMA LastRowIsDone ==
    ASSUME WritesFit, NEW r \in Runs, at[r].row + 1 \notin Rows
    PROVE  {i \in Rows : i >= at[r].row} = {at[r].row}
<1>1. at[r].row \in Rows
  BY DEF WritesFit, WritesTyped, Place
<1> QED
  BY <1>1, RowsAreNumbers

LEMMA BatchStep ==
    ASSUME WritesFit, NEW r \in Runs, AppendBatch(r)
    PROVE  Advances(r, "file", Rows) /\ at[r].half = 1 /\ spoilt' = spoilt + (IF Open(FileOf(r)) THEN 1 ELSE 0)
<1>1. /\ Writing(r, "file") /\ r \notin Bulky /\ NextSink(r) /\ spoilt' = spoilt + (IF Intrudes(r) THEN 1 ELSE 0)
      /\ UNCHANGED <<scene, now, object, siem, dlq, stamped>>
  BY DEF AppendBatch
<1>2. at[r].half = 1 /\ at[r].row = 1
  <2>1. RunFits(r) /\ pc[r] = "write" /\ Sinks[at[r].sink] = "file" /\ at[r].half \in 1 .. 2
    BY <1>1 DEF Writing, WritesFit, WritesTyped, Place
  <2> QED
    BY <1>1, <2>1 DEF RunFits
<1>3. {i \in Rows : i >= at[r].row} = Rows
  BY <1>2, RowsAreNumbers
<1>4. Intrudes(r) <=> Open(FileOf(r))
  BY <1>2 DEF Intrudes
<1>5. spoilt' \in Nat /\ spoilt' = spoilt + (IF Open(FileOf(r)) THEN 1 ELSE 0)
  BY <1>1, <1>4 DEF WritesFit, WritesTyped
<1>6. "file" \in Kinds
  BY DEF Kinds
<1>7. object' \in [Keys -> Runs \cup {None}] /\ siem' \in [Runs \X Rows -> Nat]
  BY <1>1 DEF WritesFit, WritesTyped
<1>8. Advances(r, "file", {i \in Rows : i >= at[r].row})
  BY <1>1, <1>5, <1>6, <1>7, SinkIsDone
<1> QED
  BY <1>2, <1>3, <1>5, <1>8

LEMMA PieceStep ==
    ASSUME WritesFit, NEW r \in Runs, AppendPiece(r)
    PROVE  /\ r \in Bulky /\ at[r].row \in Rows /\ at[r].half \in 1 .. 2 /\ pc[r] = "write"
           /\ spoilt' = spoilt + (IF Intrudes(r) THEN 1 ELSE 0)
           /\ at[r].half = 1 => Rests(r) /\ pc'[r] = "write" /\ at'[r].row = at[r].row /\ at'[r].half = 2
           /\ at[r].half = 2 => Advances(r, "file", {at[r].row})
<1>1. /\ Writing(r, "file") /\ r \in Bulky /\ spoilt' = spoilt + (IF Intrudes(r) THEN 1 ELSE 0)
      /\ UNCHANGED <<scene, now, object, siem, dlq, stamped>>
  BY DEF AppendPiece
<1>2. /\ at[r] \in Place /\ at[r].row \in Rows /\ at[r].half \in 1 .. 2 /\ at[r].sink \in 1 .. Len(Sinks)
      /\ pc[r] = "write" /\ Sinks[at[r].sink] = "file"
  BY <1>1 DEF Writing, WritesFit, WritesTyped, Place
<1>3. spoilt' \in Nat /\ object' \in [Keys -> Runs \cup {None}] /\ siem' \in [Runs \X Rows -> Nat]
  BY <1>1 DEF WritesFit, WritesTyped
<1>4. "file" \in Kinds
  BY DEF Kinds
<1>5. ASSUME at[r].half = 1
      PROVE  Rests(r) /\ pc'[r] = "write" /\ at'[r].row = at[r].row /\ at'[r].half = 2
  <2>1. GoOn(r, at[r].sink, at[r].row, 2) /\ pc' = pc
    BY <1>5 DEF AppendPiece
  <2>2. 2 \in 1 .. 2
    OBVIOUS
  <2>3. PICK a \in Place : at' = [at EXCEPT ![r] = a] /\ a.attempt = at[r].attempt /\ a.sink = at[r].sink /\ a.row = at[r].row /\ a.half = 2
    BY <1>2, <2>1, <2>2, GoesOn
  <2>4. Sinks' = Sinks /\ pc' = [pc EXCEPT ![r] = "write"] /\ "write" \in Stages
    BY <1>1, <1>2, <2>1 DEF Sinks, Stages, WritesFit, WritesTyped
  <2>5. Place' = Place
    BY <2>4 DEF Place
  <2>6. WritesTyped'
    BY <1>1, <1>3, <2>3, <2>4, <2>5, KeysStay DEF WritesFit, WritesTyped
  <2>7. PICK p \in {"write", "acked"} : p = "write" /\ pc' = [pc EXCEPT ![r] = p]
    BY <2>4
  <2>8. WritesFit' /\ OthersWait(r) /\ at'[r] = a /\ pc'[r] = "write"
    <3>1. /\ p = "write" /\ a.half = 2 => r \in Bulky /\ Sinks[a.sink] = "file"
          /\ p = "write" /\ a.row # 1 => Sinks[a.sink] = "siem" \/ (Sinks[a.sink] = "file" /\ r \in Bulky)
      BY <1>1, <1>2, <2>3
    <3>2. scene' = scene /\ dlq' = dlq /\ stamped' = stamped
      BY <1>1
    <3> QED
      BY <1>2, <2>3, <2>6, <2>7, <3>1, <3>2, WritesGoOn
  <2>9. \A i \in Rows, k \in Kinds : Passed(r, i, k)' <=> Passed(r, i, k)
    BY <1>2, <2>3, <2>4, <2>8 DEF Passed
  <2> QED
    BY <2>3, <2>8, <2>9 DEF Rests
<1>6. ASSUME at[r].half = 2
      PROVE  Advances(r, "file", {at[r].row})
  <2>1. CASE at[r].row + 1 \in Rows
    <3>1. GoOn(r, at[r].sink, at[r].row + 1, 1) /\ pc' = pc
      BY <1>6, <2>1 DEF AppendPiece
    <3> QED
      BY <1>1, <1>3, <1>4, <2>1, <3>1, RowIsDone
  <2>2. CASE at[r].row + 1 \notin Rows
    <3>1. NextSink(r)
      BY <1>6, <2>2 DEF AppendPiece
    <3>2. Advances(r, "file", {i \in Rows : i >= at[r].row})
      BY <1>1, <1>3, <1>4, <3>1, SinkIsDone
    <3> QED
      BY <2>2, <3>2, LastRowIsDone
  <2> QED
    BY <2>1, <2>2
<1> QED
  BY <1>1, <1>2, <1>5, <1>6

LEMMA ObjectStep ==
    ASSUME WritesFit, NEW r \in Runs, PutObject(r)
    PROVE  Advances(r, "object", {i \in Rows : i >= at[r].row}) /\ object' = [object EXCEPT ![KeyOf(r)] = r]
<1>1. /\ Writing(r, "object") /\ NextSink(r) /\ object' = [object EXCEPT ![KeyOf(r)] = r]
      /\ UNCHANGED <<scene, now, siem, spoilt, dlq, stamped>>
  BY DEF PutObject
<1>2. "object" \in Kinds
  BY DEF Kinds
<1>3. object' \in [Keys -> Runs \cup {None}] /\ siem' \in [Runs \X Rows -> Nat] /\ spoilt' \in Nat
  BY <1>1 DEF WritesFit, WritesTyped
<1>4. Advances(r, "object", {i \in Rows : i >= at[r].row})
  BY <1>1, <1>2, <1>3, SinkIsDone
<1> QED
  BY <1>1, <1>4

LEMMA PostStep ==
    ASSUME WritesFit, NEW r \in Runs, PostRow(r)
    PROVE  Advances(r, "siem", {at[r].row}) /\ at[r].row \in Rows /\ siem' = [siem EXCEPT ![<<r, at[r].row>>] = @ + 1]
<1>1. /\ Writing(r, "siem") /\ siem' = [siem EXCEPT ![<<r, at[r].row>>] = @ + 1]
      /\ UNCHANGED <<scene, now, object, spoilt, dlq, stamped>>
  BY DEF PostRow
<1>2. "siem" \in Kinds /\ at[r].row \in Rows
  BY DEF Kinds, WritesFit, WritesTyped, Place
<1>3. object' \in [Keys -> Runs \cup {None}] /\ spoilt' \in Nat /\ siem' \in [Runs \X Rows -> Nat]
  BY <1>1, <1>2 DEF WritesFit, WritesTyped
<1>4. CASE at[r].row + 1 \in Rows
  <2>1. GoOn(r, at[r].sink, at[r].row + 1, 1) /\ pc' = pc
    BY <1>4 DEF PostRow
  <2>2. Advances(r, "siem", {at[r].row})
    BY <1>1, <1>2, <1>3, <1>4, <2>1, RowIsDone
  <2> QED
    BY <1>1, <1>2, <2>2
<1>5. CASE at[r].row + 1 \notin Rows
  <2>1. NextSink(r)
    BY <1>5 DEF PostRow
  <2>2. Advances(r, "siem", {i \in Rows : i >= at[r].row})
    BY <1>1, <1>2, <1>3, <2>1, SinkIsDone
  <2> QED
    BY <1>1, <1>2, <1>5, <2>2, LastRowIsDone
<1> QED
  BY <1>4, <1>5

\* A sink that raises may have done its next write.
RaisesIn(r) ==
    /\ object' \in [Keys -> Runs \cup {None}] /\ siem' \in [Runs \X Rows -> Nat]
    /\ \A k \in DOMAIN object : object'[k] = object[k] \/ (k = KeyOf(r) /\ object'[k] = r)
    /\ \A x \in Runs \X Rows :
        siem'[x] = siem[x] \/ (x = <<r, at[r].row>> /\ Sinks[at[r].sink] = "siem" /\ siem'[x] = siem[x] + 1)

LEMMA RaiseStep ==
    ASSUME WritesFit, NEW r \in Runs, Raise(r)
    PROVE  RaisesIn(r)
<1>1. object \in [Keys -> Runs \cup {None}] /\ siem \in [Runs \X Rows -> Nat] /\ at[r].row \in Rows
  BY DEF WritesFit, WritesTyped, Place
<1>2. CASE UNCHANGED <<object, siem>>
  BY <1>1, <1>2 DEF RaisesIn
<1>3. CASE object' = [object EXCEPT ![KeyOf(r)] = r] /\ UNCHANGED siem
  BY <1>1, <1>3 DEF RaisesIn
<1>4. CASE Writing(r, "siem") /\ siem' = [siem EXCEPT ![<<r, at[r].row>>] = @ + 1] /\ UNCHANGED object
  BY <1>1, <1>4 DEF RaisesIn, Writing
<1> QED
  BY <1>2, <1>3, <1>4 DEF Raise

LEMMA StaysThere ==
    ASSUME WritesFit, NEW r \in Runs, at' = at
    PROVE  \E a \in Place : a = at[r] /\ at' = [at EXCEPT ![r] = a]
<1>1. PICK a \in Place : a = at[r]
  BY DEF WritesFit, WritesTyped
<1>2. at' = [at EXCEPT ![r] = a]
  BY <1>1 DEF WritesFit, WritesTyped
<1> QED
  BY <1>1, <1>2

\* A run that stays where it is, in another stage.
LEMMA StageChanges ==
    ASSUME WritesFit, NEW r \in Runs, NEW p \in Stages, scene' = scene, NEW a \in Place, a = at[r], at' = [at EXCEPT ![r] = a], pc' = [pc EXCEPT ![r] = p], WritesTyped',
           pc[r] # "acked", p # "acked",
           \A z \in Runs \ {r} : (z \in dlq' <=> z \in dlq) /\ stamped'[z] = stamped[z],
           r \in dlq' <=> p = "marked",
           p \in {"marked", "raised"} => at[r].attempt = MaxRetries,
           p \in {"idle", "stamped", "write"} => pc[r] = "idle",
           p = "stamped" => stamped'[r] \in Nat /\ store = "db",
           p \in {"write", "marked", "raised"} => store = "jsonl"
    PROVE  Rests(r) /\ pc'[r] = p
<1>1. pc[r] = "idle" => a = Begun /\ a.half = 1 /\ a.row = 1
  BY DEF WritesFit, RunFits, Begun
<1>2. /\ \A z \in Runs \ {r} : z \in dlq' <=> z \in dlq
      /\ \A z \in Runs \ {r} : stamped'[z] = stamped[z]
      /\ r \in dlq' <=> p = "marked"
  OBVIOUS
<1>3. /\ p \in {"marked", "raised"} => a.attempt = MaxRetries
      /\ p \in {"idle", "stamped"} => a = Begun
      /\ p = "stamped" => stamped'[r] \in Nat /\ store = "db"
      /\ p \in {"write", "marked", "raised"} => store = "jsonl"
      /\ p = "write" /\ a.half = 2 => r \in Bulky /\ Sinks[a.sink] = "file"
      /\ p = "write" /\ a.row # 1 => Sinks[a.sink] = "siem" \/ (Sinks[a.sink] = "file" /\ r \in Bulky)
  BY <1>1
<1>4. WritesFit' /\ OthersWait(r) /\ at'[r] = a /\ pc'[r] = p
  BY <1>2, <1>3, MovesFit
<1>5. Sinks' = Sinks
  BY DEF Sinks
<1>6. \A i \in Rows, k \in Kinds : Passed(r, i, k)' <=> Passed(r, i, k)
  BY <1>4, <1>5 DEF Passed
<1> QED
  BY <1>4, <1>6 DEF Rests

LEMMA BeginStep ==
    ASSUME WritesFit, NEW r \in Runs, BeginWrite(r)
    PROVE  Rests(r) /\ pc[r] = "idle" /\ pc'[r] = "write"
<1> DEFINE p == "write"
<1>1. /\ store = "jsonl" /\ pc[r] = "idle" /\ pc' = [pc EXCEPT ![r] = p]
      /\ UNCHANGED <<scene, now, file, object, siem, spoilt, dlq, table, at, stamped, reader>> /\ p \in Stages
  BY DEF BeginWrite, sinks, Stages
<1>2. WritesTyped'
  BY <1>1, KeysStay DEF WritesFit, WritesTyped, Place, Sinks
<1>3. r \notin dlq
  BY <1>1 DEF WritesFit, RunFits
<1>4. PICK a \in Place : a = at[r] /\ at' = [at EXCEPT ![r] = a]
  BY <1>1, StaysThere
<1> QED
  BY <1>1, <1>2, <1>3, <1>4, StageChanges

LEMMA DieStep ==
    ASSUME WritesFit, NEW r \in Runs, Die(r)
    PROVE  Rests(r) /\ pc'[r] = "dead"
<1> DEFINE p == "dead"
<1>1. /\ pc[r] \in {"write", "stamped"} /\ pc' = [pc EXCEPT ![r] = p]
      /\ UNCHANGED <<scene, now, file, object, siem, spoilt, dlq, table, at, stamped, reader>> /\ p \in Stages
  BY DEF Die, sinks, Stages
<1>2. WritesTyped'
  BY <1>1, KeysStay DEF WritesFit, WritesTyped, Place, Sinks
<1>3. r \notin dlq
  BY <1>1 DEF WritesFit, RunFits
<1>4. PICK a \in Place : a = at[r] /\ at' = [at EXCEPT ![r] = a]
  BY <1>1, StaysThere
<1> QED
  BY <1>1, <1>2, <1>3, <1>4, StageChanges

LEMMA StampStep ==
    ASSUME WritesFit, NEW r \in Runs, Stamp(r)
    PROVE  Rests(r) /\ pc'[r] = "stamped"
<1> DEFINE p == "stamped"
<1>1. /\ store = "db" /\ pc[r] = "idle" /\ pc' = [pc EXCEPT ![r] = p] /\ stamped' = [stamped EXCEPT ![r] = now]
      /\ UNCHANGED <<scene, now, file, object, siem, spoilt, dlq, table, at, reader>> /\ p \in Stages
  BY DEF Stamp, sinks, Stages
<1>2. now \in 0 .. MaxTime /\ now \in Nat
  BY AuditTrailAssumption DEF WritesFit, WritesTyped
<1>3. WritesTyped'
  BY <1>1, <1>2, KeysStay DEF WritesFit, WritesTyped, Place, Sinks
<1>4. r \notin dlq
  BY <1>1 DEF WritesFit, RunFits
<1>5. stamped'[r] = now /\ \A z \in Runs \ {r} : stamped'[z] = stamped[z]
  BY <1>1 DEF WritesFit, WritesTyped
<1>6. stamped'[r] \in Nat
  BY <1>2, <1>5
<1>7. \A z \in Runs \ {r} : (z \in dlq' <=> z \in dlq) /\ stamped'[z] = stamped[z]
  BY <1>1, <1>5
<1>8. r \in dlq' <=> p = "marked"
  BY <1>1, <1>4
<1>9. PICK a \in Place : a = at[r] /\ at' = [at EXCEPT ![r] = a]
  BY <1>1, StaysThere
<1> QED
  BY <1>1, <1>3, <1>6, <1>7, <1>8, <1>9, StageChanges

LEMMA GiveUpStep ==
    ASSUME WritesFit, NEW r \in Runs, GiveUp(r)
    PROVE  Rests(r) /\ RaisesIn(r) /\ pc[r] = "write" /\ pc'[r] \in {"marked", "raised"}
<1>1. /\ pc[r] = "write" /\ at[r].attempt = MaxRetries /\ Raise(r)
      /\ UNCHANGED <<scene, now, file, spoilt, table, at, stamped, reader>>
  BY DEF GiveUp
<1>2. RaisesIn(r)
  BY <1>1, RaiseStep
<1>3. PICK p \in {"marked", "raised"} : pc' = [pc EXCEPT ![r] = p] /\ dlq' = IF p = "marked" THEN dlq \cup {r} ELSE dlq
  <2>1. CASE dlq' = dlq \cup {r} /\ pc' = [pc EXCEPT ![r] = "marked"]
    BY <2>1
  <2>2. CASE dlq' = dlq /\ pc' = [pc EXCEPT ![r] = "raised"]
    BY <2>2
  <2> QED
    BY <2>1, <2>2 DEF GiveUp
<1>4. p \in Stages /\ r \notin dlq /\ store = "jsonl"
  BY <1>1 DEF Stages, WritesFit, RunFits
<1>5. WritesTyped'
  BY <1>1, <1>2, <1>3, <1>4, KeysStay DEF WritesFit, WritesTyped, Place, Sinks, RaisesIn
<1>6. /\ \A z \in Runs \ {r} : (z \in dlq' <=> z \in dlq) /\ stamped'[z] = stamped[z]
      /\ r \in dlq' <=> p = "marked"
  BY <1>1, <1>3, <1>4
<1>7. PICK a \in Place : a = at[r] /\ at' = [at EXCEPT ![r] = a]
  BY <1>1, StaysThere
<1>8. Rests(r) /\ pc'[r] = p
  BY <1>1, <1>3, <1>4, <1>5, <1>6, <1>7, StageChanges
<1> QED
  BY <1>1, <1>2, <1>8

\* From the beginning, for every sink.
Restarts(r) ==
    /\ WritesFit' /\ OthersWait(r)
    /\ \A i \in Rows, k \in Kinds : ~Passed(r, i, k)'
    /\ pc[r] = "write" /\ pc'[r] = "write" /\ at'[r].attempt = at[r].attempt + 1 /\ at'[r].half = 1

LEMMA RetryStep ==
    ASSUME WritesFit, NEW r \in Runs, Retry(r)
    PROVE  Restarts(r) /\ RaisesIn(r)
<1>1. /\ pc[r] = "write" /\ at[r].attempt < MaxRetries /\ Raise(r)
      /\ at' = [at EXCEPT ![r] = [Begun EXCEPT !.attempt = at[r].attempt + 1]]
      /\ UNCHANGED <<scene, now, file, spoilt, dlq, table, pc, stamped, reader>>
  BY DEF Retry
<1>2. RaisesIn(r)
  BY <1>1, RaiseStep
<1>3. PICK n \in 1 .. MaxRetries : n = at[r].attempt + 1
  <2>1. at[r].attempt \in 1 .. MaxRetries /\ MaxRetries \in Nat
    BY AuditTrailAssumption DEF WritesFit, WritesTyped, Place
  <2>2. at[r].attempt + 1 \in 1 .. MaxRetries
    BY <1>1, <2>1
  <2> QED
    BY <2>2
<1>4. [Begun EXCEPT !.attempt = n] = [attempt |-> n, sink |-> 1, row |-> 1, half |-> 1]
  BY DEF Begun
<1> DEFINE a == [attempt |-> n, sink |-> 1, row |-> 1, half |-> 1]
<1>5. a \in Place
  <2>1. 1 \in 1 .. Len(Sinks) /\ 1 \in Rows
    BY DeploymentFits, RowsAreNumbers DEF WritesFit, WritesTyped
  <2> QED
    BY <2>1 DEF Place
<1>6. a.attempt = n /\ a.sink = 1 /\ a.row = 1 /\ a.half = 1
  OBVIOUS
<1>7. at' = [at EXCEPT ![r] = a]
  BY <1>1, <1>3, <1>4
<1> HIDE DEF a
<1>8. PICK p \in {"write", "acked"} : p = "write" /\ pc' = [pc EXCEPT ![r] = p]
  BY <1>1 DEF WritesFit, WritesTyped
<1>9. WritesTyped'
  <2>1. Place' = Place
    BY <1>1 DEF Place, Sinks
  <2>2. at' \in [Runs -> Place]
    BY <1>5, <1>7 DEF WritesFit, WritesTyped
  <2> QED
    BY <1>1, <1>2, <2>1, <2>2, KeysStay DEF WritesFit, WritesTyped, RaisesIn
<1>10. WritesFit' /\ OthersWait(r) /\ at'[r] = a /\ pc'[r] = "write"
  <2>1. /\ p = "write" /\ a.half = 2 => r \in Bulky /\ Sinks[a.sink] = "file"
        /\ p = "write" /\ a.row # 1 => Sinks[a.sink] = "siem" \/ (Sinks[a.sink] = "file" /\ r \in Bulky)
    BY <1>6
  <2>2. scene' = scene /\ dlq' = dlq /\ stamped' = stamped
    BY <1>1
  <2> QED
    BY <1>1, <1>5, <1>7, <1>8, <1>9, <2>1, <2>2, WritesGoOn
<1>11. \A i \in Rows, k \in Kinds : ~Passed(r, i, k)'
  <2>1. \A k \in 1 .. Len(Sinks') : k \in Int /\ ~(1 > k)
    <3>1. Sinks' = Sinks /\ Len(Sinks) \in Nat
      BY <1>1, DeploymentFits DEF WritesFit, WritesTyped, Sinks
    <3> QED
      BY <3>1
  <2>2. \A i \in Rows : ~(1 > i)
    BY RowsAreNumbers
  <2> QED
    BY <1>6, <1>10, <2>1, <2>2 DEF Passed
<1> QED
  BY <1>1, <1>2, <1>3, <1>6, <1>10, <1>11 DEF Restarts

LEMMA PersistStep ==
    ASSUME WritesFit, NEW r \in Runs, Persist(r)
    PROVE  WritesFit' /\ OthersWait(r) /\ store = "db" /\ at' = at /\ pc[r] = "stamped" /\ pc'[r] = "acked"
<1> DEFINE p == "acked"
<1>1. /\ pc[r] = "stamped" /\ pc' = [pc EXCEPT ![r] = p]
      /\ UNCHANGED <<scene, now, file, object, siem, spoilt, dlq, at, stamped, reader>> /\ p \in Stages
  BY DEF Persist, sinks, Stages
<1>2. WritesTyped'
  BY <1>1, KeysStay DEF WritesFit, WritesTyped, Place, Sinks
<1>3. r \notin dlq /\ store = "db"
  BY <1>1 DEF WritesFit, RunFits
<1>4. PICK a \in Place : a = at[r] /\ at' = [at EXCEPT ![r] = a]
  BY <1>1, StaysThere
<1>5. /\ \A z \in Runs \ {r} : z \in dlq' <=> z \in dlq
      /\ \A z \in Runs \ {r} : stamped'[z] = stamped[z]
      /\ r \in dlq' <=> p = "marked"
  BY <1>1, <1>3
<1>6. WritesFit' /\ OthersWait(r) /\ at'[r] = a /\ pc'[r] = p
  BY <1>1, <1>2, <1>4, <1>5, MovesFit
<1> QED
  BY <1>1, <1>3, <1>6

LEMMA GrowsIsReflexive ==
    ASSUME NEW s \in Seq(Line)
    PROVE  Grows(s, s)
BY DEF Grows

\* One file is extended.
LEMMA FileIsExtended ==
    ASSUME FilesFit, scene' = scene, NEW f \in Files, NEW new, file' = [file EXCEPT ![f] = new],
           FileFits(new), Grows(file[f], new)
    PROVE  /\ FilesFit' /\ RowsStay
           /\ file'[f] = new /\ \A g \in Files \ {f} : file'[g] = file[g]
<1>1. Files' = Files
  BY DEF Files, FileOf
<1>2. file'[f] = new /\ \A g \in Files \ {f} : file'[g] = file[g]
  BY DEF FilesFit
<1>3. FilesFit'
  <2>1. new \in Seq(Line)
    BY DEF FileFits
  <2>2. file' \in [Files -> Seq(Line)]
    BY <2>1 DEF FilesFit
  <2>3. ASSUME NEW g \in Files
        PROVE  FileFits(file'[g])
    BY <1>2 DEF FilesFit
  <2>4. Line' = Line
    BY DEF Line, Part
  <2>5. \A g \in Files : FileFits(file[g])' 
    BY <2>3, <2>4 DEF FileFits
  <2> QED
    BY <1>1, <2>2, <2>4, <2>5 DEF FilesFit
<1>4. \A g \in Files : Grows(file[g], file'[g])
  BY <1>2, GrowsIsReflexive DEF FilesFit
<1> QED
  BY <1>2, <1>3, <1>4, GrowingKeepsRows

LEMMA PiecesGoToTheEnd ==
    ASSUME FilesFit, WritesFit, NEW r \in Runs, AppendPiece(r)
    PROVE  LET f == FileOf(r)
               n == Target(f)
               new == file'[f]
           IN  /\ file' = [file EXCEPT ![f] = new] /\ FileFits(new) /\ Grows(file[f], new)
               /\ Len(new) = n /\ n \in Nat \ {0}
               /\ new[n] = [parts |-> Append(Before(f), <<r, at[r].row, at[r].half>>), ended |-> at[r].half = 2] /\ new[n] \in Line
               /\ \A l \in 1 .. n : l # n => l \in 1 .. Len(file[f]) /\ new[l] = file[f][l]
<1>1. PICK f \in Files : f = FileOf(r)
  BY DeploymentFits DEF FilesFit
<1>2. PICK part \in Part : part = <<r, at[r].row, at[r].half>> /\ part[3] = at[r].half
  <2>1. at[r] \in Place
    BY DEF WritesFit, WritesTyped
  <2>2. at[r].row \in Rows /\ at[r].half \in 1 .. 2
    BY <2>1 DEF Place
  <2>3. <<r, at[r].row, at[r].half>> \in Part
    BY <2>2 DEF Part
  <2> QED
    BY <2>3
<1>3. PICK ended \in BOOLEAN : ended = (at[r].half = 2) /\ (ended <=> part[3] = 2)
  BY <1>2
<1> DEFINE new == Appended(f, part, ended)
<1> DEFINE last == [parts |-> Append(Before(f), part), ended |-> ended]
<1>4. file' = [file EXCEPT ![f] = new]
  BY <1>1, <1>2, <1>3 DEF AppendPiece
<1>5. file'[f] = new
  BY <1>4 DEF FilesFit
<1>6. /\ FileFits(new) /\ Grows(file[f], new)
      /\ Len(new) = Target(f) /\ Target(f) \in Nat \ {0} /\ new[Target(f)] = last /\ last \in Line
      /\ \A l \in 1 .. Target(f) : l # Target(f) => l \in 1 .. Len(file[f]) /\ new[l] = file[f][l]
  <2>1. GoesToTheEnd(f, part, ended)
    BY <1>3, AppendsGoToTheEnd
  <2> QED
    BY <2>1 DEF GoesToTheEnd
<1>7. last = [parts |-> Append(Before(f), <<r, at[r].row, at[r].half>>), ended |-> at[r].half = 2]
  BY <1>2, <1>3
<1> HIDE DEF new, last
<1> QED
  BY <1>1, <1>4, <1>5, <1>6, <1>7

\* Every step leaves files that fit, with the rows that were in them.
LEMMA StepKeepsFiles ==
    ASSUME FilesFit, WritesFit, [Next]_vars
    PROVE  scene' = scene /\ FilesFit' /\ RowsStay
<1>1. ASSUME scene' = scene, file' = file
      PROVE  scene' = scene /\ FilesFit' /\ RowsStay
  <2>1. Files' = Files /\ Line' = Line
    BY <1>1 DEF Files, FileOf, Line, Part
  <2>2. FilesFit'
    BY <1>1, <2>1 DEF FilesFit, FileFits
  <2>3. \A g \in Files : Grows(file[g], file'[g])
    BY <1>1, GrowsIsReflexive DEF FilesFit
  <2> QED
    BY <1>1, <2>2, <2>3, GrowingKeepsRows
<1>2. ASSUME NEW r \in Runs, AppendBatch(r)
      PROVE  scene' = scene /\ FilesFit' /\ RowsStay
  <2>1. scene' = scene /\ FileOf(r) \in Files
    BY <1>2, DeploymentFits DEF AppendBatch, FilesFit
  <2> QED
    BY <1>2, <2>1, BatchesGoToTheEnd, FileIsExtended
<1>3. ASSUME NEW r \in Runs, AppendPiece(r)
      PROVE  scene' = scene /\ FilesFit' /\ RowsStay
  <2>1. scene' = scene /\ FileOf(r) \in Files
    BY <1>3, DeploymentFits DEF AppendPiece, FilesFit
  <2> QED
    BY <1>3, <2>1, PiecesGoToTheEnd, FileIsExtended
<1>4. ASSUME NEW r \in Runs,
             BeginWrite(r) \/ Stamp(r) \/ Die(r) \/ PutObject(r) \/ PostRow(r) \/ Retry(r) \/ GiveUp(r) \/ Persist(r)
      PROVE  scene' = scene /\ file' = file
  BY <1>4 DEF BeginWrite, Stamp, Die, PutObject, PostRow, Retry, GiveUp, Persist, sinks
<1>5. ASSUME UNCHANGED vars \/ Tick \/ \E x \in Readers : StartReading(x) \/ ExportPage(x) \/ DetailPage(x)
      PROVE  scene' = scene /\ file' = file
  BY <1>5 DEF vars, Tick, StartReading, ExportPage, DetailPage, sinks
<1> QED
  BY <1>1, <1>2, <1>3, <1>4, <1>5 DEF Next, Step

LEMMA StepKeepsWrites ==
    ASSUME WritesFit, [Next]_vars
    PROVE  WritesFit'
<1>1. ASSUME UNCHANGED <<scene, object, siem, spoilt, dlq, pc, at, stamped>>, now' \in 0 .. MaxTime
      PROVE  WritesFit'
  <2>1. Place' = Place
    BY <1>1 DEF Place, Sinks
  <2>2. WritesTyped'
    BY <1>1, <2>1, KeysStay DEF WritesFit, WritesTyped
  <2>3. \A r \in Runs : RunFits(r)'
    BY <1>1 DEF WritesFit, RunFits, store, Bulky, Sinks
  <2> QED
    BY <2>2, <2>3 DEF WritesFit
<1>2. ASSUME UNCHANGED vars \/ \E x \in Readers : StartReading(x) \/ ExportPage(x) \/ DetailPage(x)
      PROVE  WritesFit'
  <2>1. UNCHANGED <<scene, object, siem, spoilt, dlq, pc, at, stamped>> /\ now' \in 0 .. MaxTime
    BY <1>2 DEF vars, StartReading, ExportPage, DetailPage, sinks, WritesFit, WritesTyped
  <2> QED
    BY <1>1, <2>1
<1>3. CASE Tick
  <2>1. UNCHANGED <<scene, object, siem, spoilt, dlq, pc, at, stamped>> /\ now' \in 0 .. MaxTime
    BY <1>3, AuditTrailAssumption DEF Tick, sinks, WritesFit, WritesTyped
  <2> QED
    BY <1>1, <2>1
<1>4. ASSUME NEW r \in Runs, BeginWrite(r) \/ Stamp(r) \/ Die(r) \/ GiveUp(r)
      PROVE  WritesFit'
  BY <1>4, BeginStep, DieStep, StampStep, GiveUpStep DEF Rests
<1>5. ASSUME NEW r \in Runs, AppendBatch(r) \/ PutObject(r) \/ PostRow(r)
      PROVE  WritesFit'
  BY <1>5, BatchStep, ObjectStep, PostStep DEF Advances
<1>6. ASSUME NEW r \in Runs, AppendPiece(r)
      PROVE  WritesFit'
  <2>1. at[r].half \in 1 .. 2
    BY <1>6, PieceStep
  <2>2. at[r].half = 1 \/ at[r].half = 2
    BY <2>1
  <2> QED
    BY <1>6, <2>2, PieceStep DEF Rests, Advances
<1>7. ASSUME NEW r \in Runs, Retry(r) \/ Persist(r)
      PROVE  WritesFit'
  BY <1>7, RetryStep, PersistStep DEF Restarts
<1> QED
  BY <1>2, <1>3, <1>4, <1>5, <1>6, <1>7 DEF Next, Step

----------------------------------------------------------------------------
(* How often a row may be where it is brought, and what is lost *)

Chances(r, i, kind) == at[r].attempt - (IF pc[r] \in {"idle", "write"} /\ ~Passed(r, i, kind) THEN 1 ELSE 0)

\* The line that a long batch has begun is as it has left it.
Intact(r) == Open(FileOf(r)) /\ Before(FileOf(r)) = <<<<r, at[r].row, 1>>>>

\* Rows that a write has passed, or is in the middle of, and that are in no line.
Lost ==
    {x \in Runs \X Rows :
        \/ Passed(x[1], x[2], "file") /\ Copies(x[1], x[2]) = {}
        \/ pc[x[1]] = "write" /\ at[x[1]].half = 2 /\ at[x[1]].row = x[2] /\ ~Intact(x[1])}

SiemIsServed ==
    \A r \in Runs, i \in Rows :
        /\ siem[r, i] <= Chances(r, i, "siem")
        /\ store = "jsonl" /\ Passed(r, i, "siem") => siem[r, i] > 0

ObjectsAreThere ==
    /\ \A k \in DOMAIN object : object[k] # None => KeyOf(object[k]) = k
    /\ \A r \in Runs, i \in Rows : store = "jsonl" /\ Passed(r, i, "object") => object[KeyOf(r)] # None

FilesAreServed ==
    /\ \A r \in Runs, i \in Rows :
        IsFiniteSet(Copies(r, i)) /\ Cardinality(Copies(r, i)) <= Chances(r, i, "file")
    /\ store = "jsonl" => Cardinality(Lost) <= 2 * spoilt

Served == FilesFit /\ WritesFit /\ SiemIsServed /\ ObjectsAreThere /\ FilesAreServed

\* The rows in G get a chance more.
MoreChances(r, kind, G) ==
    /\ \A z \in Runs, i \in Rows, k \in Kinds : Chances(z, i, k)' \in Int /\ Chances(z, i, k) \in Int /\ Chances(z, i, k) <= Chances(z, i, k)'
    /\ \A i \in G : Chances(r, i, kind) + 1 <= Chances(r, i, kind)'

\* No row but those in G is passed anew.
PassesOnly(r, kind, G) ==
    \A z \in Runs, i \in Rows : Passed(z, i, kind)' => Passed(z, i, kind) \/ (z = r /\ i \in G)

\* No row is passed anew, and no chance is lost.
Keeps(r, kind) == MoreChances(r, kind, {}) /\ PassesOnly(r, kind, {})

LEMMA ChancesAreNumbers ==
    ASSUME WritesFit, NEW r \in Runs, NEW i, NEW kind
    PROVE  Chances(r, i, kind) \in Int /\ Chances(r, i, kind) <= MaxRetries /\ at[r].attempt \in Nat
<1>1. at[r].attempt \in Nat /\ at[r].attempt <= MaxRetries
  BY AuditTrailAssumption DEF WritesFit, WritesTyped, Place
<1> QED
  BY <1>1, AuditTrailAssumption DEF Chances

LEMMA OthersKeepTheirs ==
    ASSUME WritesFit, WritesFit', NEW r \in Runs, OthersWait(r), NEW z \in Runs \ {r}, NEW i, NEW kind
    PROVE  (Passed(z, i, kind)' <=> Passed(z, i, kind)) /\ Chances(z, i, kind)' = Chances(z, i, kind)
<1>1. Sinks' = Sinks /\ at'[z] = at[z] /\ pc'[z] = pc[z]
  BY DEF OthersWait, Sinks
<1>2. Passed(z, i, kind)' <=> Passed(z, i, kind)
  BY <1>1 DEF Passed
<1> QED
  BY <1>1, <1>2 DEF Chances

LEMMA AdvancesGivesAChance ==
    ASSUME WritesFit, NEW r \in Runs, NEW kind \in Kinds, NEW G, G \subseteq Rows, Advances(r, kind, G)
    PROVE  MoreChances(r, kind, G) /\ PassesOnly(r, kind, G) /\ \A k \in Kinds \ {kind} : Keeps(r, k)
<1>1. WritesFit' /\ OthersWait(r) /\ Brings(r, kind, G)
  BY DEF Advances
<1>2. ASSUME NEW i \in Rows, NEW k \in Kinds
      PROVE  /\ Chances(r, i, k) \in Int /\ Chances(r, i, k)' \in Int /\ Chances(r, i, k) <= Chances(r, i, k)'
             /\ k = kind /\ i \in G => Chances(r, i, k) + 1 <= Chances(r, i, k)'
  <2>1. Chances(r, i, k) \in Int /\ at[r].attempt \in Nat
    BY ChancesAreNumbers
  <2>2. at'[r].attempt = at[r].attempt /\ pc[r] = "write" /\ (Passed(r, i, k)' <=> Passed(r, i, k) \/ (k = kind /\ i \in G))
    BY <1>1 DEF Brings
  <2>3. k = kind /\ i \in G => ~Passed(r, i, k)
    BY <1>1 DEF Brings
  <2> QED
    BY <2>1, <2>2, <2>3 DEF Chances
<1>3. ASSUME NEW z \in Runs \ {r}, NEW i \in Rows, NEW k \in Kinds
      PROVE  /\ Chances(z, i, k) \in Int /\ Chances(z, i, k)' = Chances(z, i, k)
             /\ Passed(z, i, k)' <=> Passed(z, i, k)
  BY <1>1, ChancesAreNumbers, OthersKeepTheirs
<1>4. MoreChances(r, kind, G)
  <2>1. \A i \in G : i \in Rows
    OBVIOUS
  <2> HIDE DEF MoreChances
  <2>2. \A z \in Runs, i \in Rows, k \in Kinds : Chances(z, i, k)' \in Int /\ Chances(z, i, k) \in Int /\ Chances(z, i, k) <= Chances(z, i, k)'
    <3> SUFFICES ASSUME NEW z \in Runs, NEW i \in Rows, NEW k \in Kinds
                 PROVE  Chances(z, i, k)' \in Int /\ Chances(z, i, k) \in Int /\ Chances(z, i, k) <= Chances(z, i, k)'
      OBVIOUS
    <3>1. CASE z = r
      BY <1>2, <3>1
    <3>2. CASE z # r
      BY <1>3, <3>2
    <3> QED
      BY <3>1, <3>2
  <2> QED
    BY <1>2, <2>1, <2>2 DEF MoreChances
<1>5. PassesOnly(r, kind, G)
  BY <1>1, <1>3 DEF PassesOnly, Brings
<1>6. ASSUME NEW k \in Kinds \ {kind}
      PROVE  Keeps(r, k)
  <2>1. MoreChances(r, k, {})
    BY <1>4 DEF MoreChances
  <2>2. \A z \in Runs, i \in Rows : Passed(z, i, k)' => Passed(z, i, k)
    BY <1>1, <1>3 DEF Brings
  <2> QED
    BY <2>1, <2>2 DEF Keeps, PassesOnly
<1> QED
  BY <1>4, <1>5, <1>6

LEMMA RestsKeepsChances ==
    ASSUME WritesFit, NEW r \in Runs, Rests(r), pc'[r] \in {"idle", "write"} => pc[r] \in {"idle", "write"}
    PROVE  /\ \A k \in Kinds : Keeps(r, k)
           /\ pc'[r] \notin {"idle", "write"} /\ pc[r] = "write" =>
                \A i \in Rows, k \in Kinds : ~Passed(r, i, k) => Chances(r, i, k) + 1 <= Chances(r, i, k)'
<1>1. WritesFit' /\ OthersWait(r) /\ at'[r].attempt = at[r].attempt /\ \A i \in Rows, k \in Kinds : Passed(r, i, k)' <=> Passed(r, i, k)
  BY DEF Rests
<1>2. ASSUME NEW i \in Rows, NEW k \in Kinds
      PROVE  /\ Chances(r, i, k) \in Int /\ Chances(r, i, k)' \in Int /\ Chances(r, i, k) <= Chances(r, i, k)'
             /\ pc'[r] \notin {"idle", "write"} /\ pc[r] = "write" /\ ~Passed(r, i, k) => Chances(r, i, k) + 1 <= Chances(r, i, k)'
  <2>1. Chances(r, i, k) \in Int /\ at[r].attempt \in Nat
    BY ChancesAreNumbers
  <2> QED
    BY <1>1, <2>1 DEF Chances
<1>3. ASSUME NEW z \in Runs \ {r}, NEW i \in Rows, NEW k \in Kinds
      PROVE  /\ Chances(z, i, k) \in Int /\ Chances(z, i, k)' = Chances(z, i, k)
             /\ Passed(z, i, k)' <=> Passed(z, i, k)
  BY <1>1, ChancesAreNumbers, OthersKeepTheirs
<1>4. \A z \in Runs, i \in Rows, k \in Kinds : Chances(z, i, k)' \in Int /\ Chances(z, i, k) \in Int /\ Chances(z, i, k) <= Chances(z, i, k)'
  <2> SUFFICES ASSUME NEW z \in Runs, NEW i \in Rows, NEW k \in Kinds
               PROVE  Chances(z, i, k)' \in Int /\ Chances(z, i, k) \in Int /\ Chances(z, i, k) <= Chances(z, i, k)'
    OBVIOUS
  <2>1. CASE z = r
    BY <1>2, <2>1
  <2>2. CASE z # r
    BY <1>3, <2>2
  <2> QED
    BY <2>1, <2>2
<1>5. \A z \in Runs, i \in Rows, k \in Kinds : Passed(z, i, k)' => Passed(z, i, k)
  BY <1>1, <1>3
<1>6. \A k \in Kinds : Keeps(r, k)
  BY <1>4, <1>5 DEF Keeps, MoreChances, PassesOnly
<1> QED
  BY <1>2, <1>6

\* Another attempt is another chance for the rows that were not passed, and has
\* passed none.
LEMMA RestartsGivesAChance ==
    ASSUME WritesFit, NEW r \in Runs, Restarts(r)
    PROVE  /\ \A k \in Kinds : Keeps(r, k)
           /\ \A i \in Rows, k \in Kinds : ~Passed(r, i, k) => Chances(r, i, k) + 1 <= Chances(r, i, k)'
<1>1. /\ WritesFit' /\ OthersWait(r) /\ at'[r].attempt = at[r].attempt + 1 /\ \A i \in Rows, k \in Kinds : ~Passed(r, i, k)'
      /\ pc[r] = "write" /\ pc'[r] = "write"
  BY DEF Restarts
<1>2. ASSUME NEW i \in Rows, NEW k \in Kinds
      PROVE  /\ Chances(r, i, k) \in Int /\ Chances(r, i, k)' \in Int /\ Chances(r, i, k) <= Chances(r, i, k)'
             /\ ~Passed(r, i, k) => Chances(r, i, k) + 1 <= Chances(r, i, k)'
  <2>1. Chances(r, i, k) \in Int /\ at[r].attempt \in Nat
    BY ChancesAreNumbers
  <2> QED
    BY <1>1, <2>1 DEF Chances
<1>3. ASSUME NEW z \in Runs \ {r}, NEW i \in Rows, NEW k \in Kinds
      PROVE  /\ Chances(z, i, k) \in Int /\ Chances(z, i, k)' = Chances(z, i, k)
             /\ Passed(z, i, k)' <=> Passed(z, i, k)
  BY <1>1, ChancesAreNumbers, OthersKeepTheirs
<1>4. \A z \in Runs, i \in Rows, k \in Kinds : Chances(z, i, k)' \in Int /\ Chances(z, i, k) \in Int /\ Chances(z, i, k) <= Chances(z, i, k)'
  <2> SUFFICES ASSUME NEW z \in Runs, NEW i \in Rows, NEW k \in Kinds
               PROVE  Chances(z, i, k)' \in Int /\ Chances(z, i, k) \in Int /\ Chances(z, i, k) <= Chances(z, i, k)'
    OBVIOUS
  <2>1. CASE z = r
    BY <1>2, <2>1
  <2>2. CASE z # r
    BY <1>3, <2>2
  <2> QED
    BY <2>1, <2>2
<1>5. \A z \in Runs, i \in Rows, k \in Kinds : Passed(z, i, k)' => Passed(z, i, k)
  BY <1>1, <1>3
<1>6. \A k \in Kinds : Keeps(r, k)
  BY <1>4, <1>5 DEF Keeps, MoreChances, PassesOnly
<1> QED
  BY <1>2, <1>6

LEMMA CountsStayBelow ==
    ASSUME NEW a \in Nat, NEW b \in Nat, NEW c \in Int, NEW d \in Int, b = a \/ (b = a + 1 /\ c + 1 <= d), a <= c, c <= d
    PROVE  b <= d /\ (a > 0 => b > 0)
OBVIOUS

\* The endpoint receives no rows but those in H, and what the attempt brings are rows
\* in G, which it has received.
Receives(r, G, H) ==
    /\ G \subseteq Rows /\ H \subseteq Rows
    /\ MoreChances(r, "siem", H) /\ (store = "jsonl" => PassesOnly(r, "siem", G))
    /\ \A z \in Runs, i \in Rows : siem'[z, i] = siem[z, i] \/ (z = r /\ i \in H /\ siem'[z, i] = siem[z, i] + 1)
    /\ \A i \in G : siem'[r, i] > 0

LEMMA SiemStaysServed ==
    ASSUME WritesFit, WritesFit', SiemIsServed, scene' = scene, NEW r \in Runs, NEW G, NEW H, Receives(r, G, H)
    PROVE  SiemIsServed'
<1> USE DEF Receives
<1>1. "siem" \in Kinds /\ store' = store
  BY DEF Kinds, store
<1>2. ASSUME NEW z \in Runs, NEW i \in Rows
      PROVE  siem'[z, i] <= Chances(z, i, "siem")' /\ (store = "jsonl" /\ Passed(z, i, "siem")' => siem'[z, i] > 0)
  <2>1. siem[z, i] \in Nat /\ siem'[z, i] \in Nat
    BY DEF WritesFit, WritesTyped
  <2>2. siem[z, i] <= Chances(z, i, "siem") /\ (store = "jsonl" /\ Passed(z, i, "siem") => siem[z, i] > 0)
    BY DEF SiemIsServed
  <2>3. Chances(z, i, "siem")' \in Int /\ Chances(z, i, "siem") \in Int /\ Chances(z, i, "siem") <= Chances(z, i, "siem")'
    BY <1>1 DEF MoreChances
  <2>4. z = r /\ i \in H => Chances(z, i, "siem") + 1 <= Chances(z, i, "siem")'
    BY DEF MoreChances
  <2>5. store = "jsonl" /\ Passed(z, i, "siem")' => Passed(z, i, "siem") \/ (z = r /\ i \in G)
    BY DEF PassesOnly
  <2>6. siem'[z, i] = siem[z, i] \/ (z = r /\ i \in H /\ siem'[z, i] = siem[z, i] + 1)
    OBVIOUS
  <2>7. PICK a \in Nat, b \in Nat, c \in Int, d \in Int :
          a = siem[z, i] /\ b = siem'[z, i] /\ c = Chances(z, i, "siem") /\ d = Chances(z, i, "siem")'
    BY <2>1, <2>3
  <2>8. (b = a \/ (b = a + 1 /\ c + 1 <= d)) /\ a <= c /\ c <= d
    BY <2>2, <2>3, <2>4, <2>6, <2>7
  <2>9. b <= d /\ (a > 0 => b > 0)
    BY <2>7, <2>8, CountsStayBelow
  <2>10. z = r /\ i \in G => siem'[z, i] > 0
    OBVIOUS
  <2>11. store = "jsonl" /\ Passed(z, i, "siem")' => siem'[z, i] > 0
    BY <2>2, <2>5, <2>7, <2>9, <2>10
  <2> QED
    BY <2>7, <2>9, <2>11
<1> QED
  BY <1>1, <1>2 DEF SiemIsServed

LEMMA ObjectsStayThere ==
    ASSUME WritesFit, WritesFit', ObjectsAreThere, scene' = scene, NEW r \in Runs,
           NEW G, G \subseteq Rows, store = "jsonl" => PassesOnly(r, "object", G),
           \A k \in DOMAIN object : object'[k] = object[k] \/ (k = KeyOf(r) /\ object'[k] = r),
           G # {} => object'[KeyOf(r)] = r
    PROVE  ObjectsAreThere'
<1>1. "object" \in Kinds /\ store' = store
  BY DEF Kinds, store
<1>2. DOMAIN object = Keys /\ DOMAIN object' = DOMAIN object
  BY KeysStay DEF WritesFit, WritesTyped
<1>3. \A z \in Runs : z # None
  BY AuditTrailAssumption
<1>4. ASSUME NEW k \in DOMAIN object, object'[k] # None
      PROVE  KeyOf(object'[k]) = k
  <2>1. CASE object'[k] = object[k]
    <3>1. object[k] # None /\ KeyOf(object[k]) = k
      BY <1>4, <2>1 DEF ObjectsAreThere
    <3> QED
      BY <2>1, <3>1 DEF KeyOf, FileOf, RunId
  <2>2. CASE k = KeyOf(r) /\ object'[k] = r
    BY <2>2 DEF KeyOf, FileOf, RunId
  <2> QED
    BY <2>1, <2>2
<1>5. ASSUME NEW z \in Runs, NEW i \in Rows, store = "jsonl", Passed(z, i, "object")'
      PROVE  object'[KeyOf(z)] # None
  <2>1. Passed(z, i, "object") \/ (z = r /\ i \in G)
    BY <1>5 DEF PassesOnly
  <2>2. CASE z = r /\ i \in G
    BY <1>3, <2>2
  <2>3. CASE Passed(z, i, "object")
    <3>1. object[KeyOf(z)] # None /\ KeyOf(z) \in DOMAIN object
      BY <1>2, <1>5, <2>3 DEF ObjectsAreThere, Keys
    <3>2. object'[KeyOf(z)] = object[KeyOf(z)] \/ object'[KeyOf(z)] = r
      BY <3>1
    <3> QED
      BY <1>3, <3>1, <3>2
  <2> QED
    BY <2>1, <2>2, <2>3
<1> QED
  BY <1>1, <1>2, <1>4, <1>5, KeysStay DEF ObjectsAreThere

\* The row that a sink raises at was not passed.
LEMMA RaisesAtTheNextRow ==
    ASSUME WritesFit, NEW r \in Runs, pc[r] = "write", NEW kind, Sinks[at[r].sink] = kind
    PROVE  ~Passed(r, at[r].row, kind) /\ at[r].row \in Rows
<1>1. at[r].sink \in 1 .. Len(Sinks) /\ at[r].row \in Rows
  BY DEF WritesFit, WritesTyped, Place
<1>2. Len(Sinks) \in Nat /\ (\A i, j \in 1 .. Len(Sinks) : Sinks[i] = Sinks[j] => i = j) /\ at[r].row \in Nat
  BY <1>1, DeploymentFits, RowsAreNumbers DEF WritesFit, WritesTyped
<1> QED
  BY <1>1, <1>2 DEF Passed

LEMMA RaisingServes ==
    ASSUME WritesFit, SiemIsServed, ObjectsAreThere, NEW r \in Runs, RaisesIn(r), pc[r] = "write",
           WritesFit', scene' = scene, Keeps(r, "siem"), Keeps(r, "object"),
           \A i \in Rows, k \in Kinds : ~Passed(r, i, k) => Chances(r, i, k) + 1 <= Chances(r, i, k)'
    PROVE  SiemIsServed' /\ ObjectsAreThere'
<1> DEFINE H == IF Sinks[at[r].sink] = "siem" THEN {at[r].row} ELSE {}
<1>1. "siem" \in Kinds
  BY DEF Kinds
<1>2. Sinks[at[r].sink] = "siem" => ~Passed(r, at[r].row, "siem")
  BY RaisesAtTheNextRow
<1>3. at[r].row \in Rows
  BY DEF WritesFit, WritesTyped, Place
<1>4. H \subseteq Rows /\ \A i \in H : i = at[r].row /\ Sinks[at[r].sink] = "siem"
  BY <1>3
<1>5. Sinks[at[r].sink] = "siem" => at[r].row \in H
  OBVIOUS
<1> HIDE DEF H
<1>6. MoreChances(r, "siem", H)
  BY <1>1, <1>2, <1>3, <1>4 DEF MoreChances, Keeps
<1>7. ASSUME NEW z \in Runs, NEW i \in Rows
      PROVE  siem'[z, i] = siem[z, i] \/ (z = r /\ i \in H /\ siem'[z, i] = siem[z, i] + 1)
  <2>1. PICK x \in Runs \X Rows : x = <<z, i>>
    OBVIOUS
  <2>2. siem'[x] = siem[x] \/ (x = <<r, at[r].row>> /\ Sinks[at[r].sink] = "siem" /\ siem'[x] = siem[x] + 1)
    BY DEF RaisesIn
  <2> QED
    BY <1>5, <2>1, <2>2
<1> DEFINE G == {}
<1>8. G \subseteq Rows /\ (\A i \in G : siem'[r, i] > 0) /\ (G # {} => object'[KeyOf(r)] = r)
      /\ PassesOnly(r, "siem", G) /\ PassesOnly(r, "object", G)
  BY DEF Keeps
<1> HIDE DEF G
<1>9. SiemIsServed'
  <2>1. Receives(r, G, H)
    BY <1>4, <1>6, <1>7, <1>8 DEF Receives
  <2> QED
    BY <2>1, SiemStaysServed
<1>10. \A k \in DOMAIN object : object'[k] = object[k] \/ (k = KeyOf(r) /\ object'[k] = r)
  BY DEF RaisesIn
<1>11. ObjectsAreThere'
  BY <1>8, <1>10, ObjectsStayThere
<1> QED
  BY <1>9, <1>11

LEMMA NothingToServe ==
    ASSUME WritesFit, SiemIsServed, ObjectsAreThere, NEW r \in Runs, UNCHANGED <<object, siem>>,
           WritesFit', scene' = scene, MoreChances(r, "siem", {}), store = "jsonl" => PassesOnly(r, "siem", {}) /\ PassesOnly(r, "object", {})
    PROVE  SiemIsServed' /\ ObjectsAreThere'
<1> DEFINE G == {}
<1>1. /\ G \subseteq Rows /\ (\A i \in G : siem'[r, i] > 0) /\ (G # {} => object'[KeyOf(r)] = r)
      /\ MoreChances(r, "siem", G) /\ (store = "jsonl" => PassesOnly(r, "siem", G)) /\ (store = "jsonl" => PassesOnly(r, "object", G))
  OBVIOUS
<1> HIDE DEF G
<1>2. \A z \in Runs, i \in Rows : siem'[z, i] = siem[z, i] \/ (z = r /\ i \in G /\ siem'[z, i] = siem[z, i] + 1)
  OBVIOUS
<1>3. \A k \in DOMAIN object : object'[k] = object[k] \/ (k = KeyOf(r) /\ object'[k] = r)
  OBVIOUS
<1>4. SiemIsServed'
  <2>1. Receives(r, G, G)
    BY <1>1, <1>2 DEF Receives
  <2> QED
    BY <2>1, SiemStaysServed
<1>5. ObjectsAreThere'
  BY <1>1, <1>3, ObjectsStayThere
<1> QED
  BY <1>4, <1>5

LEMMA StepKeepsOthersServed ==
    ASSUME WritesFit, SiemIsServed, ObjectsAreThere, [Next]_vars
    PROVE  SiemIsServed' /\ ObjectsAreThere'
<1>1. ASSUME UNCHANGED <<scene, object, siem, pc, at>>
      PROVE  SiemIsServed' /\ ObjectsAreThere'
  <2>1. Sinks' = Sinks /\ store' = store
    BY <1>1 DEF Sinks, store
  <2>2. \A r, i, k : Passed(r, i, k)' = Passed(r, i, k)
    BY <1>1, <2>1 DEF Passed
  <2>3. \A r, i, k : Chances(r, i, k)' = Chances(r, i, k)
    BY <1>1, <2>2 DEF Chances
  <2>4. SiemIsServed'
    BY <1>1, <2>1, <2>2, <2>3 DEF SiemIsServed
  <2>5. ObjectsAreThere'
    BY <1>1, <2>1, <2>2, KeysStay DEF ObjectsAreThere
  <2> QED
    BY <2>4, <2>5
<1>2. ASSUME UNCHANGED vars \/ Tick \/ \E x \in Readers : StartReading(x) \/ ExportPage(x) \/ DetailPage(x)
      PROVE  SiemIsServed' /\ ObjectsAreThere'
  <2>1. UNCHANGED <<scene, object, siem, pc, at>>
    BY <1>2 DEF vars, Tick, StartReading, ExportPage, DetailPage, sinks
  <2> QED
    BY <1>1, <2>1
<1>3. ASSUME NEW r \in Runs, BeginWrite(r) \/ Stamp(r) \/ Die(r)
      PROVE  SiemIsServed' /\ ObjectsAreThere'
  <2>1. UNCHANGED <<object, siem>> /\ scene' = scene
    BY <1>3 DEF BeginWrite, Stamp, Die, sinks
  <2>2. Rests(r) /\ (pc'[r] \in {"idle", "write"} => pc[r] \in {"idle", "write"})
    BY <1>3, BeginStep, StampStep, DieStep
  <2>3. Keeps(r, "siem") /\ Keeps(r, "object") /\ WritesFit'
    BY <2>2, RestsKeepsChances DEF Rests, Kinds
  <2> QED
    BY <2>1, <2>3, NothingToServe DEF Keeps
<1>4. ASSUME NEW r \in Runs, Persist(r)
      PROVE  SiemIsServed' /\ ObjectsAreThere'
  <2>1. UNCHANGED <<object, siem>> /\ scene' = scene
    BY <1>4 DEF Persist, sinks
  <2>2. WritesFit' /\ OthersWait(r) /\ store = "db" /\ at' = at /\ pc[r] = "stamped" /\ pc'[r] = "acked"
    BY <1>4, PersistStep
  <2>3. ASSUME NEW z \in Runs, NEW i \in Rows, NEW k \in Kinds
        PROVE  Chances(z, i, k)' \in Int /\ Chances(z, i, k) \in Int /\ Chances(z, i, k) <= Chances(z, i, k)'
    <3>1. Chances(z, i, k) \in Int /\ at[z].attempt \in Nat
      BY ChancesAreNumbers
    <3>2. CASE z = r
      BY <2>2, <3>1, <3>2 DEF Chances
    <3>3. CASE z # r
      BY <2>2, <3>1, <3>3, OthersKeepTheirs
    <3> QED
      BY <3>2, <3>3
  <2>4. MoreChances(r, "siem", {})
    BY <2>3 DEF MoreChances
  <2> QED
    BY <2>1, <2>2, <2>4, NothingToServe
<1>5. ASSUME NEW r \in Runs, Retry(r)
      PROVE  SiemIsServed' /\ ObjectsAreThere'
  <2>1. Restarts(r) /\ RaisesIn(r)
    BY <1>5, RetryStep
  <2>2. /\ Keeps(r, "siem") /\ Keeps(r, "object")
        /\ \A i \in Rows, k \in Kinds : ~Passed(r, i, k) => Chances(r, i, k) + 1 <= Chances(r, i, k)'
    BY <2>1, RestartsGivesAChance DEF Kinds
  <2>3. pc[r] = "write" /\ WritesFit' /\ scene' = scene
    BY <2>1 DEF Restarts, OthersWait
  <2> QED
    BY <2>1, <2>2, <2>3, RaisingServes
<1>6. ASSUME NEW r \in Runs, GiveUp(r)
      PROVE  SiemIsServed' /\ ObjectsAreThere'
  <2>1. Rests(r) /\ RaisesIn(r) /\ pc[r] = "write" /\ pc'[r] \notin {"idle", "write"}
    BY <1>6, GiveUpStep
  <2>2. /\ Keeps(r, "siem") /\ Keeps(r, "object")
        /\ \A i \in Rows, k \in Kinds : ~Passed(r, i, k) => Chances(r, i, k) + 1 <= Chances(r, i, k)'
    BY <2>1, RestsKeepsChances DEF Kinds
  <2>3. WritesFit' /\ scene' = scene
    BY <2>1 DEF Rests, OthersWait
  <2> QED
    BY <2>1, <2>2, <2>3, RaisingServes
<1>7. ASSUME NEW r \in Runs, NEW G, G \subseteq Rows, Advances(r, "file", G), UNCHANGED <<object, siem>>
      PROVE  SiemIsServed' /\ ObjectsAreThere'
  <2>1. "file" \in Kinds /\ "siem" \in Kinds /\ "object" \in Kinds /\ "file" # "siem" /\ "file" # "object"
    BY DEF Kinds
  <2>2. Keeps(r, "siem") /\ Keeps(r, "object")
    BY <1>7, <2>1, AdvancesGivesAChance
  <2>3. WritesFit' /\ scene' = scene
    BY <1>7 DEF Advances, OthersWait
  <2> QED
    BY <1>7, <2>2, <2>3, NothingToServe DEF Keeps
<1>8. ASSUME NEW r \in Runs, AppendBatch(r)
      PROVE  SiemIsServed' /\ ObjectsAreThere'
  <2>1. UNCHANGED <<object, siem>> /\ Advances(r, "file", Rows) /\ Rows \subseteq Rows
    BY <1>8, BatchStep DEF AppendBatch
  <2> QED
    BY <1>7, <2>1
<1>9. ASSUME NEW r \in Runs, AppendPiece(r)
      PROVE  SiemIsServed' /\ ObjectsAreThere'
  <2>1. UNCHANGED <<object, siem>> /\ scene' = scene
    BY <1>9 DEF AppendPiece
  <2>2. at[r].half \in 1 .. 2 /\ {at[r].row} \subseteq Rows
    BY <1>9, PieceStep
  <2>3. CASE at[r].half = 1
    <3>1. Rests(r) /\ (pc'[r] \in {"idle", "write"} => pc[r] \in {"idle", "write"})
      BY <1>9, <2>3, PieceStep
    <3>2. Keeps(r, "siem") /\ Keeps(r, "object") /\ WritesFit'
      BY <3>1, RestsKeepsChances DEF Rests, Kinds
    <3> QED
      BY <2>1, <3>2, NothingToServe DEF Keeps
  <2>4. CASE at[r].half = 2
    <3>1. Advances(r, "file", {at[r].row})
      BY <1>9, <2>4, PieceStep
    <3> QED
      BY <1>7, <2>1, <2>2, <3>1
  <2>5. at[r].half = 1 \/ at[r].half = 2
    BY <2>2
  <2> QED
    BY <2>3, <2>4, <2>5
<1>10. ASSUME NEW r \in Runs, PutObject(r)
       PROVE  SiemIsServed' /\ ObjectsAreThere'
  <2> DEFINE G == {i \in Rows : i >= at[r].row}
  <2>1. Advances(r, "object", G) /\ object' = [object EXCEPT ![KeyOf(r)] = r] /\ siem' = siem
    BY <1>10, ObjectStep DEF PutObject
  <2>2. "object" \in Kinds /\ "siem" \in Kinds /\ G \subseteq Rows
    BY DEF Kinds
  <2> HIDE DEF G
  <2>3. PassesOnly(r, "object", G) /\ Keeps(r, "siem")
    BY <2>1, <2>2, AdvancesGivesAChance
  <2> DEFINE H == {}
  <2>4. MoreChances(r, "siem", H) /\ PassesOnly(r, "siem", H) /\ H \subseteq Rows /\ \A i \in H : siem'[r, i] > 0
    BY <2>3 DEF Keeps
  <2> HIDE DEF H
  <2>5. WritesFit' /\ scene' = scene
    BY <2>1 DEF Advances, OthersWait
  <2>6. \A z \in Runs, i \in Rows : siem'[z, i] = siem[z, i] \/ (z = r /\ i \in H /\ siem'[z, i] = siem[z, i] + 1)
    BY <2>1
  <2>7. KeyOf(r) \in DOMAIN object
    BY DEF WritesFit, WritesTyped, Keys
  <2>8. object'[KeyOf(r)] = r /\ \A k \in DOMAIN object : object'[k] = object[k] \/ (k = KeyOf(r) /\ object'[k] = r)
    BY <2>1, <2>7
  <2>9. SiemIsServed'
    <3>1. Receives(r, H, H)
      BY <2>4, <2>6 DEF Receives
    <3> QED
      BY <2>5, <3>1, SiemStaysServed
  <2>10. ObjectsAreThere'
    BY <2>2, <2>3, <2>5, <2>8, ObjectsStayThere
  <2> QED
    BY <2>9, <2>10
<1>11. ASSUME NEW r \in Runs, PostRow(r)
       PROVE  SiemIsServed' /\ ObjectsAreThere'
  <2> DEFINE G == {at[r].row}
  <2>1. Advances(r, "siem", G) /\ at[r].row \in Rows /\ siem' = [siem EXCEPT ![<<r, at[r].row>>] = @ + 1] /\ object' = object
    BY <1>11, PostStep DEF PostRow
  <2>2. "object" \in Kinds /\ "siem" \in Kinds /\ G \subseteq Rows /\ "object" # "siem"
    BY <2>1 DEF Kinds
  <2>3. \A z \in Runs, i \in Rows : siem'[z, i] = siem[z, i] \/ (z = r /\ i \in G /\ siem'[z, i] = siem[z, i] + 1)
    BY <2>1 DEF WritesFit, WritesTyped
  <2>4. \A i \in G : siem'[r, i] > 0
    <3>1. PICK x \in Runs \X Rows : x = <<r, at[r].row>>
      BY <2>1
    <3>2. siem[x] \in Nat /\ siem'[x] = siem[x] + 1
      BY <2>1, <3>1 DEF WritesFit, WritesTyped
    <3>3. siem'[x] > 0
      BY <3>2
    <3> QED
      BY <3>1, <3>3
  <2> HIDE DEF G
  <2>5. MoreChances(r, "siem", G) /\ PassesOnly(r, "siem", G) /\ Keeps(r, "object")
    BY <2>1, <2>2, AdvancesGivesAChance
  <2> DEFINE H == {}
  <2>6. PassesOnly(r, "object", H) /\ H \subseteq Rows /\ (H # {} => object'[KeyOf(r)] = r)
    BY <2>5 DEF Keeps
  <2> HIDE DEF H
  <2>7. WritesFit' /\ scene' = scene
    BY <2>1 DEF Advances, OthersWait
  <2>8. SiemIsServed'
    <3>1. Receives(r, G, G)
      BY <2>2, <2>3, <2>4, <2>5 DEF Receives
    <3> QED
      BY <2>7, <3>1, SiemStaysServed
  <2>9. \A k \in DOMAIN object : object'[k] = object[k] \/ (k = KeyOf(r) /\ object'[k] = r)
    BY <2>1
  <2>10. ObjectsAreThere'
    BY <2>6, <2>7, <2>9, ObjectsStayThere
  <2> QED
    BY <2>8, <2>10
<1> QED
  BY <1>2, <1>3, <1>4, <1>5, <1>6, <1>8, <1>9, <1>10, <1>11 DEF Next, Step


----------------------------------------------------------------------------
(* How often a row is in the files, and which ones are lost *)

\* One place more at most, for a row that has got another chance.
LEMMA CopiesGrowByOne ==
    ASSUME NEW S, NEW T, NEW e, IsFiniteSet(S), T \subseteq S \cup {e}, NEW c \in Int, Cardinality(S) <= c
    PROVE  IsFiniteSet(T) /\ Cardinality(T) <= c + 1
<1>1. IsFiniteSet(S \cup {e}) /\ Cardinality(S \cup {e}) <= Cardinality(S) + 1 /\ Cardinality(S) \in Nat /\ Cardinality(S \cup {e}) \in Nat
  <2>1. IsFiniteSet(S \cup {e}) /\ Cardinality(S \cup {e}) = IF e \in S THEN Cardinality(S) ELSE Cardinality(S) + 1
    BY FS_AddElement
  <2>2. Cardinality(S) \in Nat
    BY FS_CardinalityType
  <2> QED
    BY <2>1, <2>2
<1>2. IsFiniteSet(T) /\ Cardinality(T) <= Cardinality(S \cup {e})
  BY <1>1, FS_Subset
<1>3. Cardinality(T) \in Nat
  BY <1>2, FS_CardinalityType
<1> QED
  BY <1>1, <1>2, <1>3

LEMMA CopiesAreServed ==
    ASSUME FilesAreServed, NEW r \in Runs, NEW G, G \subseteq Rows, MoreChances(r, "file", G), NEW place,
           \A p \in Positions' : RowAt(p)' # None =>
              (p \in Positions /\ RowAt(p) = RowAt(p)') \/ \E i \in G : p = place[i] /\ RowAt(p)' = <<r, i>>
    PROVE  \A z \in Runs, i \in Rows :
              IsFiniteSet(Copies(z, i)') /\ Cardinality(Copies(z, i)') <= Chances(z, i, "file")'
<1> SUFFICES ASSUME NEW z \in Runs, NEW i \in Rows
             PROVE  IsFiniteSet(Copies(z, i)') /\ Cardinality(Copies(z, i)') <= Chances(z, i, "file")'
  OBVIOUS
<1> DEFINE S == Copies(z, i)
<1> DEFINE T == Copies(z, i)'
<1>1. IsFiniteSet(S) /\ Cardinality(S) <= Chances(z, i, "file") /\ Cardinality(S) \in Nat
  BY FS_CardinalityType DEF FilesAreServed
<1>2. PICK c \in Int, d \in Int : c = Chances(z, i, "file") /\ d = Chances(z, i, "file")'
  BY DEF MoreChances, Kinds
<1>3. c <= d /\ (z = r /\ i \in G => c + 1 <= d)
  BY <1>2 DEF MoreChances, Kinds
<1>4. <<z, i>> # None
  BY AuditTrailAssumption
<1>5. \A p \in T : p \in S \/ (z = r /\ i \in G /\ p = place[i])
  <2> SUFFICES ASSUME NEW p \in T, p \notin S
               PROVE  z = r /\ i \in G /\ p = place[i]
    OBVIOUS
  <2>1. p \in Positions' /\ RowAt(p)' = <<z, i>> /\ RowAt(p)' # None
    BY <1>4 DEF Copies
  <2>2. ~(p \in Positions /\ RowAt(p) = <<z, i>>)
    BY DEF Copies
  <2>3. PICK j \in G : p = place[j] /\ RowAt(p)' = <<r, j>>
    BY <2>1, <2>2
  <2>4. <<z, i>> = <<r, j>>
    BY <2>1, <2>3
  <2> QED
    BY <2>3, <2>4
<1> HIDE DEF S, T
<1>6. CASE z = r /\ i \in G
  <2>1. T \subseteq S \cup {place[i]} /\ Cardinality(S) <= c
    BY <1>1, <1>2, <1>5
  <2>2. IsFiniteSet(T) /\ Cardinality(T) <= c + 1
    BY <1>1, <1>2, <2>1, CopiesGrowByOne
  <2>3. Cardinality(T) \in Nat
    BY <2>2, FS_CardinalityType
  <2> QED
    BY <1>2, <1>3, <1>6, <2>2, <2>3 DEF T
<1>7. CASE ~(z = r /\ i \in G)
  <2>1. T \subseteq S
    BY <1>5, <1>7
  <2>2. IsFiniteSet(T) /\ Cardinality(T) <= Cardinality(S)
    BY <1>1, <2>1, FS_Subset
  <2>3. Cardinality(T) \in Nat
    BY <2>2, FS_CardinalityType
  <2> QED
    BY <1>1, <1>2, <1>3, <2>2, <2>3 DEF T
<1> QED
  BY <1>6, <1>7

\* Two rows at most are lost where text is appended to an unended line.
LosesOnly(a, b, intrudes) == \A x \in Lost' : x \in Lost \/ (intrudes /\ (x = a \/ x = b))

LEMMA LossIsServed ==
    ASSUME WritesFit, FilesAreServed, store = "jsonl", NEW a, NEW b, NEW intrudes \in BOOLEAN,
           spoilt' = spoilt + (IF intrudes THEN 1 ELSE 0), LosesOnly(a, b, intrudes)
    PROVE  Cardinality(Lost') <= 2 * spoilt'
<1> DEFINE S == Lost
<1> DEFINE T == Lost'
<1>1. PICK n \in Nat : n = spoilt
  BY DEF WritesFit, WritesTyped
<1>2. IsFiniteSet(S) /\ Cardinality(S) \in Nat
  <2>1. IsFiniteSet(Runs \X Rows)
    BY AuditTrailAssumption, FS_Product
  <2>2. S \subseteq Runs \X Rows
    BY DEF Lost
  <2>3. IsFiniteSet(S)
    BY <2>1, <2>2, FS_Subset
  <2> QED
    BY <2>3, FS_CardinalityType
<1>3. Cardinality(S) <= 2 * n
  BY <1>1 DEF FilesAreServed
<1> HIDE DEF S, T
<1>4. CASE intrudes
  <2>1. IsFiniteSet(S \cup {a}) /\ Cardinality(S \cup {a}) <= 2 * n + 1
    <3>1. PICK c \in Int : c = 2 * n
      BY <1>1
    <3>2. PICK U : U = S \cup {a}
      OBVIOUS
    <3>3. U \subseteq S \cup {a} /\ Cardinality(S) <= c
      BY <1>3, <3>1, <3>2
    <3>4. IsFiniteSet(U) /\ Cardinality(U) <= c + 1
      BY <1>2, <3>1, <3>3, CopiesGrowByOne
    <3> QED
      BY <3>1, <3>2, <3>4
  <2>2. T \subseteq (S \cup {a}) \cup {b}
    BY <1>4 DEF S, T, LosesOnly
  <2>3. PICK c \in Int : c = 2 * n + 1
    OBVIOUS
  <2>4. Cardinality(T) <= c + 1 /\ IsFiniteSet(T)
    BY <2>1, <2>2, <2>3, CopiesGrowByOne
  <2>5. spoilt' = n + 1
    BY <1>1, <1>4
  <2>6. Cardinality(T) \in Nat
    BY <2>4, FS_CardinalityType
  <2> QED
    BY <2>3, <2>4, <2>5, <2>6 DEF T
<1>5. CASE ~intrudes
  <2>1. T \subseteq S
    BY <1>5 DEF S, T, LosesOnly
  <2>2. IsFiniteSet(T) /\ Cardinality(T) <= Cardinality(S)
    BY <1>2, <2>1, FS_Subset
  <2>3. Cardinality(T) \in Nat
    BY <2>2, FS_CardinalityType
  <2>4. spoilt' = n
    BY <1>1, <1>5
  <2> QED
    BY <1>2, <1>3, <2>2, <2>3, <2>4 DEF T
<1> QED
  BY <1>4, <1>5

\* The begun line of another write can only be spoilt in the file that is
\* appended to, when it is open.
LEMMA OneIsSpoilt ==
    ASSUME WritesFit, scene' = scene, NEW r \in Runs, OthersWait(r), NEW z \in Runs, z # r,
           \A g \in Files \ {FileOf(r)} : file'[g] = file[g], Intact(z), ~Intact(z)'
    PROVE  Open(FileOf(r)) /\ Before(FileOf(r)) = <<<<z, at[z].row, 1>>>>
<1>1. at'[z] = at[z] /\ FileOf(z)' = FileOf(z) /\ FileOf(z) \in Files
  BY DeploymentFits DEF OthersWait, FileOf, WritesFit, WritesTyped
<1>2. PICK g \in Files : g = FileOf(z)
  BY <1>1
<1>3. CASE g # FileOf(r)
  <2>1. file'[g] = file[g]
    BY <1>3
  <2>2. Open(g)' = Open(g) /\ Before(g)' = Before(g)
    BY <2>1 DEF Open, Before
  <2> QED
    BY <1>1, <1>2, <2>2 DEF Intact
<1> QED
  BY <1>2, <1>3 DEF Intact

LEMMA FilesStayServed ==
    ASSUME WritesFit, WritesFit', FilesAreServed, scene' = scene, file' = file, spoilt' = spoilt,
           NEW r \in Runs, OthersWait(r), MoreChances(r, "file", {}), store = "jsonl" => PassesOnly(r, "file", {}),
           pc'[r] = "write" => at'[r].half # 2
    PROVE  FilesAreServed'
<1>1. Files' = Files /\ FileOf(r)' = FileOf(r) /\ Bulky' = Bulky /\ store' = store
  BY DEF Files, FileOf, Bulky, store
<1>2. Positions' = Positions /\ \A p : RowAt(p)' = RowAt(p)
  BY <1>1 DEF Positions, RowAt, RowOf
<1>3. \A z, i : Copies(z, i)' = Copies(z, i)
  BY <1>2 DEF Copies
<1>4. \A z \in Runs, i \in Rows :
              IsFiniteSet(Copies(z, i)') /\ Cardinality(Copies(z, i)') <= Chances(z, i, "file")'
  <2> DEFINE G == {}
  <2>1. G \subseteq Rows /\ MoreChances(r, "file", G)
    OBVIOUS
  <2> HIDE DEF G
  <2>2. \A p \in Positions' : RowAt(p)' # None =>
              (p \in Positions /\ RowAt(p) = RowAt(p)') \/ \E i \in G : p = file[i] /\ RowAt(p)' = <<r, i>>
    BY <1>2
  <2> QED
    BY <2>1, <2>2, CopiesAreServed
<1>5. ASSUME store = "jsonl"
      PROVE  Cardinality(Lost') <= 2 * spoilt'
  <2>1. ASSUME NEW x \in Runs \X Rows, Passed(x[1], x[2], "file")', Copies(x[1], x[2])' = {}
        PROVE  x \in Lost
    BY <1>3, <1>5, <2>1 DEF PassesOnly, Lost
  <2>2. ASSUME NEW x \in Runs \X Rows, pc'[x[1]] = "write", at'[x[1]].half = 2, at'[x[1]].row = x[2], ~Intact(x[1])'
        PROVE  x \in Lost
    <3>1. x[1] # r /\ x[1] \in Runs
      BY <2>2
    <3>2. PICK z \in Runs : z = x[1] /\ z # r
      BY <3>1
    <3>3. at'[z] = at[z] /\ pc'[z] = pc[z] /\ FileOf(z)' = FileOf(z)
      BY <3>2 DEF OthersWait, FileOf
    <3>4. Intact(z)' = Intact(z)
      BY <3>3 DEF Intact, Open, Before
    <3> QED
      BY <2>2, <3>2, <3>3, <3>4 DEF Lost
  <2>3. \A x \in Lost' : x \in Lost
    BY <2>1, <2>2 DEF Lost
  <2>4. PICK intrudes \in BOOLEAN : intrudes = FALSE
    OBVIOUS
  <2>5. spoilt' = spoilt + (IF intrudes THEN 1 ELSE 0)
    BY <2>4 DEF WritesFit, WritesTyped
  <2>6. LosesOnly(r, r, intrudes)
    BY <2>3 DEF LosesOnly
  <2> QED
    BY <1>5, <2>5, <2>6, LossIsServed
<1> QED
  BY <1>1, <1>4, <1>5 DEF FilesAreServed

\* What an append may lose: the row whose line it spoils, and its own.
LEMMA AppendLoses ==
    ASSUME WritesFit, WritesFit', FilesAreServed, scene' = scene, NEW r \in Runs, OthersWait(r), store = "jsonl", RowsStay,
           \A g \in Files \ {FileOf(r)} : file'[g] = file[g], NEW intrudes \in BOOLEAN,
           spoilt' = spoilt + (IF intrudes THEN 1 ELSE 0),
           NEW i \in Rows,
           \A z \in Runs \ {r} : Open(FileOf(r)) /\ Before(FileOf(r)) = <<<<z, at[z].row, 1>>>> => intrudes,
           \A j \in Rows : Passed(r, j, "file")' /\ Copies(r, j)' = {} => <<r, j>> \in Lost \/ (intrudes /\ j = i),
           pc'[r] = "write" /\ at'[r].half = 2 => Intact(r)' \/ (intrudes /\ at'[r].row = i)
    PROVE  Cardinality(Lost') <= 2 * spoilt'
<1> DEFINE head == Head(Before(FileOf(r)))
<1> DEFINE a == <<head[1], head[2]>>
<1> DEFINE b == <<r, i>>
<1>1. ASSUME NEW z \in Runs, NEW j \in Rows, Passed(z, j, "file")', Copies(z, j)' = {}
      PROVE  <<z, j>> \in Lost \/ (intrudes /\ <<z, j>> = b)
  <2>1. CASE z = r
    BY <1>1, <2>1
  <2>2. CASE z # r
    <3>1. Passed(z, j, "file")
      BY <1>1, <2>2, OthersKeepTheirs
    <3>2. Copies(z, j) = {}
      <4>1. <<z, j>> # None
        BY AuditTrailAssumption
      <4>2. \A p \in Copies(z, j) : p \in Copies(z, j)'
        BY <4>1 DEF Copies, RowsStay
      <4> QED
        BY <1>1, <4>2
    <3> QED
      BY <3>1, <3>2 DEF Lost
  <2> QED
    BY <2>1, <2>2
<1>2. ASSUME NEW z \in Runs, pc'[z] = "write", at'[z].half = 2, ~Intact(z)'
      PROVE  <<z, at'[z].row>> \in Lost \/ (intrudes /\ (<<z, at'[z].row>> = a \/ <<z, at'[z].row>> = b))
  <2>1. CASE z = r
    BY <1>2, <2>1
  <2>2. CASE z # r
    <3>1. at'[z] = at[z] /\ pc'[z] = pc[z] /\ at[z].row \in Rows
      BY <2>2 DEF OthersWait, WritesFit, WritesTyped, Place
    <3>2. CASE Intact(z)
      <4>1. Open(FileOf(r)) /\ Before(FileOf(r)) = <<<<z, at[z].row, 1>>>>
        BY <1>2, <2>2, <3>2, OneIsSpoilt
      <4>2. head = <<z, at[z].row, 1>>
        BY <4>1
      <4>3. intrudes
        BY <2>2, <4>1
      <4> HIDE DEF head
      <4> QED
        BY <3>1, <4>2, <4>3
    <3>3. CASE ~Intact(z)
      BY <1>2, <3>1, <3>3 DEF Lost
    <3> QED
      BY <3>2, <3>3
  <2> QED
    BY <2>1, <2>2
<1> HIDE DEF a, b
<1>3. ASSUME NEW x \in Lost'
      PROVE  x \in Lost \/ (intrudes /\ (x = a \/ x = b))
  <2>1. PICK z \in Runs, j \in Rows : x = <<z, j>> /\ x[1] = z /\ x[2] = j
    BY DEF Lost
  <2>2. CASE Passed(z, j, "file")' /\ Copies(z, j)' = {}
    BY <1>1, <2>1, <2>2
  <2>3. CASE pc'[z] = "write" /\ at'[z].half = 2 /\ at'[z].row = j /\ ~Intact(z)'
    BY <1>2, <2>1, <2>3
  <2> QED
    BY <2>1, <2>2, <2>3 DEF Lost
<1>4. PICK u, v : u = a /\ v = b
  OBVIOUS
<1>5. LosesOnly(u, v, intrudes)
  BY <1>3, <1>4 DEF LosesOnly
<1> QED
  BY <1>5, LossIsServed

\* The line that text has gone to holds at most the row of the text.
LEMMA BatchIsServed ==
    ASSUME FilesFit, WritesFit, FilesAreServed, NEW r \in Runs, AppendBatch(r)
    PROVE  FilesAreServed'
<1>1. PICK f \in Files : f = FileOf(r)
  BY DeploymentFits DEF FilesFit
<1>2. PICK n \in Nat \ {0} : n = Target(f)
  BY <1>1, BatchesGoToTheEnd
<1> DEFINE new == file'[f]
<1>3. /\ file' = [file EXCEPT ![f] = new] /\ FileFits(new) /\ Grows(file[f], new)
      /\ Len(new) = n + Cardinality(Rows) - 1
      /\ new[n] = [parts |-> Append(Before(f), <<r, 1, 2>>), ended |-> TRUE] /\ new[n] \in Line
      /\ \A i \in Rows : i # 1 => new[n + i - 1] = [parts |-> <<<<r, i, 2>>>>, ended |-> TRUE]
      /\ \A l \in 1 .. Len(new) : \/ l \in 1 .. Len(file[f]) /\ l < n /\ new[l] = file[f][l]
                                  \/ l = n
                                  \/ \E i \in Rows : i # 1 /\ l = n + i - 1
  BY <1>1, <1>2, BatchesGoToTheEnd
<1>4. scene' = scene /\ r \notin Bulky /\ Writing(r, "file") /\ pc[r] = "write"
  BY DEF AppendBatch, Writing
<1>5. FilesFit' /\ RowsStay /\ \A g \in Files \ {f} : file'[g] = file[g]
  BY <1>3, <1>4, FileIsExtended
<1>6. Advances(r, "file", Rows) /\ spoilt' = spoilt + (IF Open(f) THEN 1 ELSE 0) /\ WritesFit' /\ OthersWait(r)
  BY <1>1, BatchStep DEF Advances
<1>7. Files' = Files /\ FileOf(r)' = FileOf(r) /\ Bulky' = Bulky /\ store' = store
  BY <1>4 DEF Files, FileOf, Bulky, store
<1>8. "file" \in Kinds /\ Rows \subseteq Rows
  BY DEF Kinds
<1>9. MoreChances(r, "file", Rows) /\ PassesOnly(r, "file", Rows)
  BY <1>6, <1>8, AdvancesGivesAChance
<1>10. new \in Seq(Line) /\ \A p : RowAt(p)' = RowOf(file'[p[1]][p[2]])
  BY <1>3, <1>7 DEF FileFits, RowAt, RowOf
<1>11. \A i \in Rows, l \in 1 .. Len(new) : Last(new[l].parts) = <<r, i, 2>> /\ RowOf(new[l]) # None => RowOf(new[l]) = <<r, i>>
  <2> SUFFICES ASSUME NEW i \in Rows, NEW l \in 1 .. Len(new), Last(new[l].parts) = <<r, i, 2>>, RowOf(new[l]) # None
               PROVE  RowOf(new[l]) = <<r, i>>
    OBVIOUS
  <2>1. PICK line \in Line : line = new[l]
    BY <1>10
  <2>2. PICK z \in Runs, j \in Rows : RowOf(line) = <<z, j>> /\ Last(line.parts) = <<z, j, 2>>
    BY <2>1, DecodedLines DEF FilesFit
  <2>3. <<z, j, 2>> = <<r, i, 2>>
    BY <2>1, <2>2
  <2> QED
    BY <2>1, <2>2, <2>3
<1>12. \A i \in Rows : i # 1 => Last(new[n + i - 1].parts) = <<r, i, 2>> /\ new[n + i - 1].parts = <<<<r, i, 2>>>>
  <2> SUFFICES ASSUME NEW i \in Rows, i # 1
               PROVE  Last(new[n + i - 1].parts) = <<r, i, 2>> /\ new[n + i - 1].parts = <<<<r, i, 2>>>>
    OBVIOUS
  <2>1. new[n + i - 1] = [parts |-> <<<<r, i, 2>>>>, ended |-> TRUE]
    BY <1>3
  <2> QED
    BY <2>1 DEF Last
<1>13. Before(f) \in Seq(Part) /\ Last(new[n].parts) = <<r, 1, 2>>
  <2>1. PICK part \in Part : part = <<r, 1, 2>> /\ (TRUE <=> part[3] = 2)
    <3>1. <<r, 1, 2>> \in Part
      BY RowsAreNumbers DEF Part
    <3> QED
      BY <3>1
  <2>2. Before(f) \in Seq(Part)
    <3>1. GoesToTheEnd(f, part, TRUE)
      BY <2>1, AppendsGoToTheEnd
    <3> QED
      BY <3>1 DEF GoesToTheEnd
  <2>3. new[n].parts = Append(Before(f), part)
    BY <1>3, <2>1
  <2> QED
    BY <2>1, <2>2, <2>3 DEF Last
<1> DEFINE place == [i \in Rows |-> <<f, n + i - 1>>]
<1>14. \A l \in 1 .. Len(new) : (l \in 1 .. Len(file[f]) /\ new[l] = file[f][l]) \/ \E i \in Rows : l = n + i - 1 /\ Last(new[l].parts) = <<r, i, 2>>
  <2> SUFFICES ASSUME NEW l \in 1 .. Len(new), ~(l \in 1 .. Len(file[f]) /\ new[l] = file[f][l])
               PROVE  \E i \in Rows : l = n + i - 1 /\ Last(new[l].parts) = <<r, i, 2>>
    OBVIOUS
  <2>1. l = n \/ \E i \in Rows : i # 1 /\ l = n + i - 1
    BY <1>3
  <2>2. CASE l = n
    <3>1. 1 \in Rows /\ l = n + 1 - 1
      BY <1>2, <2>2, RowsAreNumbers
    <3> QED
      BY <1>13, <2>2, <3>1
  <2>3. CASE \E i \in Rows : i # 1 /\ l = n + i - 1
    BY <1>12, <2>3
  <2> QED
    BY <2>1, <2>2, <2>3
<1>15. ASSUME NEW p \in Positions', RowAt(p)' # None
       PROVE  (p \in Positions /\ RowAt(p) = RowAt(p)') \/ \E i \in Rows : p = place[i] /\ RowAt(p)' = <<r, i>>
  <2>1. PICK g, l : g \in Files /\ l \in 1 .. Len(file'[g]) /\ p = <<g, l>> /\ p[1] = g /\ p[2] = l
    BY <1>7 DEF Positions
  <2>2. RowAt(p)' = RowOf(file'[g][l])
    BY <1>10, <2>1
  <2>3. CASE l \in 1 .. Len(file[g]) /\ file'[g][l] = file[g][l]
    <3>1. p \in Positions /\ RowAt(p) = RowOf(file[g][l])
      BY <2>1, <2>3, PlacesOfLines DEF RowAt
    <3> QED
      BY <2>2, <2>3, <3>1
  <2>4. CASE ~(l \in 1 .. Len(file[g]) /\ file'[g][l] = file[g][l])
    <3>1. g = f
      BY <1>5, <2>1, <2>4
    <3>2. PICK i \in Rows : l = n + i - 1 /\ Last(new[l].parts) = <<r, i, 2>>
      BY <1>14, <2>1, <2>4, <3>1
    <3>3. RowAt(p)' = <<r, i>>
      BY <1>11, <1>15, <2>1, <2>2, <3>1, <3>2
    <3>4. p = place[i]
      BY <2>1, <3>1, <3>2
    <3> QED
      BY <3>3, <3>4
  <2> QED
    BY <2>3, <2>4
<1>16. \A z \in Runs, i \in Rows : IsFiniteSet(Copies(z, i)') /\ Cardinality(Copies(z, i)') <= Chances(z, i, "file")'
  <2>1. PICK q : q = [i \in Rows |-> <<f, n + i - 1>>]
    OBVIOUS
  <2>2. \A p \in Positions' : RowAt(p)' # None => (p \in Positions /\ RowAt(p) = RowAt(p)') \/ \E i \in Rows : p = q[i] /\ RowAt(p)' = <<r, i>>
    BY <1>15, <2>1
  <2> QED
    BY <1>8, <1>9, <2>2, CopiesAreServed
<1>17. ASSUME NEW i \in Rows, i # 1 \/ ~Open(f)
       PROVE  Copies(r, i)' # {}
  <2>1. n + i - 1 \in 1 .. Len(new) /\ new[n + i - 1].parts = <<<<r, i, 2>>>>
    <3>1. CASE i # 1
      <4>1. n + i - 1 \in 1 .. Len(new)
        <5>1. PICK k \in Nat : k = Cardinality(Rows) /\ Rows = 1 .. k
          BY RowsAreNumbers
        <5>2. i \in 1 .. k /\ Len(new) = n + k - 1
          BY <1>3, <5>1
        <5>3. n + i - 1 \in 1 .. n + k - 1
          BY <1>2, <5>1, <5>2
        <5> QED
          BY <5>2, <5>3
      <4> QED
        BY <1>12, <3>1, <4>1
    <3>2. CASE i = 1
      <4>1. Before(f) = <<>> /\ n + i - 1 = n
        BY <1>17, <3>2 DEF Before
      <4>2. new[n].parts = <<<<r, i, 2>>>>
        BY <1>3, <3>2, <4>1
      <4>3. n \in 1 .. Len(new)
        <5>1. PICK k \in Nat \ {0} : k = Cardinality(Rows)
          BY RowsAreNumbers
        <5>2. Len(new) = n + k - 1
          BY <1>3, <5>1
        <5> QED
          BY <5>1, <5>2
      <4> QED
        BY <4>1, <4>2, <4>3
    <3> QED
      BY <3>1, <3>2
  <2>2. PICK l \in 1 .. Len(new) : l = n + i - 1
    BY <2>1
  <2>3. PICK line \in Line : line = new[l] /\ line.parts = <<<<r, i, 2>>>>
    BY <1>10, <2>1, <2>2
  <2>4. RowOf(line) = <<r, i>>
    BY <1>4, <2>3, DecodedLines DEF FilesFit
  <2> DEFINE p == <<f, l>>
  <2>5. p[1] = f /\ p[2] = l
    OBVIOUS
  <2>6. RowAt(p)' = <<r, i>>
    BY <1>10, <2>3, <2>4, <2>5
  <2>7. p \in Positions'
    BY <1>7, <2>5 DEF Positions
  <2> QED
    BY <2>6, <2>7 DEF Copies
<1>18. ASSUME store = "jsonl"
       PROVE  Cardinality(Lost') <= 2 * spoilt'
  <2>1. PICK intrudes \in BOOLEAN : intrudes = Open(f)
    BY DEF Open
  <2>2. spoilt' = spoilt + (IF intrudes THEN 1 ELSE 0)
    BY <1>6, <2>1
  <2>3. PICK one \in Rows : one = 1
    BY RowsAreNumbers
  <2>4. \A j \in Rows : Passed(r, j, "file")' /\ Copies(r, j)' = {} => <<r, j>> \in Lost \/ (intrudes /\ j = one)
    BY <1>17, <2>1, <2>3
  <2>5. \A z \in Runs \ {r} : Open(FileOf(r)) /\ Before(FileOf(r)) = <<<<z, at[z].row, 1>>>> => intrudes
    BY <1>1, <2>1
  <2>6. pc'[r] = "write" /\ at'[r].half = 2 => Intact(r)' \/ (intrudes /\ at'[r].row = one)
    BY <1>6 DEF Advances
  <2>7. \A g \in Files \ {FileOf(r)} : file'[g] = file[g]
    BY <1>1, <1>5
  <2> QED
    BY <1>4, <1>5, <1>6, <1>18, <2>2, <2>4, <2>5, <2>6, <2>7, AppendLoses
<1> QED
  BY <1>7, <1>16, <1>18 DEF FilesAreServed

LEMMA TwoPieces ==
    ASSUME NEW a, NEW b
    PROVE  Append(<<a>>, b) = <<a, b>>
<1> DEFINE s == <<a>>
<1> DEFINE t == Append(s, b)
<1> DEFINE u == <<a, b>>
<1> DEFINE S == {a, b}
<1>1. s \in Seq(S) /\ Len(s) = 1 /\ s[1] = a /\ b \in S
  OBVIOUS
<1>2. u \in Seq(S) /\ Len(u) = 2 /\ u[1] = a /\ u[2] = b
  OBVIOUS
<1> HIDE DEF s, u, S
<1>3. t \in Seq(S) /\ Len(t) = 2 /\ t[1] = a /\ t[2] = b
  <2>1. PICK q \in Seq(S) : q = s
    BY <1>1
  <2>2. PICK e \in S : e = b
    BY <1>1
  <2>3. Append(q, e) \in Seq(S) /\ Len(Append(q, e)) = Len(q) + 1
    OBVIOUS
  <2>4. Append(q, e)[Len(q) + 1] = e
    OBVIOUS
  <2>5. \A l \in 1 .. Len(q) : Append(q, e)[l] = q[l]
    OBVIOUS
  <2>6. Len(q) = 1 /\ 1 \in 1 .. Len(q) /\ q[1] = a
    BY <1>1, <2>1
  <2>7. Append(q, e)[1] = a /\ Append(q, e)[2] = b
    BY <2>2, <2>4, <2>5, <2>6
  <2>8. t = Append(q, e)
    BY <2>1, <2>2
  <2> QED
    BY <2>3, <2>6, <2>7, <2>8
<1> HIDE DEF t
<1>4. DOMAIN t = 1 .. 2 /\ DOMAIN u = 1 .. 2
  BY <1>2, <1>3
<1>5. \A i \in 1 .. 2 : t[i] = u[i]
  <2>1. \A i \in 1 .. 2 : i = 1 \/ i = 2
    OBVIOUS
  <2> QED
    BY <1>2, <1>3, <2>1
<1>6. t = [i \in 1 .. 2 |-> t[i]] /\ u = [i \in 1 .. 2 |-> u[i]]
  BY <1>2, <1>3, <1>4
<1>7. t = u
  BY <1>5, <1>6
<1> QED
  BY <1>7 DEF s, t, u

LEMMA PieceIsServed ==
    ASSUME FilesFit, WritesFit, FilesAreServed, NEW r \in Runs, AppendPiece(r)
    PROVE  FilesAreServed'
<1>1. PICK f \in Files : f = FileOf(r)
  BY DeploymentFits DEF FilesFit
<1>2. PICK n \in Nat \ {0} : n = Target(f)
  BY <1>1, PiecesGoToTheEnd
<1>3. PICK row \in Rows, half \in 1 .. 2 : row = at[r].row /\ half = at[r].half
  BY PieceStep
<1> DEFINE new == file'[f]
<1>4. /\ file' = [file EXCEPT ![f] = new] /\ FileFits(new) /\ Grows(file[f], new)
      /\ Len(new) = n
      /\ new[n] = [parts |-> Append(Before(f), <<r, row, half>>), ended |-> half = 2] /\ new[n] \in Line
      /\ \A l \in 1 .. n : l # n => l \in 1 .. Len(file[f]) /\ new[l] = file[f][l]
  BY <1>1, <1>2, <1>3, PiecesGoToTheEnd
<1>5. scene' = scene /\ r \in Bulky /\ pc[r] = "write" /\ store = "jsonl"
  BY DEF AppendPiece, Writing, WritesFit, RunFits
<1>6. FilesFit' /\ RowsStay /\ \A g \in Files \ {f} : file'[g] = file[g]
  BY <1>4, <1>5, FileIsExtended
<1>7. Files' = Files /\ FileOf(r)' = FileOf(r) /\ Bulky' = Bulky /\ store' = store
  BY <1>5 DEF Files, FileOf, Bulky, store
<1>8. "file" \in Kinds /\ (half = 1 \/ half = 2)
  BY DEF Kinds
<1>9. new \in Seq(Line) /\ \A p : RowAt(p)' = RowOf(file'[p[1]][p[2]])
  BY <1>4, <1>7 DEF FileFits, RowAt, RowOf
<1>10. Before(f) \in Seq(Part) /\ Last(new[n].parts) = <<r, row, half>> /\ new[n].parts = Append(Before(f), <<r, row, half>>)
  <2>1. PICK part \in Part, ended \in BOOLEAN : part = <<r, row, half>> /\ (ended <=> part[3] = 2)
    <3>1. <<r, row, half>> \in Part
      BY DEF Part
    <3> QED
      BY <3>1
  <2>2. Before(f) \in Seq(Part)
    <3>1. GoesToTheEnd(f, part, ended)
      BY <2>1, AppendsGoToTheEnd
    <3> QED
      BY <3>1 DEF GoesToTheEnd
  <2>3. new[n].parts = Append(Before(f), part)
    BY <1>4, <2>1
  <2> QED
    BY <2>1, <2>2, <2>3 DEF Last
<1>11. RowOf(new[n]) # None => half = 2 /\ RowOf(new[n]) = <<r, row>>
  <2> SUFFICES ASSUME RowOf(new[n]) # None
               PROVE  half = 2 /\ RowOf(new[n]) = <<r, row>>
    OBVIOUS
  <2>1. PICK line \in Line : line = new[n]
    BY <1>4
  <2>2. PICK z \in Runs, j \in Rows : RowOf(line) = <<z, j>> /\ Last(line.parts) = <<z, j, 2>>
    BY <2>1, DecodedLines DEF FilesFit
  <2>3. <<z, j, 2>> = <<r, row, half>>
    BY <1>10, <2>1, <2>2
  <2> QED
    BY <2>1, <2>2, <2>3
<1>12. PICK G \in SUBSET Rows : G = IF half = 2 THEN {row} ELSE {}
  OBVIOUS
<1>13. PICK place : place = [i \in Rows |-> <<f, n>>]
  OBVIOUS
<1>14. ASSUME NEW p \in Positions', RowAt(p)' # None
       PROVE  (p \in Positions /\ RowAt(p) = RowAt(p)') \/ \E i \in G : p = place[i] /\ RowAt(p)' = <<r, i>>
  <2>1. PICK g, l : g \in Files /\ l \in 1 .. Len(file'[g]) /\ p = <<g, l>> /\ p[1] = g /\ p[2] = l
    BY <1>7 DEF Positions
  <2>2. RowAt(p)' = RowOf(file'[g][l])
    BY <1>9, <2>1
  <2>3. CASE l \in 1 .. Len(file[g]) /\ file'[g][l] = file[g][l]
    <3>1. p \in Positions /\ RowAt(p) = RowOf(file[g][l])
      BY <2>1, <2>3, PlacesOfLines DEF RowAt
    <3> QED
      BY <2>2, <2>3, <3>1
  <2>4. CASE ~(l \in 1 .. Len(file[g]) /\ file'[g][l] = file[g][l])
    <3>1. g = f /\ l = n
      BY <1>4, <1>6, <2>1, <2>4
    <3>2. half = 2 /\ RowAt(p)' = <<r, row>>
      BY <1>11, <1>14, <2>2, <3>1
    <3>3. row \in G /\ p = place[row]
      BY <1>12, <1>13, <2>1, <3>1, <3>2
    <3> QED
      BY <3>2, <3>3
  <2> QED
    BY <2>3, <2>4
<1>15. spoilt' = spoilt + (IF Intrudes(r) THEN 1 ELSE 0) /\ WritesFit' /\ OthersWait(r)
  BY <1>3, <1>8, PieceStep DEF Rests, Advances
<1>16. MoreChances(r, "file", G) /\ PassesOnly(r, "file", G)
  <2>1. CASE half = 1
    <3>1. Rests(r) /\ (pc'[r] \in {"idle", "write"} => pc[r] \in {"idle", "write"})
      BY <1>3, <2>1, PieceStep
    <3>2. Keeps(r, "file")
      BY <1>8, <3>1, RestsKeepsChances
    <3> QED
      BY <1>12, <2>1, <3>2 DEF Keeps
  <2>2. CASE half = 2
    <3>1. Advances(r, "file", {at[r].row})
      BY <1>3, <2>2, PieceStep
    <3>2. Advances(r, "file", G)
      BY <1>3, <1>12, <2>2, <3>1
    <3> QED
      BY <1>8, <3>2, AdvancesGivesAChance
  <2> QED
    BY <1>8, <2>1, <2>2
<1>17. \A z \in Runs, i \in Rows : IsFiniteSet(Copies(z, i)') /\ Cardinality(Copies(z, i)') <= Chances(z, i, "file")'
  <2>1. \A p \in Positions' : RowAt(p)' # None => (p \in Positions /\ RowAt(p) = RowAt(p)') \/ \E i \in G : p = place[i] /\ RowAt(p)' = <<r, i>>
    BY <1>14
  <2>2. G \subseteq Rows
    OBVIOUS
  <2> QED
    BY <1>16, <2>1, <2>2, CopiesAreServed
<1>18. ASSUME half = 2, Intact(r)
       PROVE  Copies(r, row)' # {}
  <2>1. Before(f) = <<<<r, row, 1>>>>
    BY <1>1, <1>3, <1>18 DEF Intact
  <2>2. PICK line \in Line : line = new[n] /\ line.parts = <<<<r, row, 1>>, <<r, row, 2>>>>
    <3>1. new[n].parts = Append(<<<<r, row, 1>>>>, <<r, row, 2>>)
      BY <1>10, <1>18, <2>1
    <3>2. new[n].parts = <<<<r, row, 1>>, <<r, row, 2>>>>
      BY <3>1, TwoPieces
    <3>3. new[n] \in Line
      BY <1>4
    <3> QED
      BY <3>2, <3>3
  <2>3. RowOf(line) = <<r, row>>
    BY <1>5, <2>2, DecodedLines DEF FilesFit
  <2> DEFINE p == <<f, n>>
  <2>4. p[1] = f /\ p[2] = n
    OBVIOUS
  <2>5. RowAt(p)' = <<r, row>>
    BY <1>9, <2>2, <2>3, <2>4
  <2>6. n \in 1 .. Len(new)
    BY <1>2, <1>4
  <2>7. p \in Positions'
    BY <1>7, <2>6 DEF Positions
  <2> QED
    BY <2>5, <2>7 DEF Copies
<1>19. Intrudes(r) <=> Open(f) /\ (half = 1 \/ Last(Before(f)) # <<r, row, 1>>)
  BY <1>1, <1>3 DEF Intrudes, Before
<1>20. Cardinality(Lost') <= 2 * spoilt'
  <2>1. PICK intrudes \in BOOLEAN : intrudes <=> Intrudes(r)
    BY <1>19 DEF Open
  <2>2. spoilt' = spoilt + (IF intrudes THEN 1 ELSE 0)
    BY <1>15, <2>1
  <2>3. \A j \in Rows : Passed(r, j, "file")' /\ Copies(r, j)' = {} => <<r, j>> \in Lost \/ (intrudes /\ j = row)
    <3> SUFFICES ASSUME NEW j \in Rows, Passed(r, j, "file")', Copies(r, j)' = {}
                 PROVE  <<r, j>> \in Lost
      OBVIOUS
    <3>1. Copies(r, j) = {}
      <4>1. <<r, j>> # None
        BY AuditTrailAssumption
      <4>2. \A p \in Copies(r, j) : p \in Copies(r, j)'
        BY <1>6, <4>1 DEF Copies, RowsStay
      <4> QED
        BY <4>2
    <3>2. Passed(r, j, "file") \/ j \in G
      BY <1>16 DEF PassesOnly
    <3>3. CASE Passed(r, j, "file")
      BY <3>1, <3>3 DEF Lost
    <3>4. CASE j \in G
      <4>1. half = 2 /\ j = row
        BY <1>12, <3>4
      <4>2. ~Intact(r)
        BY <1>18, <4>1
      <4> QED
        BY <1>3, <1>5, <4>1, <4>2 DEF Lost
    <3> QED
      BY <3>2, <3>3, <3>4
  <2>4. \A z \in Runs \ {r} : Open(FileOf(r)) /\ Before(FileOf(r)) = <<<<z, at[z].row, 1>>>> => intrudes
    <3> SUFFICES ASSUME NEW z \in Runs \ {r}, Open(FileOf(r)), Before(FileOf(r)) = <<<<z, at[z].row, 1>>>>
                 PROVE  intrudes
      OBVIOUS
    <3>1. Last(Before(f)) = <<z, at[z].row, 1>>
      <4> DEFINE e == <<z, at[z].row, 1>>
      <4>1. Before(f) = <<e>>
        BY <1>1
      <4> HIDE DEF e
      <4>2. Last(Before(f)) = e
        BY <4>1 DEF Last
      <4> QED
        BY <4>2 DEF e
    <3>2. Last(Before(f)) # <<r, row, 1>>
      BY <3>1
    <3> QED
      BY <1>1, <1>19, <2>1, <3>2
  <2>5. pc'[r] = "write" /\ at'[r].half = 2 => Intact(r)' \/ (intrudes /\ at'[r].row = row)
    <3> SUFFICES ASSUME pc'[r] = "write", at'[r].half = 2, ~intrudes
                 PROVE  Intact(r)'
      <4>1. half = 1 => at'[r].row = row
        BY <1>3, PieceStep
      <4>2. half = 2 /\ pc'[r] = "write" => at'[r].half = 1
        BY <1>3, PieceStep DEF Advances
      <4> QED
        BY <1>8, <4>1, <4>2
    <3>1. half = 1
      <4>1. half = 2 /\ pc'[r] = "write" => at'[r].half = 1
        BY <1>3, PieceStep DEF Advances
      <4> QED
        BY <1>8, <4>1
    <3>2. at'[r].row = row
      BY <1>3, <3>1, PieceStep
    <3>3. ~Open(f) /\ Before(f) = <<>>
      BY <1>19, <2>1, <3>1 DEF Before
    <3>4. new[n].parts = <<<<r, row, 1>>>> /\ ~new[n].ended
      BY <1>4, <3>1, <3>3
    <3>5. new # <<>> /\ Last(new) = new[n]
      BY <1>2, <1>4, <1>9 DEF Last
    <3>6. Open(f)' /\ Before(f)' = <<<<r, row, 1>>>>
      BY <3>4, <3>5 DEF Open, Before
    <3>7. FileOf(r)' = f
      BY <1>1, <1>7
    <3> QED
      BY <3>2, <3>6, <3>7 DEF Intact
  <2>6. \A g \in Files \ {FileOf(r)} : file'[g] = file[g]
    BY <1>1, <1>6
  <2> QED
    BY <1>5, <1>6, <1>15, <2>2, <2>3, <2>4, <2>5, <2>6, AppendLoses
<1> QED
  BY <1>7, <1>17, <1>20 DEF FilesAreServed

----------------------------------------------------------------------------
(* What is served stays served *)

LEMMA StepKeepsFilesServed ==
    ASSUME FilesFit, WritesFit, FilesAreServed, [Next]_vars
    PROVE  FilesAreServed'
<1>1. ASSUME UNCHANGED <<scene, file, pc, at, spoilt>>
      PROVE  FilesAreServed'
  <2>1. Files' = Files /\ Positions' = Positions /\ store' = store /\ \A p : RowAt(p)' = RowAt(p)
    BY <1>1 DEF Files, FileOf, Positions, store, RowAt, RowOf, Bulky
  <2>2. \A z, i : Copies(z, i)' = Copies(z, i)
    BY <2>1 DEF Copies
  <2>3. \A z, i, k : Passed(z, i, k)' = Passed(z, i, k)
    BY <1>1 DEF Passed, Sinks
  <2>4. \A z, i, k : Chances(z, i, k)' = Chances(z, i, k)
    BY <1>1, <2>3 DEF Chances
  <2>5. \A z : Intact(z)' = Intact(z)
    BY <1>1 DEF Intact, FileOf, Open, Before
  <2>6. Lost' = Lost
    BY <1>1, <2>2, <2>3, <2>5 DEF Lost
  <2> QED
    BY <1>1, <2>1, <2>2, <2>4, <2>6 DEF FilesAreServed
<1>2. ASSUME UNCHANGED vars \/ Tick \/ \E x \in Readers : StartReading(x) \/ ExportPage(x) \/ DetailPage(x)
      PROVE  FilesAreServed'
  <2>1. UNCHANGED <<scene, file, pc, at, spoilt>>
    BY <1>2 DEF vars, Tick, StartReading, ExportPage, DetailPage, sinks
  <2> QED
    BY <1>1, <2>1
<1>3. "file" \in Kinds /\ "object" \in Kinds /\ "siem" \in Kinds /\ "file" # "object" /\ "file" # "siem"
  BY DEF Kinds
<1>4. ASSUME NEW r \in Runs, BeginWrite(r) \/ Stamp(r) \/ Die(r)
      PROVE  FilesAreServed'
  <2>1. UNCHANGED <<file, spoilt>> /\ scene' = scene /\ at' = at /\ (pc'[r] = "write" => pc[r] = "idle")
    BY <1>4, BeginStep, StampStep, DieStep DEF BeginWrite, Stamp, Die, sinks
  <2>2. Rests(r) /\ (pc'[r] \in {"idle", "write"} => pc[r] \in {"idle", "write"})
    BY <1>4, BeginStep, StampStep, DieStep
  <2>3. Keeps(r, "file") /\ WritesFit' /\ OthersWait(r)
    BY <1>3, <2>2, RestsKeepsChances DEF Rests
  <2>4. pc'[r] = "write" => at'[r].half # 2
    BY <2>1 DEF WritesFit, RunFits, Begun
  <2> QED
    BY <2>1, <2>3, <2>4, FilesStayServed DEF Keeps
<1>5. ASSUME NEW r \in Runs, Persist(r)
      PROVE  FilesAreServed'
  <2>1. UNCHANGED <<file, spoilt>> /\ scene' = scene
    BY <1>5 DEF Persist, sinks
  <2>2. WritesFit' /\ OthersWait(r) /\ store = "db" /\ at' = at /\ pc[r] = "stamped" /\ pc'[r] = "acked"
    BY <1>5, PersistStep
  <2>3. ASSUME NEW z \in Runs, NEW i \in Rows, NEW k \in Kinds
        PROVE  Chances(z, i, k)' \in Int /\ Chances(z, i, k) \in Int /\ Chances(z, i, k) <= Chances(z, i, k)'
    <3>1. Chances(z, i, k) \in Int /\ at[z].attempt \in Nat
      BY ChancesAreNumbers
    <3>2. CASE z = r
      BY <2>2, <3>1, <3>2 DEF Chances
    <3>3. CASE z # r
      BY <2>2, <3>1, <3>3, OthersKeepTheirs
    <3> QED
      BY <3>2, <3>3
  <2>4. MoreChances(r, "file", {})
    BY <2>3 DEF MoreChances
  <2> QED
    BY <2>1, <2>2, <2>4, FilesStayServed
<1>6. ASSUME NEW r \in Runs, Retry(r)
      PROVE  FilesAreServed'
  <2>1. UNCHANGED <<file, spoilt>> /\ Restarts(r)
    BY <1>6, RetryStep DEF Retry
  <2>2. Keeps(r, "file") /\ WritesFit' /\ OthersWait(r) /\ scene' = scene /\ at'[r].half = 1
    BY <1>3, <2>1, RestartsGivesAChance DEF Restarts, OthersWait
  <2> QED
    BY <2>1, <2>2, FilesStayServed DEF Keeps
<1>7. ASSUME NEW r \in Runs, GiveUp(r)
      PROVE  FilesAreServed'
  <2>1. UNCHANGED <<file, spoilt>> /\ Rests(r) /\ pc'[r] \in {"marked", "raised"}
    BY <1>7, GiveUpStep DEF GiveUp
  <2>2. Keeps(r, "file") /\ WritesFit' /\ OthersWait(r) /\ scene' = scene
    BY <1>3, <2>1, RestsKeepsChances DEF Rests, OthersWait
  <2> QED
    BY <2>1, <2>2, FilesStayServed DEF Keeps
<1>8. ASSUME NEW r \in Runs, PutObject(r) \/ PostRow(r)
      PROVE  FilesAreServed'
  <2>1. UNCHANGED <<file, spoilt>> /\ \E k \in Kinds \ {"file"}, G \in SUBSET Rows : Advances(r, k, G)
    <3>1. CASE PutObject(r)
      <4>1. Advances(r, "object", {i \in Rows : i >= at[r].row}) /\ UNCHANGED <<file, spoilt>>
        BY <3>1, ObjectStep DEF PutObject
      <4> QED
        BY <1>3, <4>1
    <3>2. CASE PostRow(r)
      <4>1. Advances(r, "siem", {at[r].row}) /\ at[r].row \in Rows /\ UNCHANGED <<file, spoilt>>
        BY <3>2, PostStep DEF PostRow
      <4> QED
        BY <1>3, <4>1
    <3> QED
      BY <1>8, <3>1, <3>2
  <2>2. PICK k \in Kinds \ {"file"}, G \in SUBSET Rows : Advances(r, k, G)
    BY <2>1
  <2>3. Keeps(r, "file")
    BY <1>3, <2>2, AdvancesGivesAChance
  <2>4. WritesFit' /\ OthersWait(r) /\ scene' = scene /\ (pc'[r] = "write" => at'[r].half # 2)
    BY <2>2 DEF Advances, OthersWait
  <2> QED
    BY <2>1, <2>3, <2>4, FilesStayServed DEF Keeps
<1> QED
  BY <1>2, <1>4, <1>5, <1>6, <1>7, <1>8, BatchIsServed, PieceIsServed DEF Next, Step

LEMMA NothingIsDone ==
    ASSUME Init
    PROVE  Served
<1>1. /\ scene \in Scenes /\ now = 0
      /\ file = [f \in Files |-> <<>>] /\ object = [k \in Keys |-> None]
      /\ siem = [x \in Runs \X Rows |-> 0] /\ dlq = {}
      /\ pc = [r \in Runs |-> "idle"] /\ at = [r \in Runs |-> Begun]
      /\ stamped = [r \in Runs |-> None] /\ spoilt = 0
  BY DEF Init, Keys
<1>2. Begun \in Place /\ Begun.attempt = 1 /\ Begun.sink = 1 /\ Begun.row = 1
  <2>1. 1 \in 1 .. MaxRetries /\ 1 \in 1 .. Len(Sinks) /\ 1 \in Rows /\ 1 \in 1 .. 2
    BY <1>1, AuditTrailAssumption, DeploymentFits, RowsAreNumbers
  <2> QED
    BY <2>1 DEF Begun, Place
<1>3. WritesFit
  <2>1. WritesTyped
    BY <1>1, <1>2, AuditTrailAssumption DEF WritesTyped, Stages
  <2>2. \A r \in Runs : pc[r] = "idle" /\ at[r] = Begun /\ r \notin dlq
    BY <1>1
  <2>3. \A r \in Runs : RunFits(r)
    BY <2>2 DEF RunFits
  <2> QED
    BY <2>1, <2>3 DEF WritesFit
<1>4. FilesFit
  <2>1. \A f \in Files : file[f] = <<>> /\ <<>> \in Seq(Line) /\ FileFits(<<>>)
    BY <1>1 DEF FileFits
  <2> QED
    BY <1>1, <2>1 DEF FilesFit
<1>5. ASSUME NEW r \in Runs, NEW i \in Rows, NEW kind
      PROVE  ~Passed(r, i, kind) /\ Chances(r, i, kind) = 0
  <2>1. pc[r] = "idle" /\ at[r].attempt = 1 /\ at[r].sink = 1 /\ at[r].row = 1
    BY <1>1, <1>2
  <2>2. \A k \in 1 .. Len(Sinks) : k \in Int /\ ~(1 > k)
    BY <1>1, DeploymentFits
  <2>3. ~(1 > i)
    BY RowsAreNumbers
  <2>4. ~Passed(r, i, kind)
    BY <2>1, <2>2, <2>3 DEF Passed
  <2> QED
    BY <2>1, <2>4 DEF Chances
<1>6. SiemIsServed
  <2>1. \A r \in Runs, i \in Rows : siem[r, i] = 0
    BY <1>1
  <2>2. ASSUME NEW r \in Runs, NEW i \in Rows
        PROVE  siem[r, i] <= Chances(r, i, "siem") /\ ~Passed(r, i, "siem")
    <3>1. siem[r, i] = 0 /\ Chances(r, i, "siem") = 0 /\ ~Passed(r, i, "siem")
      BY <1>5, <2>1
    <3>2. 0 <= 0
      OBVIOUS
    <3> QED
      BY <3>1, <3>2, Zenon
  <2> QED
    BY <2>2 DEF SiemIsServed
<1>7. ObjectsAreThere
  BY <1>1, <1>5 DEF ObjectsAreThere
<1>8. Positions = {}
  BY <1>1 DEF Positions
<1>9. \A r, i : Copies(r, i) = {}
  BY <1>8 DEF Copies
<1>10. Lost = {}
  BY <1>1, <1>5 DEF Lost
<1>11. FilesAreServed
  <2>1. IsFiniteSet({}) /\ Cardinality({}) = 0
    BY FS_EmptySet
  <2>2. \A r \in Runs, i \in Rows : IsFiniteSet(Copies(r, i)) /\ Cardinality(Copies(r, i)) <= Chances(r, i, "file")
    BY <1>5, <1>9, <2>1
  <2>3. Cardinality(Lost) <= 2 * spoilt
    BY <1>1, <1>10, <2>1
  <2> QED
    BY <2>2, <2>3 DEF FilesAreServed
<1> QED
  BY <1>3, <1>4, <1>6, <1>7, <1>11 DEF Served

LEMMA StepKeepsServed ==
    ASSUME Served, [Next]_vars
    PROVE  Served'
<1>1. FilesFit' /\ WritesFit'
  BY StepKeepsFiles, StepKeepsWrites DEF Served
<1>2. SiemIsServed' /\ ObjectsAreThere'
  BY StepKeepsOthersServed DEF Served
<1>3. FilesAreServed'
  BY StepKeepsFilesServed DEF Served
<1> QED
  BY <1>1, <1>2, <1>3 DEF Served

LEMMA ServedIsAccountedFor ==
    ASSUME Served
    PROVE  RowsAreAccountedFor
<1>1. FilesFit /\ WritesFit /\ SiemIsServed /\ ObjectsAreThere /\ FilesAreServed /\ scene \in Scenes
  BY DEF Served, FilesFit
<1>2. \A r \in Runs, i \in Rows : \A k : Chances(r, i, k) \in Int /\ Chances(r, i, k) <= MaxRetries
  BY <1>1, ChancesAreNumbers
<1>3. MaxRetries \in Nat
  BY AuditTrailAssumption
<1>4. TypeOK
  <2>1. \A f \in Files : \A l \in DOMAIN file[f] :
            file[f][l].parts # <<>> /\ (l < Len(file[f]) => file[f][l].ended)
    <3>1. \A f \in Files : DOMAIN file[f] = 1 .. Len(file[f])
      BY <1>1 DEF FilesFit
    <3> QED
      BY <1>1, <3>1 DEF FilesFit, FileFits
  <2>2. siem \in [Runs \X Rows -> 0 .. MaxRetries]
    <3>1. ASSUME NEW x \in Runs \X Rows
          PROVE  siem[x] \in 0 .. MaxRetries
      <4>1. PICK r \in Runs, i \in Rows : x = <<r, i>>
        OBVIOUS
      <4>2. siem[r, i] <= Chances(r, i, "siem") /\ siem[x] \in Nat
        BY <1>1 DEF SiemIsServed, WritesFit, WritesTyped
      <4>3. PICK c \in Int : c = Chances(r, i, "siem") /\ c <= MaxRetries
        BY <1>2
      <4>4. PICK s \in Nat : s = siem[x]
        BY <4>2
      <4>5. s <= c
        BY <4>1, <4>2, <4>3, <4>4
      <4>6. s \in 0 .. MaxRetries
        BY <1>3, <4>3, <4>4, <4>5
      <4> QED
        BY <4>4, <4>6
    <3> QED
      BY <1>1, <3>1 DEF WritesFit, WritesTyped
  <2>3. /\ scene \in Scenes /\ now \in 0 .. MaxTime
        /\ object \in [Keys -> Runs \cup {None}] /\ dlq \subseteq Runs
        /\ stamped \in [Runs -> 0 .. MaxTime \cup {None}]
    BY <1>1 DEF WritesFit, WritesTyped
  <2>4. pc \in [Runs -> Stages] /\ at \in [Runs -> Place]
    BY <1>1 DEF WritesFit, WritesTyped
  <2> QED
    BY <2>1, <2>2, <2>3, <2>4 DEF TypeOK, Stages, Place, Keys
<1>5. ASSUME NEW r \in Runs, NEW kind \in Range(Sinks), pc[r] = "acked", NEW i \in Rows
      PROVE  Passed(r, i, kind)
  <2>1. PICK k \in 1 .. Len(Sinks) : Sinks[k] = kind
    BY <1>1, DeploymentFits DEF Range
  <2> QED
    BY <1>5, <2>1 DEF Passed
<1>6. IsFiniteSet(Lost)
  <2>1. IsFiniteSet(Runs \X Rows)
    BY AuditTrailAssumption, FS_Product
  <2>2. Lost \subseteq Runs \X Rows
    BY DEF Lost
  <2> QED
    BY <2>1, <2>2, FS_Subset
<1>7. AcknowledgedIsEverywhere
  <2> SUFFICES ASSUME NEW r \in Runs, pc[r] = "acked", store = "jsonl"
               PROVE  /\ "siem" \in Range(Sinks) => \A i \in Rows : siem[r, i] > 0
                      /\ "object" \in Range(Sinks) => \E z \in Runs : object[KeyOf(r)] = z /\ KeyOf(z) = KeyOf(r)
                      /\ "file" \in Range(Sinks) /\ spoilt = 0 => \A i \in Rows : Copies(r, i) # {}
    BY DEF AcknowledgedIsEverywhere
  <2>1. "siem" \in Range(Sinks) => \A i \in Rows : siem[r, i] > 0
    BY <1>1, <1>5 DEF SiemIsServed
  <2>2. ASSUME "object" \in Range(Sinks)
        PROVE  \E z \in Runs : object[KeyOf(r)] = z /\ KeyOf(z) = KeyOf(r)
    <3>1. object[KeyOf(r)] # None
      <4>1. 1 \in Rows
        BY RowsAreNumbers
      <4> QED
        BY <1>1, <1>5, <2>2, <4>1 DEF ObjectsAreThere
    <3>2. object \in [Keys -> Runs \cup {None}] /\ KeyOf(r) \in Keys
      BY <1>1 DEF WritesFit, WritesTyped, Keys
    <3>3. object[KeyOf(r)] \in Runs /\ KeyOf(r) \in DOMAIN object
      BY <3>1, <3>2
    <3>4. KeyOf(object[KeyOf(r)]) = KeyOf(r)
      BY <1>1, <3>1, <3>3 DEF ObjectsAreThere
    <3> QED
      BY <3>3, <3>4
  <2>3. ASSUME "file" \in Range(Sinks), spoilt = 0, NEW i \in Rows
        PROVE  Copies(r, i) # {}
    <3>1. Cardinality(Lost) \in Nat /\ Cardinality(Lost) <= 2 * spoilt
      BY <1>1, <1>6, FS_CardinalityType DEF FilesAreServed
    <3>2. Lost = {}
      BY <1>6, <2>3, <3>1, FS_EmptySet
    <3>3. <<r, i>> \notin Lost
      BY <3>2
    <3> QED
      BY <1>5, <2>3, <3>3 DEF Lost
  <2> QED
    BY <2>1, <2>2, <2>3
<1>8. LossAndCopiesAreBounded
  <2>1. ASSUME NEW r \in Runs, NEW i \in Rows
        PROVE  Cardinality(Copies(r, i)) <= MaxRetries
    <3>1. Cardinality(Copies(r, i)) \in Nat /\ Cardinality(Copies(r, i)) <= Chances(r, i, "file")
      BY <1>1, FS_CardinalityType DEF FilesAreServed
    <3>2. PICK c \in Int : c = Chances(r, i, "file") /\ c <= MaxRetries
      BY <1>2
    <3> QED
      BY <1>3, <3>1, <3>2
  <2>2. ASSUME store = "jsonl", "file" \in Range(Sinks)
        PROVE  Cardinality({x \in Runs \X Rows : pc[x[1]] = "acked" /\ Copies(x[1], x[2]) = {}}) <= 2 * spoilt
    <3> DEFINE gone == {x \in Runs \X Rows : pc[x[1]] = "acked" /\ Copies(x[1], x[2]) = {}}
    <3>1. gone \subseteq Lost
      BY <1>5, <2>2 DEF Lost
    <3> HIDE DEF gone
    <3>2. Cardinality(gone) <= Cardinality(Lost) /\ IsFiniteSet(gone)
      BY <1>6, <3>1, FS_Subset
    <3>3. Cardinality(Lost) \in Nat /\ Cardinality(Lost) <= 2 * spoilt /\ Cardinality(gone) \in Nat
      BY <1>1, <1>6, <2>2, <3>2, FS_CardinalityType DEF FilesAreServed
    <3>4. PICK n \in Nat : n = spoilt
      BY <1>1 DEF WritesFit, WritesTyped
    <3>5. Cardinality(gone) <= 2 * n
      BY <3>2, <3>3, <3>4
    <3> QED
      BY <3>4, <3>5 DEF gone
  <2> QED
    BY <2>1, <2>2 DEF LossAndCopiesAreBounded
<1>9. NothingIsGivenUpSilently
  BY <1>1 DEF NothingIsGivenUpSilently, WritesFit, RunFits
<1> QED
  BY <1>4, <1>7, <1>8, <1>9 DEF RowsAreAccountedFor

\* Every row of a run is where the result of its write says: what is acknowledged is
\* in every sink, what is lost was lost to text in an unended line, and what was
\* given up has left its mark.
THEOREM AccountedRows == Spec => []RowsAreAccountedFor
<1>1. Init => Served
  BY NothingIsDone
<1>2. Served /\ [Next]_vars => Served'
  BY StepKeepsServed
<1>3. Served => RowsAreAccountedFor
  BY ServedIsAccountedFor
<1> QED
  BY <1>1, <1>2, <1>3, PTL DEF Spec

----------------------------------------------------------------------------
(* What can be read, and in what order *)

TableFits ==
    /\ IsFiniteSet(table)
    /\ \A a \in table : a.run \in Runs /\ a.row \in Rows /\ a.ts \in Nat /\ a.id \in Nat
    /\ \A a, b \in table : a.id = b.id => a = b

Precedes(a, b) == IF store = "jsonl" THEN Earlier(a, b) ELSE Sorts(a, b)
Ahead(e, cursor) == IF store = "jsonl" THEN From(e, cursor) ELSE Beyond(e, cursor)
CursorFits(cursor) ==
    cursor = None \/ (IF store = "jsonl" THEN cursor \in Nat \X Nat ELSE \E a \in table : a.id = cursor)
Rest(x) == {e \in Due(x) : Ahead(e, reader[x].cursor)}

LEMMA PositionsAreFinite ==
    ASSUME FilesFit
    PROVE  IsFiniteSet(Positions) /\ \A p \in Positions : p[1] \in Nat /\ p[2] \in Nat /\ p[2] >= 1 /\ p \in Nat \X Nat
<1> DEFINE lines(f) == {<<f, l>> : l \in 1 .. Len(file[f])}
<1> DEFINE all == {lines(f) : f \in Files}
<1>1. IsFiniteSet(Files) /\ Files \subseteq Nat
  BY DeploymentFits DEF FilesFit
<1>2. \A f \in Files : Len(file[f]) \in Nat
  BY DEF FilesFit
<1>3. ASSUME NEW f \in Files
      PROVE  IsFiniteSet(lines(f))
  <2> DEFINE S == 1 .. Len(file[f])
  <2> DEFINE g == [l \in S |-> <<f, l>>]
  <2> DEFINE T == lines(f)
  <2>1. IsFiniteSet(S)
    BY <1>2, FS_Interval
  <2>2. (\A t \in T : \E s \in S : g[s] = t) /\ \A s \in S : g[s] \in T
    OBVIOUS
  <2> HIDE DEF S, g, T
  <2>3. IsFiniteSet(T)
    BY <2>1, <2>2, ImageIsFinite
  <2> QED
    BY <2>3 DEF T
<1>4. IsFiniteSet(all)
  <2> DEFINE g == [f \in Files |-> lines(f)]
  <2>1. (\A t \in all : \E s \in Files : g[s] = t) /\ \A s \in Files : g[s] \in all
    OBVIOUS
  <2> HIDE DEF g, all
  <2> QED
    BY <1>1, <2>1, ImageIsFinite
<1>5. \A T \in all : IsFiniteSet(T)
  BY <1>3
<1>6. Positions = UNION all
  BY DEF Positions
<1> HIDE DEF all
<1>7. IsFiniteSet(Positions)
  BY <1>4, <1>5, <1>6, FS_UNION
<1>8. ASSUME NEW p \in Positions
      PROVE  p[1] \in Nat /\ p[2] \in Nat /\ p[2] >= 1 /\ p \in Nat \X Nat
  <2>1. p[1] \in Files /\ p[2] \in 1 .. Len(file[p[1]]) /\ p = <<p[1], p[2]>>
    BY <1>8, PlacesOfLines
  <2>2. p[1] \in Nat /\ p[2] \in Nat /\ p[2] >= 1
    BY <1>1, <2>1
  <2> QED
    BY <2>1, <2>2
<1> QED
  BY <1>7, <1>8

LEMMA EarlierIsAnOrder ==
    ASSUME FilesFit, NEW S, S \subseteq Positions
    PROVE  Orders({e \in S \X S : Earlier(e[1], e[2])}, S)
<1> DEFINE before == {e \in S \X S : Earlier(e[1], e[2])}
<1>1. \A a, b \in S : <<a, b>> \in before <=> Earlier(a, b)
  OBVIOUS
<1>2. \A a \in S : a[1] \in Nat /\ a[2] \in Nat /\ a = <<a[1], a[2]>>
  BY PositionsAreFinite, PlacesOfLines
<1> HIDE DEF before
<1>3. \A a, b \in S : Earlier(a, b) \/ Earlier(b, a) \/ a = b
  BY <1>2 DEF Earlier
<1>4. \A a \in S : ~Earlier(a, a)
  BY <1>2 DEF Earlier
<1>5. ASSUME NEW a \in S, NEW b \in S, NEW c \in S, Earlier(a, b), Earlier(b, c)
      PROVE  Earlier(a, c)
  BY <1>2, <1>5 DEF Earlier
<1> QED
  BY <1>1, <1>3, <1>4, <1>5 DEF Orders, before

LEMMA SortsIsAnOrder ==
    ASSUME TableFits, NEW S, S \subseteq table
    PROVE  Orders({e \in S \X S : Sorts(e[1], e[2])}, S)
<1> DEFINE before == {e \in S \X S : Sorts(e[1], e[2])}
<1>1. \A a, b \in S : <<a, b>> \in before <=> Sorts(a, b)
  OBVIOUS
<1>2. \A a \in S : a.ts \in Nat /\ a.id \in Nat
  BY DEF TableFits
<1> HIDE DEF before
<1>3. \A a, b \in S : Sorts(a, b) \/ Sorts(b, a) \/ a = b
  BY <1>2 DEF Sorts, TableFits
<1>4. \A a \in S : ~Sorts(a, a)
  BY <1>2 DEF Sorts
<1>5. ASSUME NEW a \in S, NEW b \in S, NEW c \in S, Sorts(a, b), Sorts(b, c)
      PROVE  Sorts(a, c)
  BY <1>2, <1>5 DEF Sorts
<1> QED
  BY <1>1, <1>3, <1>4, <1>5 DEF Orders, before

\* The cursor is the place right after the page.
LEMMA CursorIsNext ==
    ASSUME FilesFit, NEW p \in Positions
    PROVE  /\ CursorAfter(p) = None => \A e \in Positions : ~Earlier(p, e)
           /\ CursorAfter(p) # None => /\ CursorAfter(p) \in Nat \X Nat
                                       /\ \A e \in Positions : Earlier(p, e) <=> ~Earlier(e, CursorAfter(p))
<1> DEFINE later == {f \in Files : f > p[1] /\ file[f] # <<>>}
<1>1. p[1] \in Files /\ p[2] \in 1 .. Len(file[p[1]]) /\ p[1] \in Nat /\ p[2] \in Nat
  BY PlacesOfLines, PositionsAreFinite
<1>2. Len(file[p[1]]) \in Nat /\ None \notin Nat \X Nat /\ Files \subseteq Nat /\ IsFiniteSet(Files)
  BY <1>1, AuditTrailAssumption, DeploymentFits DEF FilesFit
<1>3. \A e \in Positions : e[1] \in Files /\ e[2] \in 1 .. Len(file[e[1]]) /\ e[1] \in Nat /\ e[2] \in Nat /\ e[2] >= 1 /\ file[e[1]] # <<>>
  <2> SUFFICES ASSUME NEW e \in Positions
               PROVE  e[1] \in Files /\ e[2] \in 1 .. Len(file[e[1]]) /\ e[1] \in Nat /\ e[2] \in Nat /\ e[2] >= 1 /\ file[e[1]] # <<>>
    OBVIOUS
  <2>1. e[1] \in Files /\ e[2] \in 1 .. Len(file[e[1]]) /\ e[1] \in Nat /\ e[2] \in Nat /\ e[2] >= 1
    BY PlacesOfLines, PositionsAreFinite
  <2>2. file[e[1]] # <<>>
    BY <2>1 DEF FilesFit
  <2> QED
    BY <2>1, <2>2
<1>4. CASE p[2] < Len(file[p[1]])
  <2>1. CursorAfter(p) = <<p[1], p[2] + 1>>
    BY <1>4 DEF CursorAfter
  <2> DEFINE c == <<p[1], p[2] + 1>>
  <2>2. c \in Nat \X Nat /\ c[1] = p[1] /\ c[2] = p[2] + 1
    BY <1>1
  <2>3. c # None
    BY <1>2, <2>2
  <2> HIDE DEF c
  <2>4. \A e \in Positions : Earlier(p, e) <=> ~Earlier(e, c)
    BY <1>1, <1>3, <2>2 DEF Earlier
  <2> QED
    BY <2>1, <2>2, <2>3, <2>4 DEF c
<1>5. CASE ~(p[2] < Len(file[p[1]])) /\ later # {}
  <2>1. later \subseteq Files /\ later \subseteq Nat
    BY <1>2
  <2>2. IsFiniteSet(later)
    BY <1>2, <2>1, FS_Subset
  <2>3. Min(later) \in later /\ \A s \in later : Min(later) <= s
    BY <1>5, <2>1, <2>2, EndsOfNumbers
  <2>4. CursorAfter(p) = <<Min(later), 1>>
    BY <1>5 DEF CursorAfter
  <2>5. PICK m \in Nat : m = Min(later) /\ m > p[1] /\ \A s \in later : m <= s
    BY <2>1, <2>3
  <2> DEFINE c == <<m, 1>>
  <2>6. c \in Nat \X Nat /\ c[1] = m /\ c[2] = 1
    BY <2>5
  <2>7. c # None
    BY <1>2, <2>6
  <2> HIDE DEF c
  <2>8. ASSUME NEW e \in Positions
        PROVE  Earlier(p, e) <=> ~Earlier(e, c)
    <3>1. e[1] > p[1] => m <= e[1]
      BY <1>3, <2>5
    <3>2. e[1] = p[1] => ~(p[2] < e[2])
      BY <1>1, <1>2, <1>3, <1>5
    <3> HIDE DEF later
    <3> QED
      BY <1>1, <1>3, <2>5, <2>6, <3>1, <3>2 DEF Earlier
  <2> HIDE DEF later
  <2> QED
    BY <2>4, <2>5, <2>6, <2>7, <2>8 DEF c
<1>6. CASE ~(p[2] < Len(file[p[1]])) /\ later = {}
  <2>1. CursorAfter(p) = None
    BY <1>6 DEF CursorAfter
  <2>2. ASSUME NEW e \in Positions
        PROVE  ~Earlier(p, e)
    <3>1. ~(p[1] < e[1])
      BY <1>1, <1>3, <1>6
    <3>2. e[1] = p[1] => ~(p[2] < e[2])
      BY <1>1, <1>2, <1>3, <1>6
    <3> QED
      BY <3>1, <3>2 DEF Earlier
  <2> QED
    BY <2>1, <2>2
<1> QED
  BY <1>4, <1>5, <1>6

LEMMA FirstOnes ==
    ASSUME NEW S, NEW n \in Nat, NEW q \in [1 .. n -> S], NEW k \in 0 .. n
    PROVE  /\ Len(q) = n /\ SubSeq(q, 1, k) \in Seq(S) /\ Len(SubSeq(q, 1, k)) = k
           /\ \A i \in 1 .. k : SubSeq(q, 1, k)[i] = q[i]
<1>1. q \in Seq(S) /\ Len(q) = n /\ k \in Nat /\ k <= n
  OBVIOUS
<1>2. Len(SubSeq(q, 1, k)) = IF 1 <= k THEN k - 1 + 1 ELSE 0
  BY <1>1
<1>3. Len(SubSeq(q, 1, k)) = k
  BY <1>1, <1>2
<1>4. SubSeq(q, 1, k) \in Seq(S) /\ \A i \in 1 .. k : SubSeq(q, 1, k)[i] = q[i]
  BY <1>1
<1> QED
  BY <1>1, <1>3, <1>4

\* What a reader gets: the first rows of those that are ahead of its cursor, and
\* a cursor behind which is what it got, or none when that was all.
Begins(x, limit, page, cursor, before, sorted, n, m) ==
    /\ Orders(before, Rest(x)) /\ Lists(sorted, n, Rest(x), before)
    /\ page \in Seq(Rest(x)) /\ Len(page) = m /\ m <= limit /\ \A i \in 1 .. m : page[i] = sorted[i]
    /\ cursor = None => m = n
    /\ cursor # None =>
        /\ m >= 1
        /\ \A a, b \in Rest(x) : <<a, b>> \in before <=> Precedes(a, b)
        /\ \A e \in Due(x) : Ahead(e, cursor) <=> Precedes(page[m], e)
    /\ CursorFits(cursor)

Answers(x, limit, page, cursor) ==
    \E before, sorted : \E n \in Nat : \E m \in 0 .. n : Begins(x, limit, page, cursor, before, sorted, n, m)

LEMMA FilesAreAnswered ==
    ASSUME FilesFit, store = "jsonl", NEW x, NEW limit \in Nat \ {0}
    PROVE  Answers(x, limit, QueryFiles(x, limit).page, QueryFiles(x, limit).cursor)
<1> DEFINE rest == {p \in Matching(x) : From(p, reader[x].cursor)}
<1> DEFINE before == {e \in rest \X rest : Earlier(e[1], e[2])}
<1> DEFINE sorted == InOrder(rest, before)
<1> DEFINE n == Cardinality(rest)
<1> DEFINE m == IF Len(sorted) < limit THEN Len(sorted) ELSE limit
<1> DEFINE page == SubSeq(sorted, 1, m)
<1> DEFINE cursor == IF Len(page) < limit THEN None ELSE CursorAfter(Last(page))
<1>1. QueryFiles(x, limit).page = page /\ QueryFiles(x, limit).cursor = cursor
  BY DEF QueryFiles
<1>2. Rest(x) = rest /\ rest \subseteq Positions /\ Due(x) = Matching(x) /\ Due(x) \subseteq Positions
  BY DEF Rest, Due, Ahead, Matching
<1>3. IsFiniteSet(rest)
  BY <1>2, PositionsAreFinite, FS_Subset
<1>4. Orders(before, rest)
  BY <1>2, EarlierIsAnOrder
<1>5. n \in Nat /\ Lists(sorted, n, rest, before)
  BY <1>3, <1>4, InOrderIsExact
<1>6. \A a, b \in rest : <<a, b>> \in before <=> Precedes(a, b)
  BY DEF Precedes
<1> HIDE DEF rest, before, sorted, n
<1>7. sorted \in [1 .. n -> rest]
  BY <1>5 DEF Lists
<1>8. Len(sorted) = n
  <2>1. 0 \in 0 .. n
    BY <1>5
  <2> QED
    BY <1>5, <1>7, <2>1, FirstOnes
<1>9. m \in 0 .. n /\ m \in Nat /\ m <= limit /\ (m < limit => m = n) /\ (~(m < limit) => m >= 1)
  BY <1>5, <1>8
<1> HIDE DEF m
<1>10. page \in Seq(rest) /\ Len(page) = m /\ \A i \in 1 .. m : page[i] = sorted[i]
  BY <1>5, <1>7, <1>9, FirstOnes
<1> HIDE DEF page
<1>11. ASSUME ~(m < limit)
       PROVE  /\ Last(page) = page[m] /\ page[m] \in rest /\ m \in 1 .. n /\ page[m] = sorted[m]
              /\ \A t \in rest : <<sorted[m], t>> \in before \/ \E i \in 1 .. m : sorted[i] = t
  <2>1. m \in 1 .. m /\ m \in 1 .. n /\ m >= 1
    BY <1>5, <1>9, <1>11
  <2>2. Last(page) = page[m] /\ page[m] \in rest
    BY <1>10, <2>1 DEF Last
  <2>3. ASSUME NEW t \in rest
        PROVE  <<sorted[m], t>> \in before \/ \E i \in 1 .. m : sorted[i] = t
    <3>1. PICK i \in 1 .. n : sorted[i] = t
      BY <1>5 DEF Lists
    <3>2. i \in 1 .. m \/ m < i
      BY <1>5, <1>9
    <3> QED
      BY <1>5, <2>1, <3>1, <3>2 DEF Lists
  <2> QED
    BY <1>10, <2>1, <2>2, <2>3
<1>12. ASSUME cursor = None
       PROVE  m = n
  <2> SUFFICES ASSUME ~(m < limit), m < n
               PROVE  FALSE
    BY <1>5, <1>9
  <2>1. CursorAfter(page[m]) = None /\ page[m] \in Positions
    BY <1>2, <1>10, <1>11, <1>12
  <2>2. \A e \in Positions : ~Earlier(page[m], e)
    BY <2>1, CursorIsNext
  <2>3. m + 1 \in 1 .. n /\ m < m + 1
    BY <1>5, <1>9
  <2>4. <<page[m], sorted[m + 1]>> \in before /\ sorted[m + 1] \in rest
    BY <1>5, <1>7, <1>11, <2>3 DEF Lists
  <2>5. Earlier(page[m], sorted[m + 1])
    BY <1>6, <1>11, <2>4 DEF Precedes
  <2> QED
    BY <1>2, <2>2, <2>4, <2>5
<1>13. ASSUME cursor # None
       PROVE  m >= 1 /\ cursor \in Nat \X Nat /\ \A e \in Due(x) : Ahead(e, cursor) <=> Precedes(page[m], e)
  <2>1. ~(m < limit) /\ cursor = CursorAfter(page[m]) /\ page[m] \in Positions
    BY <1>2, <1>10, <1>11, <1>13
  <2>2. cursor \in Nat \X Nat /\ \A e \in Positions : Earlier(page[m], e) <=> ~Earlier(e, cursor)
    BY <1>13, <2>1, CursorIsNext
  <2> HIDE DEF cursor
  <2> QED
    BY <1>2, <1>9, <1>13, <2>1, <2>2 DEF Ahead, From, Precedes
<1> HIDE DEF cursor
<1>14. CursorFits(cursor)
  BY <1>13 DEF CursorFits
<1>15. Begins(x, limit, page, cursor, before, sorted, n, m)
  BY <1>2, <1>4, <1>5, <1>6, <1>9, <1>10, <1>12, <1>13, <1>14 DEF Begins
<1>16. Answers(x, limit, page, cursor)
  BY <1>5, <1>9, <1>15 DEF Answers
<1> QED
  BY <1>1, <1>16

LEMMA TableIsAnswered ==
    ASSUME TableFits, store = "db", NEW x, NEW limit \in Nat \ {0}
    PROVE  Answers(x, limit, QueryTable(x, limit).page, QueryTable(x, limit).cursor)
<1> DEFINE rest == {a \in Records(x) : Beyond(a, reader[x].cursor)}
<1> DEFINE before == {e \in rest \X rest : Sorts(e[1], e[2])}
<1> DEFINE sorted == InOrder(rest, before)
<1> DEFINE n == Cardinality(rest)
<1> DEFINE more == Len(sorted) > limit
<1> DEFINE m == IF more THEN limit ELSE n
<1> DEFINE page == IF more THEN SubSeq(sorted, 1, limit) ELSE sorted
<1> DEFINE cursor == IF more THEN Last(page).id ELSE None
<1>1. QueryTable(x, limit).page = page /\ QueryTable(x, limit).cursor = cursor
  BY DEF QueryTable
<1>2. Rest(x) = rest /\ rest \subseteq table /\ Due(x) = Records(x) /\ Due(x) \subseteq table
  BY DEF Rest, Due, Ahead, Records
<1>3. IsFiniteSet(rest)
  BY <1>2, FS_Subset DEF TableFits
<1>4. Orders(before, rest)
  BY <1>2, SortsIsAnOrder
<1>5. n \in Nat /\ Lists(sorted, n, rest, before)
  BY <1>3, <1>4, InOrderIsExact
<1>6. \A a, b \in rest : <<a, b>> \in before <=> Precedes(a, b)
  BY DEF Precedes
<1> HIDE DEF rest, before, sorted, n
<1>7. sorted \in [1 .. n -> rest]
  BY <1>5 DEF Lists
<1>8. Len(sorted) = n /\ sorted \in Seq(rest)
  <2>1. 0 \in 0 .. n
    BY <1>5
  <2> QED
    BY <1>5, <1>7, <2>1, FirstOnes
<1>9. m \in 0 .. n /\ m \in Nat /\ m <= limit /\ (~more => m = n) /\ (more => m = limit /\ m >= 1)
  BY <1>5, <1>8
<1> HIDE DEF m
<1>10. page \in Seq(rest) /\ Len(page) = m /\ \A i \in 1 .. m : page[i] = sorted[i]
  <2>1. CASE more
    <3>1. page = SubSeq(sorted, 1, m)
      BY <1>9, <2>1
    <3> QED
      BY <1>5, <1>7, <1>9, <3>1, FirstOnes
  <2>2. CASE ~more
    BY <1>8, <1>9, <2>2
  <2> QED
    BY <2>1, <2>2
<1> HIDE DEF page, more
<1>11. ASSUME more
       PROVE  Last(page) = page[m] /\ page[m] \in table
  <2>1. m \in 1 .. m /\ m >= 1
    BY <1>9, <1>11
  <2> QED
    BY <1>2, <1>10, <2>1 DEF Last
<1>12. cursor = None => m = n
  <2>1. more => cursor \in Nat /\ None \notin Nat
    BY <1>11, AuditTrailAssumption DEF TableFits
  <2> QED
    BY <1>9, <2>1
<1>13. ASSUME cursor # None
       PROVE  m >= 1 /\ (\A e \in Due(x) : Ahead(e, cursor) <=> Precedes(page[m], e)) /\ \E a \in table : a.id = cursor
  <2>1. more /\ cursor = page[m].id /\ page[m] \in table
    BY <1>11, <1>13
  <2>2. (CHOOSE b \in table : b.id = cursor) = page[m]
    BY <2>1 DEF TableFits
  <2> HIDE DEF cursor
  <2> QED
    BY <1>2, <1>9, <1>13, <2>1, <2>2 DEF Ahead, Beyond, Precedes
<1> HIDE DEF cursor
<1>14. CursorFits(cursor)
  BY <1>13 DEF CursorFits
<1>15. Begins(x, limit, page, cursor, before, sorted, n, m)
  BY <1>2, <1>4, <1>5, <1>6, <1>9, <1>10, <1>12, <1>13, <1>14 DEF Begins
<1>16. Answers(x, limit, page, cursor)
  BY <1>5, <1>9, <1>15 DEF Answers
<1> QED
  BY <1>1, <1>16

----------------------------------------------------------------------------
(* Where the readers are *)

Shown(x) == ToSet(reader[x].shown)

\* What was shown is behind the cursor, and what is owed was shown or is ahead of it.
ReaderFits(x) ==
    LET y == reader[x] IN
    /\ y.shown \in Seq(Due(x)) /\ IsInjective(y.shown) /\ y.due \subseteq Due(x)
    /\ y.scanned \in Nat /\ y.scanned <= MaxScan
    /\ CursorFits(y.cursor)
    /\ y.pc = "open" =>
        /\ \A e \in Shown(x) : ~Ahead(e, y.cursor)
        /\ \A e \in y.due : e \in Shown(x) \/ Ahead(e, y.cursor)
    /\ y.pc = "done" => y.due \subseteq Shown(x)
    /\ Wanted(x) # None =>
        /\ y.kept = {p \in Shown(x) : BearsId(p, Wanted(x))}
        /\ y.pc = "open" => y.scanned < MaxScan
        /\ store = "db" => y.pc = "idle" /\ y.shown = <<>> /\ y.due = {}

ReadersFit == TableFits /\ DOMAIN reader = Readers /\ \A x \in Readers : ReaderFits(x)

LEMMA ShownIsDue ==
    ASSUME NEW x, ReaderFits(x)
    PROVE  Shown(x) \subseteq Due(x) /\ DOMAIN reader[x].shown = 1 .. Len(reader[x].shown)
<1>1. reader[x].shown \in Seq(Due(x))
  BY DEF ReaderFits
<1>2. PICK U : U = Due(x)
  OBVIOUS
<1>3. PICK s \in Seq(U) : s = reader[x].shown
  BY <1>1, <1>2
<1>4. DOMAIN s = 1 .. Len(s) /\ \A i \in 1 .. Len(s) : s[i] \in U
  BY <1>3
<1>5. ToSet(s) \subseteq U
  BY <1>4 DEF ToSet
<1> QED
  BY <1>2, <1>3, <1>4, <1>5 DEF Shown

\* What is ahead of a cursor does not precede what is behind it.
LEMMA AheadIsLater ==
    ASSUME FilesFit, TableFits, store \in {"jsonl", "db"}, NEW x, NEW c, CursorFits(c),
           NEW e \in Due(x), NEW d \in Due(x), ~Ahead(e, c), Ahead(d, c)
    PROVE  ~Precedes(d, e)
<1>1. CASE store = "jsonl"
  <2>1. e \in Positions /\ d \in Positions
    BY <1>1 DEF Due, Matching
  <2>2. e[1] \in Nat /\ e[2] \in Nat /\ d[1] \in Nat /\ d[2] \in Nat
    BY <2>1, PositionsAreFinite
  <2>3. c # None /\ Earlier(e, c) /\ ~Earlier(d, c) /\ c \in Nat \X Nat
    BY <1>1 DEF Ahead, From, CursorFits
  <2>4. c[1] \in Nat /\ c[2] \in Nat
    BY <2>3
  <2>5. ~Earlier(d, e)
    BY <2>2, <2>3, <2>4 DEF Earlier
  <2> QED
    BY <1>1, <2>5 DEF Precedes
<1>2. CASE store = "db"
  <2>1. e \in table /\ d \in table /\ store # "jsonl"
    BY <1>2 DEF Due, Records
  <2>2. c # None /\ ~Beyond(e, c) /\ Beyond(d, c) /\ \E a \in table : a.id = c
    BY <2>1 DEF Ahead, Beyond, CursorFits
  <2>3. PICK a \in table : a = CHOOSE b \in table : b.id = c
    BY <2>2
  <2>4. ~Sorts(a, e) /\ Sorts(a, d)
    BY <2>2, <2>3 DEF Beyond
  <2>5. a.ts \in Nat /\ a.id \in Nat /\ e.ts \in Nat /\ e.id \in Nat /\ d.ts \in Nat /\ d.id \in Nat
    BY <2>1 DEF TableFits
  <2>6. ~Sorts(d, e)
    BY <2>4, <2>5 DEF Sorts
  <2> QED
    BY <2>1, <2>6 DEF Precedes
<1> QED
  BY <1>1, <1>2

\* Rows that are added are no loss for a reader.
LEMMA ReaderRests ==
    ASSUME scene' = scene, store \in {"jsonl", "db"}, RowsStay, table \subseteq table', TableFits', NEW x, reader'[x] = reader[x], ReaderFits(x)
    PROVE  ReaderFits(x)'
<1>1. store' = store /\ Wanted(x)' = Wanted(x)
  BY DEF store, Wanted
<1>2. CASE store = "jsonl"
  <2>1. \A p \in Due(x) : p \in Due(x)' /\ RowAt(p)' = RowAt(p)
    BY <1>1, <1>2 DEF Due, Matching, RowsStay
  <2>2. \A e, c : Ahead(e, c)' = Ahead(e, c)
    BY <1>1, <1>2 DEF Ahead, From
  <2>3. Shown(x)' = Shown(x) /\ Shown(x) \subseteq Due(x)
    BY ShownIsDue DEF Shown
  <2>4. reader[x].shown \in Seq(Due(x)')
    <3>1. PICK U, V : U = Due(x) /\ V = Due(x)' /\ U \subseteq V
      BY <2>1
    <3>2. PICK s \in Seq(U) : s = reader[x].shown
      BY <3>1 DEF ReaderFits
    <3>3. s \in Seq(V)
      BY <3>1
    <3> QED
      BY <3>1, <3>2, <3>3
  <2>5. CursorFits(reader[x].cursor)'
    BY <1>1, <1>2 DEF ReaderFits, CursorFits
  <2>6. {p \in Shown(x) : BearsId(p, Wanted(x))} = {p \in Shown(x) : BearsId(p, Wanted(x))'}
    BY <1>1, <2>1, <2>3 DEF BearsId, RunId
  <2> QED
    BY <1>1, <1>2, <2>1, <2>2, <2>3, <2>4, <2>5, <2>6 DEF ReaderFits
<1>3. CASE store = "db"
  <2>1. \A a \in Due(x) : a \in Due(x)'
    BY <1>1, <1>3 DEF Due, Records
  <2>2. PICK c : c = reader[x].cursor
    OBVIOUS
  <2>3. CursorFits(c) /\ CursorFits(c)'
    BY <1>1, <1>3, <2>2 DEF ReaderFits, CursorFits
  <2>4. \A e : Ahead(e, c)' = Ahead(e, c)
    <3>1. CASE c = None
      BY <1>1, <1>3, <3>1 DEF Ahead, Beyond
    <3>2. CASE c # None
      <4>1. PICK a \in table : a.id = c
        BY <1>3, <2>3, <3>2 DEF CursorFits
      <4>2. (CHOOSE b \in table' : b.id = c) = a /\ (CHOOSE b \in table : b.id = c) = a
        BY <4>1 DEF TableFits
      <4> QED
        BY <1>1, <1>3, <3>2, <4>2 DEF Ahead, Beyond, Sorts
    <3> QED
      BY <3>1, <3>2
  <2>5. Shown(x)' = Shown(x) /\ Shown(x) \subseteq Due(x)
    BY ShownIsDue DEF Shown
  <2>6. reader[x].shown \in Seq(Due(x)')
    <3>1. PICK U, V : U = Due(x) /\ V = Due(x)' /\ U \subseteq V
      BY <2>1
    <3>2. PICK s \in Seq(U) : s = reader[x].shown
      BY <3>1 DEF ReaderFits
    <3>3. s \in Seq(V)
      BY <3>1
    <3> QED
      BY <3>1, <3>2, <3>3
  <2>7. Wanted(x) # None => Shown(x) = {}
    BY <1>3 DEF ReaderFits, Shown, ToSet
  <2>8. CursorFits(reader[x].cursor)'
    BY <2>2, <2>3
  <2> QED
    BY <1>1, <1>3, <2>1, <2>2, <2>4, <2>5, <2>6, <2>7, <2>8 DEF ReaderFits
<1> QED
  BY <1>2, <1>3

\* A reader that has got a page.
LEMMA PageIsTurned ==
    ASSUME FilesFit, TableFits, TableFits', store \in {"jsonl", "db"}, UNCHANGED <<scene, file, table>>,
           NEW x, ReaderFits(x), reader[x].pc = "open",
           NEW limit \in Nat, NEW page, NEW cursor, Answers(x, limit, page, cursor),
           NEW then, then \in {"done", "open", "refused"}, then = "done" <=> cursor = None,
           NEW keeps, NEW scans \in Nat, reader[x].scanned + scans <= MaxScan,
           reader'[x] = [pc |-> then, cursor |-> cursor, shown |-> reader[x].shown \o page,
                         kept |-> reader[x].kept \cup keeps, scanned |-> reader[x].scanned + scans, due |-> reader[x].due],
           Wanted(x) # None => /\ keeps = {p \in ToSet(page) : BearsId(p, Wanted(x))}
                               /\ then = "open" => reader[x].scanned + scans < MaxScan
    PROVE  ReaderFits(x)'
<1>1. PICK before, sorted, n, m : n \in Nat /\ m \in 0 .. n /\ Begins(x, limit, page, cursor, before, sorted, n, m)
  BY DEF Answers
<1>2. /\ Orders(before, Rest(x)) /\ Lists(sorted, n, Rest(x), before)
      /\ page \in Seq(Rest(x)) /\ Len(page) = m /\ \A i \in 1 .. m : page[i] = sorted[i]
      /\ cursor = None => m = n
      /\ cursor # None =>
          /\ m >= 1
          /\ \A a, b \in Rest(x) : <<a, b>> \in before <=> Precedes(a, b)
          /\ \A e \in Due(x) : Ahead(e, cursor) <=> Precedes(page[m], e)
      /\ CursorFits(cursor)
      /\ n \in Nat /\ m \in 0 .. n
  BY <1>1 DEF Begins
<1>3. store' = store /\ Wanted(x)' = Wanted(x) /\ Due(x)' = Due(x) /\ \A p : RowAt(p)' = RowAt(p)
  BY DEF store, Wanted, Due, Matching, Records, Positions, Files, FileOf, RowAt, RowOf, Bulky
<1>24. \A p : BearsId(p, Wanted(x))' = BearsId(p, Wanted(x))
  BY <1>3 DEF BearsId, RunId
<1>4. \A e, c : Ahead(e, c)' = Ahead(e, c) /\ CursorFits(c)' = CursorFits(c)
  BY <1>3 DEF Ahead, From, Beyond, CursorFits
<1>5. PICK U, due, rest, c : U = Due(x) /\ due = reader[x].due /\ rest = Rest(x) /\ c = reader[x].cursor
  OBVIOUS
<1>6. PICK shown \in Seq(U) : shown = reader[x].shown
  BY <1>5 DEF ReaderFits
<1>7. /\ IsInjective(shown) /\ rest \subseteq U /\ ToSet(shown) \subseteq U /\ Shown(x) = ToSet(shown)
      /\ \A e \in ToSet(shown) : ~Ahead(e, c)
      /\ \A e \in due : e \in ToSet(shown) \/ e \in rest
      /\ \A e \in rest : Ahead(e, c) /\ e \in Due(x)
      /\ CursorFits(c) /\ due \subseteq U
  BY <1>5, <1>6, ShownIsDue DEF ReaderFits, Shown, Rest
<1>8. ToSet(shown) \cap rest = {} /\ due \subseteq ToSet(shown) \cup rest
  BY <1>7
<1>9. PICK t \in Seq(rest) : t = page /\ Len(t) = m /\ \A i \in 1 .. m : t[i] = sorted[i]
  BY <1>2, <1>5
<1>10. Orders(before, rest) /\ Lists(sorted, n, rest, before)
  BY <1>2, <1>5
<1>11. /\ shown \o t \in Seq(U) /\ IsInjective(shown \o t)
       /\ ToSet(shown \o t) = ToSet(shown) \cup ToSet(t) /\ ToSet(t) \subseteq rest
       /\ m = n => due \subseteq ToSet(shown \o t)
       /\ m >= 1 => /\ t[m] \in rest
                    /\ \A e \in ToSet(t) : e = t[m] \/ <<e, t[m]>> \in before
                    /\ \A e \in rest : e \in ToSet(t) \/ <<t[m], e>> \in before
  <2>1. Turns(U, shown, rest, due, before, sorted, n, t, m)
    BY <1>2, <1>6, <1>7, <1>8, <1>9, <1>10 DEF Turns
  <2> QED
    BY <2>1, PageGoesOn
<1>12. PICK new \in Seq(U) : new = shown \o t
  BY <1>11
<1>13. /\ reader'[x].shown = new /\ reader'[x].cursor = cursor /\ reader'[x].pc = then /\ reader'[x].due = due
       /\ reader'[x].kept = reader[x].kept \cup keeps /\ reader'[x].scanned = reader[x].scanned + scans
       /\ Shown(x)' = ToSet(new)
  BY <1>5, <1>6, <1>9, <1>12 DEF Shown
<1>14. ASSUME then = "open"
       PROVE  /\ \A e \in ToSet(new) : ~Ahead(e, cursor)
              /\ \A e \in due : e \in ToSet(new) \/ Ahead(e, cursor)
  <2>1. cursor # None /\ m >= 1
    BY <1>2, <1>14
  <2>2. (\A e \in U : Ahead(e, cursor) <=> Precedes(t[m], e)) /\ \A a, b \in rest : <<a, b>> \in before <=> Precedes(a, b)
    BY <1>2, <1>5, <1>9, <2>1
  <2>3. t[m] \in rest /\ t[m] \in U
    BY <1>7, <1>11, <2>1
  <2>4. ASSUME NEW e \in ToSet(shown)
        PROVE  ~Ahead(e, cursor)
    <3>1. PICK d \in Due(x) : d = t[m] /\ Ahead(d, c)
      BY <1>7, <2>3
    <3>2. e \in Due(x) /\ ~Ahead(e, c)
      BY <1>5, <1>7
    <3>3. ~Precedes(d, e)
      BY <1>7, <3>1, <3>2, AheadIsLater
    <3> QED
      BY <1>7, <2>2, <3>1, <3>3
  <2>5. ASSUME NEW e \in ToSet(t)
        PROVE  ~Ahead(e, cursor)
    <3>1. e \in rest /\ e \in U
      BY <1>7, <1>11
    <3>2. <<t[m], e>> \notin before
      BY <1>10, <1>11, <2>1, <2>3, <3>1 DEF Orders
    <3> QED
      BY <2>2, <2>3, <3>1, <3>2
  <2>6. ASSUME NEW e \in due, e \notin ToSet(new)
        PROVE  Ahead(e, cursor)
    <3>1. e \in rest /\ e \notin ToSet(t) /\ e \in U
      BY <1>7, <1>11, <1>12, <2>6
    <3>2. <<t[m], e>> \in before
      BY <1>11, <2>1, <3>1
    <3> QED
      BY <2>2, <2>3, <3>1, <3>2
  <2> QED
    BY <1>11, <1>12, <2>4, <2>5, <2>6
<1>15. then = "done" => due \subseteq ToSet(new)
  BY <1>2, <1>11, <1>12
<1>16. Wanted(x) # None => reader'[x].kept = {p \in ToSet(new) : BearsId(p, Wanted(x))} /\ store # "db"
  BY <1>7, <1>9, <1>11, <1>12, <1>13 DEF ReaderFits
<1>17. PICK k \in Nat : k = reader[x].scanned
  BY DEF ReaderFits
<1>18. reader'[x].scanned \in Nat /\ reader'[x].scanned <= MaxScan
  BY <1>13, <1>17
<1>19. CursorFits(cursor)' /\ CursorFits(cursor)
  BY <1>2, <1>4
<1>20. IsInjective(new) /\ new \in Seq(Due(x)') /\ due \subseteq Due(x)'
  BY <1>3, <1>5, <1>7, <1>11, <1>12
<1>21. then = "open" => (\A e \in ToSet(new) : ~Ahead(e, cursor)') /\ \A e \in due : e \in ToSet(new) \/ Ahead(e, cursor)'
  BY <1>4, <1>14
<1>22. Wanted(x)' # None => /\ reader'[x].kept = {p \in ToSet(new) : BearsId(p, Wanted(x))'} /\ store' # "db"
                            /\ then = "open" => reader'[x].scanned < MaxScan
  BY <1>3, <1>13, <1>16, <1>24
<1>23. CursorFits(reader[x].cursor)'
  BY <1>13, <1>19
<1> QED
  BY <1>13, <1>15, <1>18, <1>20, <1>21, <1>22, <1>23 DEF ReaderFits

LEMMA QueriesAreAnswered ==
    ASSUME FilesFit, TableFits, store \in {"jsonl", "db"}, NEW x, NEW limit \in Nat \ {0}
    PROVE  Answers(x, limit, Query(x, limit).page, Query(x, limit).cursor)
<1>1. CASE store = "jsonl"
  BY <1>1, FilesAreAnswered DEF Query
<1>2. CASE store = "db"
  BY <1>2, TableIsAnswered DEF Query
<1> QED
  BY <1>1, <1>2

LEMMA ExportStep ==
    ASSUME FilesFit, ReadersFit, TableFits', store \in {"jsonl", "db"}, NEW x \in Readers, ExportPage(x)
    PROVE  ReaderFits(x)'
<1>1. UNCHANGED <<scene, file, table>> /\ reader[x].pc = "open" /\ Wanted(x) = None
  BY DEF ExportPage, sinks
<1>2. Limit \in Nat \ {0} /\ Limit \in Nat /\ MaxScan \in Nat
  BY AuditTrailAssumption
<1>3. TableFits /\ ReaderFits(x) /\ x \in DOMAIN reader
  BY DEF ReadersFit
<1>4. PICK page, cursor : page = Query(x, Limit).page /\ cursor = Query(x, Limit).cursor
  OBVIOUS
<1>5. Answers(x, Limit, page, cursor)
  BY <1>2, <1>3, <1>4, QueriesAreAnswered
<1>6. PICK then : then = IF cursor = None THEN "done" ELSE "open"
  OBVIOUS
<1>7. then \in {"done", "open", "refused"} /\ (then = "done" <=> cursor = None)
  BY <1>6
<1>8. PICK k \in Nat : k = reader[x].scanned /\ k <= MaxScan
  BY <1>3 DEF ReaderFits
<1>9. k + 0 = k /\ 0 \in Nat
  OBVIOUS
<1>10. PICK keeps : keeps = {}
  OBVIOUS
<1>11. PICK scans \in Nat : scans = 0
  OBVIOUS
<1>12. reader'[x] = [pc |-> then, cursor |-> cursor, shown |-> reader[x].shown \o page,
                    kept |-> reader[x].kept \cup keeps, scanned |-> reader[x].scanned + scans, due |-> reader[x].due]
  BY <1>3, <1>4, <1>6, <1>11, <1>10 DEF ExportPage, TurnPage
<1>13. reader[x].scanned + scans <= MaxScan
  BY <1>8, <1>9, <1>11
<1>14. Wanted(x) # None => /\ keeps = {p \in ToSet(page) : BearsId(p, Wanted(x))}
                           /\ then = "open" => reader[x].scanned + scans < MaxScan
  BY <1>1
<1> QED
  BY <1>1, <1>2, <1>3, <1>5, <1>7, <1>12, <1>13, <1>14, PageIsTurned

LEMMA DetailStep ==
    ASSUME FilesFit, ReadersFit, TableFits', store \in {"jsonl", "db"}, NEW x \in Readers, DetailPage(x)
    PROVE  ReaderFits(x)'
<1>1. UNCHANGED <<scene, file, table>> /\ reader[x].pc = "open" /\ Wanted(x) # None
  BY DEF DetailPage, sinks
<1>2. Limit \in Nat \ {0} /\ MaxScan \in Nat
  BY AuditTrailAssumption
<1>3. TableFits /\ ReaderFits(x) /\ x \in DOMAIN reader
  BY DEF ReadersFit
<1>4. PICK k \in Nat : k = reader[x].scanned /\ k < MaxScan
  BY <1>1, <1>3 DEF ReaderFits
<1> DEFINE left == IF MaxScan > reader[x].scanned THEN MaxScan - reader[x].scanned ELSE 1
<1>5. PICK limit \in Nat \ {0} : limit = (IF left < Limit THEN left ELSE Limit) /\ k + limit <= MaxScan
  BY <1>2, <1>4
<1>6. PICK page, cursor : page = Query(x, limit).page /\ cursor = Query(x, limit).cursor
  OBVIOUS
<1>7. Answers(x, limit, page, cursor)
  BY <1>3, <1>6, QueriesAreAnswered
<1>8. PICK scans \in Nat : scans = Len(page) /\ scans <= limit
  BY <1>7 DEF Answers, Begins
<1>9. PICK then, keeps : /\ then = IF cursor = None THEN "done" ELSE IF reader[x].scanned + scans >= MaxScan THEN "refused" ELSE "open"
                         /\ keeps = {p \in ToSet(page) : BearsId(p, Wanted(x))}
  OBVIOUS
<1>10. then \in {"done", "open", "refused"} /\ (then = "done" <=> cursor = None)
  BY <1>9
<1>11. reader'[x] = [pc |-> then, cursor |-> cursor, shown |-> reader[x].shown \o page,
                    kept |-> reader[x].kept \cup keeps, scanned |-> reader[x].scanned + scans, due |-> reader[x].due]
  BY <1>3, <1>5, <1>6, <1>8, <1>9 DEF DetailPage, TurnPage
<1> HIDE DEF left
<1>12. k + scans <= MaxScan /\ (~(k + scans >= MaxScan) => k + scans < MaxScan)
  <2>1. PICK most \in Nat : most = MaxScan
    BY <1>2
  <2>2. k + limit <= most /\ scans <= limit
    BY <1>5, <1>8, <2>1
  <2>3. k + scans <= most
    BY <1>4, <1>5, <1>8, <2>2
  <2>4. ~(k + scans >= most) => k + scans < most
    BY <1>4, <1>8, <2>1
  <2> QED
    BY <2>1, <2>3, <2>4
<1>13. reader[x].scanned + scans <= MaxScan /\ (then = "open" => reader[x].scanned + scans < MaxScan)
  BY <1>4, <1>9, <1>12
<1>14. Wanted(x) # None => /\ keeps = {p \in ToSet(page) : BearsId(p, Wanted(x))}
                           /\ then = "open" => reader[x].scanned + scans < MaxScan
  BY <1>9, <1>13
<1>15. limit \in Nat
  BY <1>5
<1> QED
  BY <1>1, <1>3, <1>7, <1>10, <1>11, <1>13, <1>14, <1>15, PageIsTurned

LEMMA StartStep ==
    ASSUME ReadersFit, store \in {"jsonl", "db"}, NEW x \in Readers, StartReading(x)
    PROVE  ReaderFits(x)'
<1>1. /\ UNCHANGED <<scene, file, table>> /\ (Wanted(x) # None => store = "jsonl") /\ x \in DOMAIN reader
      /\ reader' = [reader EXCEPT ![x] = [pc |-> "open", cursor |-> None, shown |-> <<>>, kept |-> {}, scanned |-> 0, due |-> Due(x)]]
  BY DEF StartReading, sinks, ReadersFit
<1>2. store' = store /\ Wanted(x)' = Wanted(x) /\ Due(x)' = Due(x) /\ \A p : RowAt(p)' = RowAt(p)
  <2>1. UNCHANGED <<scene, file, table>>
    BY <1>1
  <2> QED
    BY <2>1 DEF store, Wanted, Due, Matching, Records, Positions, Files, FileOf, RowAt, RowOf, Bulky
<1>3. PICK U : U = Due(x)
  OBVIOUS
<1>4. /\ reader'[x].pc = "open" /\ reader'[x].cursor = None /\ reader'[x].shown = <<>> /\ reader'[x].kept = {}
      /\ reader'[x].scanned = 0 /\ reader'[x].due = U
  BY <1>1, <1>3
<1>5. <<>> \in Seq(U) /\ IsInjective(<<>>) /\ ToSet(<<>>) = {}
  BY DEF IsInjective, ToSet
<1>6. MaxScan \in Nat \ {0} /\ 0 <= MaxScan /\ 0 < MaxScan /\ 0 \in Nat
  BY AuditTrailAssumption
<1>7. Shown(x)' = {} /\ CursorFits(None)' /\ \A e : Ahead(e, None)'
  BY <1>4, <1>5 DEF Shown, CursorFits, Ahead, From, Beyond
<1>8. CursorFits(reader[x].cursor)' /\ \A e : Ahead(e, reader[x].cursor)'
  BY <1>4, <1>7
<1> QED
  BY <1>1, <1>2, <1>3, <1>4, <1>5, <1>6, <1>7, <1>8 DEF ReaderFits

----------------------------------------------------------------------------
(* Pages stay exact *)

\* Rows are added to the table with ids that no row has.
LEMMA RowsAreAdded ==
    ASSUME WritesFit, TableFits, NEW r \in Runs, Persist(r)
    PROVE  table \subseteq table' /\ TableFits'
<1>1. pc[r] = "stamped" /\ Ids \subseteq Nat /\ IsFiniteSet(Rows)
  BY AuditTrailAssumption DEF Persist
<1>2. PICK t \in Nat : t = stamped[r]
  BY <1>1 DEF WritesFit, RunFits
<1>3. PICK ids \in [Rows -> Ids \ {a.id : a \in table}] :
        IsInjective(ids) /\ table' = table \cup {[run |-> r, row |-> i, ts |-> t, id |-> ids[i]] : i \in Rows}
  BY <1>2 DEF Persist
<1> DEFINE rec(i) == [run |-> r, row |-> i, ts |-> t, id |-> ids[i]]
<1> DEFINE new == {rec(i) : i \in Rows}
<1>4. \A i \in Rows : ids[i] \in Nat /\ \A a \in table : a.id # ids[i]
  BY <1>1, <1>3
<1>5. \A i, j \in Rows : ids[i] = ids[j] => i = j
  BY <1>3 DEF IsInjective
<1>6. IsFiniteSet(new)
  <2> DEFINE f == [i \in Rows |-> rec(i)]
  <2>1. (\A a \in new : \E i \in Rows : f[i] = a) /\ \A i \in Rows : f[i] \in new
    OBVIOUS
  <2> HIDE DEF f, new
  <2> QED
    BY <1>1, <2>1, ImageIsFinite
<1>7. \A a \in new : /\ a.run \in Runs /\ a.row \in Rows /\ a.ts \in Nat /\ a.id \in Nat
                     /\ \A b \in table : b.id # a.id
  BY <1>4
<1>8. \A a, b \in new : a.id = b.id => a = b
  BY <1>5
<1>9. table' = table \cup new
  BY <1>3
<1> HIDE DEF new
<1>10. IsFiniteSet(table')
  BY <1>6, <1>9, FS_Union DEF TableFits
<1>11. \A a \in table' : a.run \in Runs /\ a.row \in Rows /\ a.ts \in Nat /\ a.id \in Nat
  BY <1>7, <1>9 DEF TableFits
<1>12. \A a, b \in table' : a.id = b.id => a = b
  BY <1>7, <1>8, <1>9 DEF TableFits
<1> QED
  BY <1>9, <1>10, <1>11, <1>12 DEF TableFits

LEMMA StepKeepsTable ==
    ASSUME WritesFit, TableFits, [Next]_vars
    PROVE  table \subseteq table' /\ TableFits'
<1>1. ASSUME table' = table
      PROVE  table \subseteq table' /\ TableFits'
  BY <1>1 DEF TableFits
<1>2. ASSUME NEW r \in Runs,
             \/ BeginWrite(r) \/ Stamp(r) \/ Die(r) \/ AppendBatch(r) \/ AppendPiece(r)
             \/ PutObject(r) \/ PostRow(r) \/ Retry(r) \/ GiveUp(r)
      PROVE  table' = table
  BY <1>2 DEF BeginWrite, Stamp, Die, AppendBatch, AppendPiece, PutObject, PostRow, Retry, GiveUp
<1>3. ASSUME UNCHANGED vars \/ Tick \/ \E x \in Readers : StartReading(x) \/ ExportPage(x) \/ DetailPage(x)
      PROVE  table' = table
  BY <1>3 DEF vars, Tick, StartReading, ExportPage, DetailPage
<1> QED
  BY <1>1, <1>2, <1>3, RowsAreAdded DEF Next, Step

\* One reader has gone on, the others rest.
LEMMA OneReads ==
    ASSUME ReadersFit, scene' = scene, store \in {"jsonl", "db"}, RowsStay, table \subseteq table', TableFits',
           NEW x \in Readers, NEW y, reader' = [reader EXCEPT ![x] = y], ReaderFits(x)'
    PROVE  ReadersFit'
<1>1. DOMAIN reader' = Readers /\ \A z \in Readers \ {x} : reader'[z] = reader[z]
  BY DEF ReadersFit
<1>2. ASSUME NEW z \in Readers
      PROVE  ReaderFits(z)'
  <2>1. CASE z = x
    BY <2>1
  <2>2. CASE z # x
    <3>1. reader'[z] = reader[z] /\ ReaderFits(z)
      BY <1>1, <2>2 DEF ReadersFit
    <3> QED
      BY <3>1, ReaderRests
  <2> QED
    BY <2>1, <2>2
<1> QED
  BY <1>1, <1>2 DEF ReadersFit

LEMMA StepKeepsReaders ==
    ASSUME FilesFit, WritesFit, ReadersFit, [Next]_vars
    PROVE  ReadersFit'
<1>1. scene' = scene /\ RowsStay
  BY StepKeepsFiles
<1>2. table \subseteq table' /\ TableFits'
  BY StepKeepsTable DEF ReadersFit
<1>3. store \in {"jsonl", "db"}
  BY DeploymentFits DEF FilesFit, Scene, store
<1>4. ASSUME reader' = reader
      PROVE  ReadersFit'
  <2>1. \A x \in Readers : reader'[x] = reader[x] /\ ReaderFits(x)
    BY <1>4 DEF ReadersFit
  <2>2. \A x \in Readers : ReaderFits(x)'
    BY <1>1, <1>2, <1>3, <2>1, ReaderRests
  <2> QED
    BY <1>2, <1>4, <2>2 DEF ReadersFit
<1>5. ASSUME NEW r \in Runs, BeginWrite(r) \/ Stamp(r) \/ Step(r) \/ Die(r)
      PROVE  reader' = reader
  BY <1>5 DEF BeginWrite, Stamp, Die, Step, AppendBatch, AppendPiece, PutObject, PostRow, Retry, GiveUp, Persist
<1>6. ASSUME UNCHANGED vars \/ Tick
      PROVE  reader' = reader
  BY <1>6 DEF vars, Tick
<1>7. ASSUME NEW x \in Readers, StartReading(x)
      PROVE  ReadersFit'
  <2>1. ReaderFits(x)'
    BY <1>3, <1>7, StartStep
  <2>2. PICK y : reader' = [reader EXCEPT ![x] = y]
    BY <1>7 DEF StartReading
  <2> QED
    BY <1>1, <1>2, <1>3, <2>1, <2>2, OneReads
<1>8. ASSUME NEW x \in Readers, ExportPage(x) \/ DetailPage(x)
      PROVE  ReadersFit'
  <2>1. ReaderFits(x)'
    BY <1>2, <1>3, <1>8, ExportStep, DetailStep
  <2>2. PICK y : reader' = [reader EXCEPT ![x] = y]
    <3>1. \E answer, then, keeps, scans : TurnPage(x, answer, then, keeps, scans)
      BY <1>8 DEF ExportPage, DetailPage
    <3> QED
      BY <3>1 DEF TurnPage
  <2> QED
    BY <1>1, <1>2, <1>3, <2>1, <2>2, OneReads
<1> QED
  BY <1>4, <1>5, <1>6, <1>7, <1>8 DEF Next

LEMMA NobodyReads ==
    ASSUME Init
    PROVE  ReadersFit
<1>1. table = {} /\ reader = [x \in Readers |-> [pc |-> "idle", cursor |-> None, shown |-> <<>>, kept |-> {}, scanned |-> 0, due |-> {}]]
  BY DEF Init
<1>2. TableFits
  BY <1>1, FS_EmptySet DEF TableFits
<1>3. MaxScan \in Nat /\ 0 <= MaxScan /\ 0 \in Nat
  BY AuditTrailAssumption
<1>4. ASSUME NEW x \in Readers
      PROVE  ReaderFits(x)
  <2>1. /\ reader[x].pc = "idle" /\ reader[x].cursor = None /\ reader[x].shown = <<>> /\ reader[x].kept = {}
        /\ reader[x].scanned = 0 /\ reader[x].due = {}
    BY <1>1
  <2>2. PICK U : U = Due(x)
    OBVIOUS
  <2>3. <<>> \in Seq(U) /\ IsInjective(<<>>) /\ ToSet(<<>>) = {}
    BY DEF IsInjective, ToSet
  <2>4. Shown(x) = {} /\ CursorFits(reader[x].cursor)
    BY <2>1, <2>3 DEF Shown, CursorFits
  <2> QED
    BY <1>3, <2>1, <2>2, <2>3, <2>4 DEF ReaderFits
<1> QED
  BY <1>1, <1>2, <1>4 DEF ReadersFit

LEMMA FittingReadersAreExact ==
    ASSUME ReadersFit, store \in {"jsonl", "db"}
    PROVE  PagesAreExact
<1>1. \A x \in Readers : ReaderFits(x)
  BY DEF ReadersFit
<1>2. ExportsAreExact
  BY <1>1 DEF ReaderFits, Shown, ExportsAreExact
<1>3. ASSUME NEW x \in Readers, Wanted(x) # None
      PROVE  /\ reader[x].scanned <= MaxScan
             /\ reader[x].pc = "done" => {p \in reader[x].due : RowAt(p)[1] = Wanted(x)} \subseteq reader[x].kept
             /\ \A p \in reader[x].kept : Owner[RowAt(p)[1]] = Tenant[x] /\ RunId(RowAt(p)[1]) = RunId(Wanted(x))
  <2>1. ReaderFits(x)
    BY <1>1
  <2>2. /\ reader[x].scanned <= MaxScan
        /\ reader[x].pc = "done" => reader[x].due \subseteq Shown(x)
        /\ reader[x].kept = {p \in Shown(x) : BearsId(p, Wanted(x))}
        /\ store = "db" => reader[x].shown = <<>>
    BY <1>3, <2>1 DEF ReaderFits
  <2>3. \A p : RowAt(p)[1] = Wanted(x) => BearsId(p, Wanted(x))
    BY DEF BearsId
  <2>4. reader[x].pc = "done" => {p \in reader[x].due : RowAt(p)[1] = Wanted(x)} \subseteq reader[x].kept
    BY <2>2, <2>3
  <2>5. ASSUME NEW p \in reader[x].kept
        PROVE  Owner[RowAt(p)[1]] = Tenant[x] /\ RunId(RowAt(p)[1]) = RunId(Wanted(x))
    <3>1. p \in Shown(x) /\ RunId(RowAt(p)[1]) = RunId(Wanted(x))
      BY <2>2 DEF BearsId
    <3>2. store # "db"
      <4>1. ToSet(<<>>) = {}
        BY DEF ToSet
      <4> QED
        BY <2>2, <3>1, <4>1 DEF Shown
    <3>3. p \in Matching(x)
      BY <2>1, <3>1, <3>2, ShownIsDue DEF Due
    <3> QED
      BY <3>1, <3>3 DEF Matching
  <2> QED
    BY <2>2, <2>4, <2>5
<1>4. DetailsAreWholeOrRefused
  BY <1>3 DEF DetailsAreWholeOrRefused
<1> QED
  BY <1>2, <1>4 DEF PagesAreExact

\* Who follows the cursors while rows are appended and committed gets no row twice and
\* misses none that was there when it began; a task detail has every row of its run
\* that was there, or is refused, and of other runs only rows of its tenant's whose
\* engine gave them the same id; it never reads more than MaxScan rows.
THEOREM ExactPages == Spec => []PagesAreExact
<1> DEFINE Inv == Served /\ ReadersFit
<1>1. Init => Inv
  BY NothingIsDone, NobodyReads
<1>2. Inv /\ [Next]_vars => Inv'
  <2> SUFFICES ASSUME Served, ReadersFit, [Next]_vars
               PROVE  Served' /\ ReadersFit'
    OBVIOUS
  <2>1. FilesFit /\ WritesFit
    BY DEF Served
  <2> QED
    BY <2>1, StepKeepsServed, StepKeepsReaders
<1>3. Inv => PagesAreExact
  <2> SUFFICES ASSUME Served, ReadersFit
               PROVE  PagesAreExact
    OBVIOUS
  <2>1. scene \in Scenes
    BY DEF Served, FilesFit
  <2>2. store \in {"jsonl", "db"}
    BY <2>1, DeploymentFits DEF Scene, store
  <2> QED
    BY <2>2, FittingReadersAreExact
<1> HIDE DEF Inv
<1> QED
  BY <1>1, <1>2, <1>3, PTL DEF Spec

----------------------------------------------------------------------------
(* Redaction *)

\* A set of numbers has a least member; and what holds of zero and of the next
\* of every number it holds of, holds of all of them.
LEMMA LeastNumber ==
    ASSUME NEW S, S \subseteq Nat, S # {}
    PROVE  \E m \in S : \A k \in S : m <= k
<1> DEFINE less == OpToRel(<, Nat)
<1>1. IsWellFoundedOn(less, Nat)
  BY NatLessThanWellFounded
<1>2. \A a, b \in Nat : a < b => <<a, b>> \in less
  BY DEF OpToRel
<1> HIDE DEF less
<1>3. PICK m \in S : \A k \in S : ~(<<k, m>> \in less)
  BY <1>1, WFMin
<1>4. \A k \in S : ~(k < m)
  BY <1>2, <1>3
<1> QED
  BY <1>3, <1>4

LEMMA Induction ==
    ASSUME NEW S, 0 \in S, \A n \in Nat : n \in S => n + 1 \in S
    PROVE  Nat \subseteq S
<1> DEFINE Bad == Nat \ S
<1>1. CASE Bad # {}
  <2>1. PICK m \in Bad : \A k \in Bad : m <= k
    BY <1>1, LeastNumber
  <2>2. m # 0 /\ m - 1 \in Nat /\ m - 1 \notin Bad
    BY <2>1
  <2>3. m - 1 \in S /\ (m - 1) + 1 = m
    BY <2>2
  <2> QED
    BY <2>1, <2>2, <2>3
<1> QED
  BY <1>1

\* The items of a redacted text, and the detections in a text.
OutItem == [place : Int, label : Nat, mode : {"clear", "mask", "label"}]
Spots(length) == {d \in [type : ValidEntityTypes, start : Nat, end : Nat, layer : {"pattern", "semantic"}] :
                    d.start < d.end /\ d.end <= length}

LEMMA SliceOfText ==
    ASSUME NEW out \in Seq(OutItem), NEW from \in Nat, NEW to \in Nat, from <= to
    PROVE  LET new == out \o Slice(from, to)
           IN /\ new \in Seq(OutItem) /\ Len(new) = Len(out) + (to - from)
              /\ \A i \in 1 .. Len(out) : new[i] = out[i]
              /\ \A i \in 1 .. (to - from) : new[Len(out) + i] = Clear(from + i - 1)
<1> DEFINE slice == Slice(from, to)
<1>1. slice = [i \in 1 .. (to - from) |-> Clear(from + i - 1)] /\ to - from \in Nat
  BY DEF Slice
<1>2. \A i \in 1 .. (to - from) : Clear(from + i - 1) \in OutItem
  BY DEF Clear, OutItem
<1>3. slice \in Seq(OutItem) /\ Len(slice) = to - from
  BY <1>1, <1>2
<1> HIDE DEF slice
<1> DEFINE new == out \o slice
<1>4. new \in Seq(OutItem) /\ Len(new) = Len(out) + (to - from)
  BY <1>3
<1>5. \A i \in 1 .. Len(out) : new[i] = out[i]
  BY <1>3
<1>6. \A i \in 1 .. (to - from) : new[Len(out) + i] = slice[i]
  BY <1>3
<1> HIDE DEF new
<1>7. \A i \in 1 .. (to - from) : new[Len(out) + i] = Clear(from + i - 1)
  BY <1>1, <1>6
<1> QED
  BY <1>4, <1>5, <1>7 DEF new, slice

\* The recursion over the detections has a solution.
Solution(g, found, N, modeOf) ==
    g = [n \in 0 .. N |-> IF n = 0 THEN [out |-> <<>>, cursor |-> 0]
                          ELSE Replaced(g[n - 1], found[n], modeOf[found[n].type])]

LEMMA DoneIsDefined ==
    ASSUME NEW found, NEW N \in Nat, NEW modeOf
    PROVE  \E g : Solution(g, found, N, modeOf)
<1> DEFINE Then(n, before) == Replaced(before, found[n], modeOf[found[n].type])
<1> DEFINE First == [out |-> <<>>, cursor |-> 0]
<1> HIDE DEF Then, First
<1> DEFINE Solves(g, m) == g = [n \in 0 .. m |-> IF n = 0 THEN First ELSE Then(n, g[n - 1])]
<1> DEFINE S == {m \in Nat : \E g : Solves(g, m)}
<1>1. 0 \in S
  <2>1. Solves([n \in 0 .. 0 |-> First], 0)
    OBVIOUS
  <2> QED
    BY <2>1
<1>2. ASSUME NEW m \in Nat, m \in S PROVE m + 1 \in S
  <2>1. PICK g : Solves(g, m)
    BY <1>2
  <2> DEFINE h == [n \in 0 .. m + 1 |-> IF n = m + 1 THEN Then(n, g[m]) ELSE g[n]]
  <2>2. \A n \in 1 .. m : g[n] = Then(n, g[n - 1])
    BY <2>1
  <2>3. \A n \in 1 .. m + 1 : h[n] = Then(n, h[n - 1])
    BY <2>2
  <2>4. h[0] = First
    BY <2>1
  <2>5. h = [n \in 0 .. m + 1 |-> IF n = 0 THEN First ELSE Then(n, h[n - 1])]
    BY <2>3, <2>4
  <2>6. Solves(h, m + 1)
    BY <2>5
  <2> HIDE DEF h
  <2>7. \E f : Solves(f, m + 1)
    BY <2>6
  <2> QED
    BY <2>7
<1>3. N \in S
  BY <1>1, <1>2, Induction
<1>4. PICK g : Solves(g, N)
  BY <1>3
<1>5. Solution(g, found, N, modeOf)
  BY <1>4 DEF First, Then, Solution
<1> QED
  BY <1>5

\* The places left in clear are in their order.
Ordered(out) ==
    \A i, j \in DOMAIN out :
        i < j /\ out[i].mode = "clear" /\ out[j].mode = "clear" => out[i].place < out[j].place

LEMMA ClearGoesOn ==
    ASSUME NEW out \in Seq(OutItem), NEW from \in Nat, NEW to \in Nat, from <= to,
           Ordered(out), \A p \in InClear(out) : p < from
    PROVE  LET new == out \o Slice(from, to)
           IN /\ new \in Seq(OutItem) /\ Ordered(new)
              /\ \A p : p \in InClear(new) <=> p \in InClear(out) \/ p \in from .. (to - 1)
              /\ \A i \in DOMAIN out : i \in DOMAIN new /\ new[i] = out[i]
              /\ \A i \in DOMAIN new : new[i].mode # "clear" => i \in DOMAIN out
<1> DEFINE new == out \o Slice(from, to)
<1>1. /\ new \in Seq(OutItem) /\ Len(new) = Len(out) + (to - from)
      /\ \A i \in 1 .. Len(out) : new[i] = out[i]
      /\ \A i \in 1 .. (to - from) : new[Len(out) + i] = Clear(from + i - 1)
  BY SliceOfText
<1> HIDE DEF new
<1>2. Len(out) \in Nat /\ DOMAIN out = 1 .. Len(out) /\ DOMAIN new = 1 .. Len(new)
  BY <1>1
<1>3. \A i \in DOMAIN new : i \in DOMAIN out \/ \E k \in 1 .. (to - from) : i = Len(out) + k
  <2> SUFFICES ASSUME NEW i \in DOMAIN new, i \notin DOMAIN out
               PROVE  \E k \in 1 .. (to - from) : i = Len(out) + k
    OBVIOUS
  <2>1. i - Len(out) \in 1 .. (to - from) /\ i = Len(out) + (i - Len(out))
    BY <1>1, <1>2
  <2> QED
    BY <2>1
<1>4. \A k \in 1 .. (to - from) : /\ Len(out) + k \in DOMAIN new
                                  /\ new[Len(out) + k].mode = "clear" /\ new[Len(out) + k].place = from + k - 1
  <2> SUFFICES ASSUME NEW k \in 1 .. (to - from)
               PROVE  /\ Len(out) + k \in DOMAIN new
                      /\ new[Len(out) + k].mode = "clear" /\ new[Len(out) + k].place = from + k - 1
    OBVIOUS
  <2>1. Len(out) + k \in DOMAIN new
    BY <1>1, <1>2
  <2>2. new[Len(out) + k] = Clear(from + k - 1)
    BY <1>1
  <2> QED
    BY <2>1, <2>2 DEF Clear
<1>5. \A i \in DOMAIN out : i \in DOMAIN new /\ new[i] = out[i]
  BY <1>1, <1>2
<1>6. \A i \in DOMAIN new : new[i].mode # "clear" => i \in DOMAIN out
  BY <1>3, <1>4
<1>7. ASSUME NEW p PROVE p \in InClear(new) <=> p \in InClear(out) \/ p \in from .. (to - 1)
  <2>1. ASSUME p \in InClear(new) PROVE p \in InClear(out) \/ p \in from .. (to - 1)
    <3>1. PICK i \in DOMAIN new : new[i].mode = "clear" /\ new[i].place = p
      BY <2>1 DEF InClear
    <3>2. CASE i \in DOMAIN out
      BY <1>5, <3>1, <3>2 DEF InClear
    <3>3. CASE i \notin DOMAIN out
      BY <1>3, <1>4, <3>1, <3>3
    <3> QED
      BY <3>2, <3>3
  <2>2. ASSUME p \in InClear(out) PROVE p \in InClear(new)
    BY <1>5, <2>2 DEF InClear
  <2>3. ASSUME p \in from .. (to - 1) PROVE p \in InClear(new)
    <3>1. p - from + 1 \in 1 .. (to - from) /\ from + (p - from + 1) - 1 = p
      BY <2>3
    <3>2. PICK k \in 1 .. (to - from) : from + k - 1 = p
      BY <3>1
    <3> QED
      BY <1>4, <3>2 DEF InClear
  <2> QED
    BY <2>1, <2>2, <2>3
<1>8. Ordered(new)
  <2> SUFFICES ASSUME NEW i \in DOMAIN new, NEW j \in DOMAIN new, i < j,
                      new[i].mode = "clear", new[j].mode = "clear"
               PROVE  new[i].place < new[j].place
    BY DEF Ordered
  <2>1. CASE i \in DOMAIN out /\ j \in DOMAIN out
    BY <1>5, <2>1 DEF Ordered
  <2>2. CASE i \in DOMAIN out /\ j \notin DOMAIN out
    <3>1. new[i].place < from
      BY <1>5, <2>2 DEF InClear
    <3>2. PICK k \in 1 .. (to - from) : new[j].place = from + k - 1
      BY <1>3, <1>4, <2>2
    <3>3. new[i].place \in Int
      <4>1. new[i] \in OutItem
        BY <1>1
      <4> QED
        BY <4>1 DEF OutItem
    <3> QED
      BY <3>1, <3>2, <3>3
  <2>3. CASE i \notin DOMAIN out
    <3>1. j \notin DOMAIN out
      BY <1>2, <2>3
    <3>2. PICK k \in 1 .. (to - from) : i = Len(out) + k
      BY <1>3, <2>3
    <3>3. PICK l \in 1 .. (to - from) : j = Len(out) + l
      BY <1>3, <3>1
    <3>4. k < l
      BY <1>2, <3>2, <3>3
    <3>5. new[i].place = from + k - 1 /\ new[j].place = from + l - 1
      BY <1>4, <3>2, <3>3
    <3> QED
      BY <3>4, <3>5
  <2> QED
    BY <2>1, <2>2, <2>3
<1> QED
  BY <1>1, <1>5, <1>6, <1>7, <1>8 DEF new

LEMMA LabelGoesOn ==
    ASSUME NEW out \in Seq(OutItem), Ordered(out), NEW item \in OutItem, item.mode # "clear"
    PROVE  LET new == out \o <<item>>
           IN /\ new \in Seq(OutItem) /\ Ordered(new)
              /\ \A p : p \in InClear(new) <=> p \in InClear(out)
              /\ \A i \in DOMAIN out : i \in DOMAIN new /\ new[i] = out[i]
              /\ \A i \in DOMAIN new : i \in DOMAIN out \/ new[i] = item
              /\ \E i \in DOMAIN new : new[i] = item
<1> DEFINE new == out \o <<item>>
<1>1. /\ new \in Seq(OutItem) /\ Len(new) = Len(out) + 1 /\ Len(out) \in Nat
      /\ \A i \in 1 .. Len(out) : new[i] = out[i]
      /\ new[Len(out) + 1] = item
  OBVIOUS
<1> HIDE DEF new
<1>2. DOMAIN out = 1 .. Len(out) /\ DOMAIN new = 1 .. Len(out) + 1
  BY <1>1
<1>3. \A i \in DOMAIN out : i \in DOMAIN new /\ new[i] = out[i]
  BY <1>1, <1>2
<1>4. \A i \in DOMAIN new : i \in DOMAIN out \/ new[i] = item
  BY <1>1, <1>2
<1>5. \E i \in DOMAIN new : new[i] = item
  BY <1>1, <1>2
<1>6. Ordered(new)
  BY <1>3, <1>4 DEF Ordered
<1>7. \A p : p \in InClear(new) <=> p \in InClear(out)
  BY <1>3, <1>4 DEF InClear
<1> QED
  BY <1>1, <1>3, <1>4, <1>5, <1>6, <1>7 DEF new

\* What the detections up to n have made of the text: some of them are replaced,
\* one after the other; every other one begins inside one of these.
Partly(found, n, kept, done) ==
    /\ kept \subseteq 1 .. n /\ done.out \in Seq(OutItem) /\ done.cursor \in Nat
    /\ \/ done.cursor = 0 /\ kept = {}
       \/ \E k \in kept : done.cursor = found[k].end /\ \A j \in kept : j <= k
    /\ \A j, k \in kept : j < k => found[j].end <= found[k].start
    /\ \A m \in 1 .. n : m \in kept \/ \E k \in kept : k < m /\ Covers(found[k], found[m].start)
    /\ Ordered(done.out)
    /\ \A p : p \in InClear(done.out) <=>
                p \in 0 .. (done.cursor - 1) /\ \A k \in kept : ~Covers(found[k], p)
    /\ \A k \in kept : \E i \in DOMAIN done.out :
         done.out[i].mode # "clear" /\ done.out[i].label = found[k].type
    /\ \A i \in DOMAIN done.out :
         done.out[i].mode # "clear" => \E k \in kept : done.out[i].label = found[k].type

\* Detections in the order of their places.
Placed(found, length) ==
    /\ found \in [1 .. Len(found) -> Spots(length)] /\ Len(found) \in Nat
    /\ \A m, n \in 1 .. Len(found) : m < n => found[m].start <= found[n].start

LEMMA ReplacedGoesOn ==
    ASSUME NEW length \in Nat, NEW found, Placed(found, length), NEW n \in Nat, n + 1 <= Len(found),
           NEW kept, NEW done, Partly(found, n, kept, done), NEW mode \in {"mask", "label"}
    PROVE  \E more : Partly(found, n + 1, more, Replaced(done, found[n + 1], mode))
<1> DEFINE d == found[n + 1]
<1> DEFINE last == Replaced(done, d, mode)
<1>1. /\ d \in Spots(length) /\ d.start \in Nat /\ d.end \in Nat /\ d.start < d.end /\ d.type \in Nat
      /\ n + 1 \in 1 .. Len(found)
      /\ \A k \in 1 .. n : /\ k \in 1 .. Len(found) /\ k < n + 1 /\ found[k].start <= d.start
                           /\ found[k].start \in Nat /\ found[k].end \in Nat
                           /\ found[k].start < found[k].end
  <2>1. n + 1 \in 1 .. Len(found) /\ \A k \in 1 .. n : k \in 1 .. Len(found) /\ k < n + 1
    BY DEF Placed
  <2>2. \A k \in 1 .. Len(found) : /\ found[k] \in Spots(length) /\ found[k].start \in Nat /\ found[k].end \in Nat
                                   /\ found[k].start < found[k].end /\ found[k].type \in Nat
    BY DEF Placed, Spots, ValidEntityTypes, ACCOUNT_ID, EMAIL, GENERIC_ID
  <2> QED
    BY <2>1, <2>2 DEF Placed
<1>2. CASE d.start < done.cursor
  <2>1. last = done
    BY <1>2 DEF Replaced
  <2>2. PICK k \in kept : done.cursor = found[k].end
    BY <1>1, <1>2 DEF Partly
  <2>3. Covers(found[k], d.start) /\ k < n + 1
    BY <1>1, <1>2, <2>2 DEF Partly, Covers
  <2>4. \A m \in 1 .. n + 1 : m \in kept \/ \E j \in kept : j < m /\ Covers(found[j], found[m].start)
    <3> SUFFICES ASSUME NEW m \in 1 .. n + 1, m # n + 1
                 PROVE  m \in kept \/ \E j \in kept : j < m /\ Covers(found[j], found[m].start)
      BY <2>3
    <3>1. m \in 1 .. n
      OBVIOUS
    <3> QED
      BY <3>1 DEF Partly
  <2>5. kept \subseteq 1 .. n + 1
    BY DEF Partly
  <2>6. Partly(found, n + 1, kept, done)
    BY <2>4, <2>5 DEF Partly
  <2> QED
    BY <2>1, <2>6
<1>3. CASE ~(d.start < done.cursor)
  <2> DEFINE item == Label(d.type, mode)
  <2> DEFINE plain == done.out \o Slice(done.cursor, d.start)
  <2> DEFINE more == kept \cup {n + 1}
  <2>1. last = [out |-> plain \o <<item>>, cursor |-> d.end]
    BY <1>3 DEF Replaced
  <2>2. item \in OutItem /\ item.mode # "clear" /\ item.label = d.type
    BY <1>1 DEF Label, OutItem
  <2>3. /\ done.out \in Seq(OutItem) /\ done.cursor \in Nat /\ done.cursor <= d.start
        /\ Ordered(done.out) /\ \A p \in InClear(done.out) : p < done.cursor
    BY <1>1, <1>3 DEF Partly
  <2>4. /\ plain \in Seq(OutItem) /\ Ordered(plain)
        /\ \A p : p \in InClear(plain) <=>
                    p \in InClear(done.out) \/ p \in done.cursor .. (d.start - 1)
        /\ \A i \in DOMAIN done.out : i \in DOMAIN plain /\ plain[i] = done.out[i]
        /\ \A i \in DOMAIN plain : plain[i].mode # "clear" => i \in DOMAIN done.out
    BY <1>1, <2>3, ClearGoesOn
  <2> DEFINE out == plain \o <<item>>
  <2> HIDE DEF item, plain
  <2>5. /\ out \in Seq(OutItem) /\ Ordered(out)
        /\ \A p : p \in InClear(out) <=> p \in InClear(plain)
        /\ \A i \in DOMAIN plain : i \in DOMAIN out /\ out[i] = plain[i]
        /\ \A i \in DOMAIN out : i \in DOMAIN plain \/ out[i] = item
        /\ \E i \in DOMAIN out : out[i] = item
    BY <2>2, <2>4, LabelGoesOn
  <2>6. last.out = out /\ last.cursor = d.end
    BY <2>1
  <2> HIDE DEF out, last, d
  <2>7. \A k \in kept : /\ k \in 1 .. n /\ k \in 1 .. Len(found) /\ found[k].start <= d.start
                        /\ found[k].end \in Nat /\ found[k].end <= done.cursor
                        /\ found[k].start \in Nat /\ found[k].start < found[k].end
    <3> SUFFICES ASSUME NEW k \in kept
                 PROVE  /\ k \in 1 .. n /\ k \in 1 .. Len(found) /\ found[k].start <= d.start
                        /\ found[k].end \in Nat /\ found[k].end <= done.cursor
                        /\ found[k].start \in Nat /\ found[k].start < found[k].end
      OBVIOUS
    <3>1. kept \subseteq 1 .. n
      BY DEF Partly
    <3>2. PICK t \in kept : done.cursor = found[t].end /\ \A j \in kept : j <= t
      BY DEF Partly
    <3>3. k \in 1 .. n /\ t \in 1 .. n /\ (k = t \/ k < t)
      BY <3>1, <3>2
    <3>4. k < t => found[k].end <= found[t].start
      BY DEF Partly
    <3>5. found[k].end <= found[t].end
      BY <1>1, <3>3, <3>4
    <3> QED
      BY <1>1, <3>1, <3>2, <3>5
  <2>8. more \subseteq 1 .. n + 1 /\ n + 1 \in more
    <3>1. kept \subseteq 1 .. n
      BY DEF Partly
    <3> QED
      BY <3>1
  <2>9. d = found[n + 1]
    BY DEF d
  <2>10. \E k \in more : d.end = found[k].end /\ \A j \in more : j <= k
    BY <2>8, <2>9
  <2>11. \A j, k \in more : j < k => found[j].end <= found[k].start
    <3> SUFFICES ASSUME NEW j \in more, NEW k \in more, j < k
                 PROVE  found[j].end <= found[k].start
      OBVIOUS
    <3>1. CASE k \in kept
      <4>1. j # n + 1
        BY <2>7, <3>1
      <4> QED
        BY <3>1, <4>1 DEF Partly
    <3>2. CASE k = n + 1
      <4>1. j \in kept
        BY <3>2
      <4>2. found[j].end <= done.cursor /\ found[j].end \in Nat
        BY <2>7, <4>1
      <4> QED
        BY <1>1, <2>3, <2>9, <3>2, <4>2 
    <3> QED
      BY <3>1, <3>2
  <2>12. \A m \in 1 .. n + 1 : m \in more \/ \E k \in more : k < m /\ Covers(found[k], found[m].start)
    <3> SUFFICES ASSUME NEW m \in 1 .. n + 1, m \notin more
                 PROVE  \E k \in more : k < m /\ Covers(found[k], found[m].start)
      OBVIOUS
    <3>1. m \in 1 .. n /\ m \notin kept
      OBVIOUS
    <3> QED
      BY <3>1 DEF Partly
  <2>13. ASSUME NEW p
         PROVE  p \in InClear(out) <=>
                  p \in 0 .. (d.end - 1) /\ \A k \in more : ~Covers(found[k], p)
    <3>1. p \in InClear(out) <=> \/ p \in 0 .. (done.cursor - 1) /\ \A k \in kept : ~Covers(found[k], p)
                                 \/ p \in done.cursor .. (d.start - 1)
      BY <2>4, <2>5 DEF Partly
    <3>2. Covers(d, p) <=> d.start <= p /\ p < d.end
      BY DEF Covers
    <3>3. \A k \in kept : Covers(found[k], p) <=> found[k].start <= p /\ p < found[k].end
      BY DEF Covers
    <3>4. p \in done.cursor .. (d.start - 1) => \A k \in kept : ~Covers(found[k], p)
      BY <1>1, <2>3, <2>7, <3>3
    <3>5. (\A k \in more : ~Covers(found[k], p)) <=>
            ~Covers(d, p) /\ \A k \in kept : ~Covers(found[k], p)
      BY <2>9
    <3>6. p \in 0 .. (done.cursor - 1) => p \in 0 .. (d.end - 1) /\ ~Covers(d, p)
      BY <1>1, <2>3, <2>9, <3>2
    <3>7. p \in done.cursor .. (d.start - 1) => p \in 0 .. (d.end - 1) /\ ~Covers(d, p)
      BY <1>1, <2>3, <2>9, <3>2
    <3>8. p \in 0 .. (d.end - 1) /\ ~Covers(d, p) =>
            p \in 0 .. (done.cursor - 1) \/ p \in done.cursor .. (d.start - 1)
      BY <1>1, <2>3, <2>9, <3>2
    <3> QED
      BY <3>1, <3>4, <3>5, <3>6, <3>7, <3>8
  <2>14. \A k \in more : \E i \in DOMAIN out : out[i].mode # "clear" /\ out[i].label = found[k].type
    <3> SUFFICES ASSUME NEW k \in more
                 PROVE  \E i \in DOMAIN out : out[i].mode # "clear" /\ out[i].label = found[k].type
      OBVIOUS
    <3>1. CASE k = n + 1
      BY <2>2, <2>5, <2>9, <3>1
    <3>2. CASE k \in kept
      <4>1. PICK i \in DOMAIN done.out : done.out[i].mode # "clear" /\ done.out[i].label = found[k].type
        BY <3>2 DEF Partly
      <4> QED
        BY <2>4, <2>5, <4>1
    <3> QED
      BY <3>1, <3>2
  <2>15. \A i \in DOMAIN out : out[i].mode # "clear" => \E k \in more : out[i].label = found[k].type
    <3> SUFFICES ASSUME NEW i \in DOMAIN out, out[i].mode # "clear"
                 PROVE  \E k \in more : out[i].label = found[k].type
      OBVIOUS
    <3>1. CASE out[i] = item
      BY <2>2, <2>8, <2>9, <3>1
    <3>2. CASE i \in DOMAIN plain
      <4>1. i \in DOMAIN done.out /\ out[i] = done.out[i]
        BY <2>4, <2>5, <3>2
      <4> QED
        BY <4>1 DEF Partly
    <3> QED
      BY <2>5, <3>1, <3>2
  <2>16. d.end \in Nat
    BY <1>1, <2>9
  <2> HIDE DEF more
  <2>17. Partly(found, n + 1, more, last)
    BY <2>5, <2>6, <2>8, <2>10, <2>11, <2>12, <2>13, <2>14, <2>15, <2>16 DEF Partly
  <2> QED
    BY <2>17 DEF last, d
<1> QED
  BY <1>2, <1>3

LEMMA ReplacementsRedact ==
    ASSUME NEW length \in Nat, NEW found, Placed(found, length), NEW modeOf,
           \A e \in ValidEntityTypes : modeOf[e] \in {"mask", "label"}
    PROVE  IsRedaction(ApplyReplacements(length, found, modeOf), found, length)
<1> DEFINE N == Len(found)
<1> DEFINE done == CHOOSE g : Solution(g, found, N, modeOf)
<1> DEFINE result == done[N].out \o Slice(done[N].cursor, length)
<1>1. N \in Nat /\ \A n \in 1 .. N : found[n] \in Spots(length)
  BY DEF Placed
<1>2. Solution(done, found, N, modeOf)
  <2>1. \E g : Solution(g, found, N, modeOf)
    BY <1>1, DoneIsDefined
  <2> QED
    BY <2>1
<1>3. ApplyReplacements(length, found, modeOf) = result
  BY DEF ApplyReplacements, Solution
<1> HIDE DEF done, result
<1>4. done[0] = [out |-> <<>>, cursor |-> 0]
  BY <1>1, <1>2 DEF Solution
<1>5. \A n \in Nat : n + 1 <= N =>
        done[n + 1] = Replaced(done[n], found[n + 1], modeOf[found[n + 1].type])
  <2> SUFFICES ASSUME NEW n \in Nat, n + 1 <= N
               PROVE  done[n + 1] = Replaced(done[n], found[n + 1], modeOf[found[n + 1].type])
    OBVIOUS
  <2>1. n + 1 \in 0 .. N /\ n + 1 # 0 /\ (n + 1) - 1 = n
    BY <1>1
  <2> QED
    BY <1>2, <2>1 DEF Solution
<1> DEFINE Good == {n \in Nat : n <= N => \E kept : Partly(found, n, kept, done[n])}
<1>6. 0 \in Good
  <2>1. Partly(found, 0, {}, done[0])
    BY <1>4 DEF Partly, Ordered, InClear
  <2> QED
    BY <2>1
<1>7. ASSUME NEW n \in Nat, n \in Good PROVE n + 1 \in Good
  <2> SUFFICES ASSUME n + 1 <= N
               PROVE  \E kept : Partly(found, n + 1, kept, done[n + 1])
    OBVIOUS
  <2>1. PICK kept : Partly(found, n, kept, done[n])
    BY <1>1, <1>7
  <2>2. found[n + 1].type \in ValidEntityTypes
    BY <1>1 DEF Spots
  <2>3. modeOf[found[n + 1].type] \in {"mask", "label"}
    BY <2>2
  <2> QED
    BY <1>1, <1>5, <2>1, <2>3, ReplacedGoesOn
<1>8. N \in Good
  <2> HIDE DEF Good
  <2> QED
    BY <1>1, <1>6, <1>7, Induction
<1>9. PICK kept : Partly(found, N, kept, done[N])
  BY <1>1, <1>8
<1> DEFINE before == done[N].out
<1> DEFINE cursor == done[N].cursor
<1>10. \A n \in 1 .. N : /\ found[n].start \in Nat /\ found[n].end \in Nat /\ found[n].start < found[n].end
                         /\ found[n].end <= length
  BY <1>1 DEF Spots
<1>11. kept \subseteq 1 .. N /\ before \in Seq(OutItem) /\ cursor \in Nat
  BY <1>9 DEF Partly
<1>12. cursor <= length /\ \A k \in kept : found[k].end <= cursor
  <2>1. CASE cursor = 0 /\ kept = {}
    BY <2>1
  <2>2. CASE \E k \in kept : cursor = found[k].end /\ \A j \in kept : j <= k
    <3>1. PICK t \in kept : cursor = found[t].end /\ \A j \in kept : j <= t
      BY <2>2
    <3>2. ASSUME NEW k \in kept PROVE found[k].end <= cursor
      <4>1. k \in 1 .. N /\ t \in 1 .. N /\ (k = t \/ k < t)
        BY <1>11, <3>1
      <4>2. k < t => found[k].end <= found[t].start
        BY <1>9 DEF Partly
      <4> QED
        BY <1>10, <3>1, <4>1, <4>2
    <3> QED
      BY <1>10, <1>11, <3>1, <3>2
  <2> QED
    BY <1>9, <2>1, <2>2 DEF Partly
<1>13. \A p : p \in InClear(before) <=>
                p \in 0 .. (cursor - 1) /\ \A k \in kept : ~Covers(found[k], p)
  BY <1>9 DEF Partly
<1>14. Ordered(before) /\ \A p \in InClear(before) : p < cursor
  <2>1. Ordered(before)
    BY <1>9 DEF Partly
  <2> HIDE DEF before, cursor
  <2> QED
    BY <1>11, <1>13, <2>1
<1>15. /\ result \in Seq(OutItem) /\ Ordered(result)
       /\ \A p : p \in InClear(result) <=> p \in InClear(before) \/ p \in cursor .. (length - 1)
       /\ \A i \in DOMAIN before : i \in DOMAIN result /\ result[i] = before[i]
       /\ \A i \in DOMAIN result : result[i].mode # "clear" => i \in DOMAIN before
  <2>1. result = before \o Slice(cursor, length)
    BY DEF result
  <2> HIDE DEF before, cursor
  <2> QED
    BY <1>11, <1>12, <1>14, <2>1, ClearGoesOn
<1>16. /\ \A k \in kept : \E i \in DOMAIN before :
            before[i].mode # "clear" /\ before[i].label = found[k].type
       /\ \A i \in DOMAIN before :
            before[i].mode # "clear" => \E k \in kept : before[i].label = found[k].type
       /\ \A m \in 1 .. N : m \in kept \/ \E k \in kept : k < m /\ Covers(found[k], found[m].start)
  BY <1>9 DEF Partly
<1> HIDE DEF before, cursor
<1>17. \A k \in kept : k \in 1 .. N /\ \A p \in InClear(result) : ~Covers(found[k], p)
  <2> SUFFICES ASSUME NEW k \in kept, NEW p \in InClear(result), Covers(found[k], p)
               PROVE  FALSE
    BY <1>11
  <2>1. p \notin InClear(before)
    BY <1>13
  <2>2. p \in cursor .. (length - 1)
    BY <1>15, <2>1
  <2>3. p < found[k].end /\ found[k].end <= cursor /\ found[k].end \in Nat
    BY <1>10, <1>11, <1>12 DEF Covers
  <2> QED
    BY <1>11, <2>2, <2>3
<1>18. DOMAIN found = 1 .. N
  BY DEF Placed
<1> HIDE DEF N
<1>19. InClear(result) \subseteq 0 .. (length - 1)
  BY <1>11, <1>12, <1>13, <1>15
<1>20. \A p \in 0 .. (length - 1) : p \in InClear(result) \/ \E n \in DOMAIN found : Covers(found[n], p)
  <2> SUFFICES ASSUME NEW p \in 0 .. (length - 1), \A n \in DOMAIN found : ~Covers(found[n], p)
               PROVE  p \in InClear(result)
    OBVIOUS
  <2>1. \A k \in kept : ~Covers(found[k], p)
    BY <1>11, <1>18
  <2>2. p \in 0 .. (cursor - 1) \/ p \in cursor .. (length - 1)
    BY <1>11, <1>12
  <2> QED
    BY <1>13, <1>15, <2>1, <2>2
<1>21. ASSUME NEW n \in DOMAIN found
       PROVE  /\ found[n].start \notin InClear(result)
              /\ ~BeginsInside(found, n) =>
                   /\ \A p \in InClear(result) : ~Covers(found[n], p)
                   /\ \E i \in DOMAIN result : result[i].mode # "clear" /\ result[i].label = found[n].type
  <2>1. CASE n \in kept
    <3>1. Covers(found[n], found[n].start)
      BY <1>10, <1>18 DEF Covers
    <3>2. found[n].start \notin InClear(result)
      BY <1>17, <2>1, <3>1
    <3> QED
      BY <1>15, <1>16, <1>17, <2>1, <3>2
  <2>2. CASE n \notin kept
    <3>1. PICK k \in kept : k < n /\ Covers(found[k], found[n].start)
      BY <1>16, <1>18, <2>2
    <3>2. BeginsInside(found, n)
      BY <1>11, <1>18, <3>1 DEF BeginsInside
    <3> QED
      BY <1>17, <3>1, <3>2
  <2> QED
    BY <2>1, <2>2
<1>22. \A i \in DOMAIN result :
         result[i].mode # "clear" => \E n \in DOMAIN found : result[i].label = found[n].type
  <2> SUFFICES ASSUME NEW i \in DOMAIN result, result[i].mode # "clear"
               PROVE  \E n \in DOMAIN found : result[i].label = found[n].type
    OBVIOUS
  <2>1. i \in DOMAIN before /\ result[i] = before[i]
    BY <1>15
  <2>2. PICK k \in kept : before[i].label = found[k].type
    BY <1>16, <2>1
  <2> QED
    BY <1>11, <1>18, <2>1, <2>2
<1> QED
  BY <1>3, <1>15, <1>19, <1>20, <1>21, <1>22 DEF IsRedaction, Ordered

\* The labels of some types in a text, and the detections of these types.
LabelsOf(out, E) == {i \in DOMAIN out : out[i].mode # "clear" /\ out[i].label \in E}
DetectionsOf(found, n, E) == {m \in 1 .. n : found[m].type \in E}

LEMMA SliceHasNoLabels ==
    ASSUME NEW out \in Seq(OutItem), NEW from \in Nat, NEW to \in Nat, from <= to, NEW E
    PROVE  LET new == out \o Slice(from, to)
           IN new \in Seq(OutItem) /\ LabelsOf(new, E) = LabelsOf(out, E)
<1> DEFINE new == out \o Slice(from, to)
<1>1. /\ new \in Seq(OutItem) /\ Len(new) = Len(out) + (to - from)
      /\ \A i \in 1 .. Len(out) : new[i] = out[i]
      /\ \A i \in 1 .. (to - from) : new[Len(out) + i] = Clear(from + i - 1)
  BY SliceOfText
<1> HIDE DEF new
<1>2. Len(out) \in Nat /\ DOMAIN out = 1 .. Len(out) /\ DOMAIN new = 1 .. Len(new)
  BY <1>1
<1>3. ASSUME NEW i \in DOMAIN new, i \notin DOMAIN out PROVE new[i].mode = "clear"
  <2>1. i - Len(out) \in 1 .. (to - from) /\ i = Len(out) + (i - Len(out))
    BY <1>1, <1>2, <1>3
  <2>2. PICK k \in 1 .. (to - from) : i = Len(out) + k
    BY <2>1
  <2>3. new[i] = Clear(from + k - 1)
    BY <1>1, <2>2
  <2> QED
    BY <2>3 DEF Clear
<1>4. \A i \in DOMAIN out : i \in DOMAIN new /\ new[i] = out[i]
  BY <1>1, <1>2
<1> QED
  BY <1>1, <1>3, <1>4 DEF LabelsOf, new

LEMMA LabelIsOneMore ==
    ASSUME NEW out \in Seq(OutItem), NEW item \in OutItem, item.mode # "clear", NEW E
    PROVE  LET new == out \o <<item>>
           IN /\ new \in Seq(OutItem) /\ Len(out) + 1 \notin LabelsOf(out, E)
              /\ LabelsOf(new, E) = LabelsOf(out, E) \cup (IF item.label \in E THEN {Len(out) + 1} ELSE {})
<1> DEFINE new == out \o <<item>>
<1>1. /\ new \in Seq(OutItem) /\ Len(new) = Len(out) + 1 /\ Len(out) \in Nat
      /\ \A i \in 1 .. Len(out) : new[i] = out[i]
      /\ new[Len(out) + 1] = item
  OBVIOUS
<1> HIDE DEF new
<1>2. DOMAIN out = 1 .. Len(out) /\ DOMAIN new = 1 .. Len(out) + 1
  BY <1>1
<1>3. \A i : i \in DOMAIN new <=> i \in DOMAIN out \/ i = Len(out) + 1
  BY <1>1, <1>2
<1>4. \A i \in DOMAIN out : new[i] = out[i]
  BY <1>1, <1>2
<1>5. Len(out) + 1 \notin DOMAIN out
  BY <1>1, <1>2
<1> DEFINE last == Len(out) + 1
<1>6. new[last] = item
  BY <1>1
<1> HIDE DEF last
<1>7. \A i : i \in LabelsOf(new, E) <=> i \in LabelsOf(out, E) \/ (item.label \in E /\ i = last)
  BY <1>3, <1>4, <1>5, <1>6 DEF LabelsOf, last
<1>8. last \notin LabelsOf(out, E)
  BY <1>5 DEF LabelsOf, last
<1>9. LabelsOf(new, E) = LabelsOf(out, E) \cup (IF item.label \in E THEN {last} ELSE {})
  BY <1>7
<1> QED
  BY <1>1, <1>8, <1>9 DEF new, last

\* When none begins inside an earlier one, each of the first n detections has
\* been replaced by its label.
Counted(found, n, done, E) ==
    /\ done.out \in Seq(OutItem)
    /\ done.cursor = IF n = 0 THEN 0 ELSE found[n].end
    /\ IsFiniteSet(LabelsOf(done.out, E))
    /\ Cardinality(LabelsOf(done.out, E)) = Cardinality(DetectionsOf(found, n, E))

LEMMA CountGoesOn ==
    ASSUME NEW length \in Nat, NEW found, Placed(found, length), NEW n \in Nat, n + 1 <= Len(found),
           \A m \in DOMAIN found : ~BeginsInside(found, m),
           NEW E, NEW done, Counted(found, n, done, E), NEW mode \in {"mask", "label"}
    PROVE  Counted(found, n + 1, Replaced(done, found[n + 1], mode), E)
<1> DEFINE d == found[n + 1]
<1> DEFINE last == Replaced(done, d, mode)
<1>1. DOMAIN found = 1 .. Len(found) /\ Len(found) \in Nat /\ n + 1 \in DOMAIN found
  BY DEF Placed
<1>2. \A k \in DOMAIN found : /\ found[k].start \in Nat /\ found[k].end \in Nat
                              /\ found[k].start < found[k].end /\ found[k].type \in Nat
  BY <1>1 DEF Placed, Spots, ValidEntityTypes, ACCOUNT_ID, EMAIL, GENERIC_ID
<1>3. done.cursor \in Nat /\ done.cursor <= d.start
  <2>1. CASE n = 0
    <3>1. done.cursor = 0
      BY <2>1 DEF Counted
    <3> QED
      BY <1>1, <1>2, <3>1
  <2>2. CASE n # 0
    <3>1. n \in DOMAIN found /\ n < n + 1
      BY <1>1, <2>2
    <3>2. ~Covers(found[n], d.start)
      BY <1>1, <3>1 DEF BeginsInside
    <3>3. found[n].start <= d.start
      BY <1>1, <3>1 DEF Placed
    <3>4. found[n].end <= d.start /\ found[n].end \in Nat
      BY <1>1, <1>2, <3>1, <3>2, <3>3 DEF Covers
    <3>5. done.cursor = found[n].end
      BY <2>2 DEF Counted
    <3> QED
      BY <3>4, <3>5
  <2> QED
    BY <2>1, <2>2
<1>4. d.start \in Nat /\ d.end \in Nat /\ d.type \in Nat
  BY <1>1, <1>2
<1> DEFINE item == Label(d.type, mode)
<1> DEFINE plain == done.out \o Slice(done.cursor, d.start)
<1> DEFINE out == plain \o <<item>>
<1>5. last = [out |-> out, cursor |-> d.end]
  BY <1>3, <1>4 DEF Replaced
<1>6. item \in OutItem /\ item.mode # "clear" /\ item.label = d.type
  BY <1>4 DEF Label, OutItem
<1>7. done.out \in Seq(OutItem)
  BY DEF Counted
<1>8. plain \in Seq(OutItem) /\ LabelsOf(plain, E) = LabelsOf(done.out, E)
  <2> DEFINE text == done.out
  <2> DEFINE from == done.cursor
  <2> DEFINE to == d.start
  <2>1. text \in Seq(OutItem) /\ from \in Nat /\ to \in Nat /\ from <= to
    BY <1>3, <1>4, <1>7
  <2> HIDE DEF text, from, to, d
  <2>2. /\ text \o Slice(from, to) \in Seq(OutItem)
        /\ LabelsOf(text \o Slice(from, to), E) = LabelsOf(text, E)
    BY <2>1, SliceHasNoLabels
  <2> QED
    BY <2>2 DEF text, from, to
<1> HIDE DEF item, plain
<1>9. /\ out \in Seq(OutItem) /\ Len(plain) + 1 \notin LabelsOf(plain, E)
      /\ LabelsOf(out, E) = LabelsOf(plain, E) \cup (IF item.label \in E THEN {Len(plain) + 1} ELSE {})
  BY <1>6, <1>8, LabelIsOneMore
<1> DEFINE before == LabelsOf(done.out, E)
<1> DEFINE counted == DetectionsOf(found, n, E)
<1>10. IsFiniteSet(before) /\ Cardinality(before) = Cardinality(counted)
  BY DEF Counted
<1>11. IsFiniteSet(counted) /\ n + 1 \notin counted
  <2>1. counted \subseteq 1 .. n
    BY DEF DetectionsOf
  <2>2. n + 1 \notin counted
    BY <2>1
  <2> HIDE DEF counted
  <2>3. IsFiniteSet(1 .. n)
    BY FS_Interval
  <2>4. IsFiniteSet(counted)
    BY <2>1, <2>3, FS_Subset
  <2> QED
    BY <2>2, <2>4
<1>12. DetectionsOf(found, n + 1, E) = counted \cup (IF d.type \in E THEN {n + 1} ELSE {})
  BY DEF DetectionsOf
<1> DEFINE next == n + 1
<1> DEFINE end == Len(plain) + 1
<1> HIDE DEF out, before, counted, d, next, end
<1>13. /\ IsFiniteSet(LabelsOf(out, E))
       /\ Cardinality(LabelsOf(out, E)) = Cardinality(DetectionsOf(found, n + 1, E))
  <2>1. CASE d.type \in E
    <3>1. LabelsOf(out, E) = before \cup {end} /\ end \notin before
      BY <1>6, <1>8, <1>9, <2>1 DEF before, end
    <3>2. DetectionsOf(found, n + 1, E) = counted \cup {next} /\ next \notin counted
      BY <1>11, <1>12, <2>1 DEF next
    <3>3. IsFiniteSet(before \cup {end}) /\ Cardinality(before \cup {end}) = Cardinality(before) + 1
      BY <1>10, <3>1, FS_AddElement
    <3>4. Cardinality(counted \cup {next}) = Cardinality(counted) + 1
      BY <1>11, <3>2, FS_AddElement
    <3> QED
      BY <1>10, <3>1, <3>2, <3>3, <3>4
  <2>2. CASE d.type \notin E
    <3>1. LabelsOf(out, E) = before
      BY <1>6, <1>8, <1>9, <2>2 DEF before
    <3>2. DetectionsOf(found, n + 1, E) = counted
      BY <1>12, <2>2
    <3> QED
      BY <1>10, <3>1, <3>2
  <2> QED
    BY <2>1, <2>2
<1>14. last.out = out /\ last.cursor = d.end
  BY <1>5
<1> HIDE DEF last
<1>15. Counted(found, n + 1, last, E)
  BY <1>9, <1>13, <1>14 DEF Counted, d, out
<1> QED
  BY <1>15 DEF last, d

\* Where no detection begins inside an earlier one, the text has a label for each.
LEMMA ReplacementsAreCounted ==
    ASSUME NEW length \in Nat, NEW found, Placed(found, length), NEW modeOf,
           \A e \in ValidEntityTypes : modeOf[e] \in {"mask", "label"},
           \A m \in DOMAIN found : ~BeginsInside(found, m), NEW E
    PROVE  Cardinality(LabelsOf(ApplyReplacements(length, found, modeOf), E)) =
             Cardinality(DetectionsOf(found, Len(found), E))
<1> DEFINE N == Len(found)
<1> DEFINE done == CHOOSE g : Solution(g, found, N, modeOf)
<1> DEFINE result == done[N].out \o Slice(done[N].cursor, length)
<1>1. N \in Nat /\ \A n \in 1 .. N : found[n] \in Spots(length)
  BY DEF Placed
<1>2. Solution(done, found, N, modeOf)
  <2>1. \E g : Solution(g, found, N, modeOf)
    BY <1>1, DoneIsDefined
  <2> QED
    BY <2>1
<1>3. ApplyReplacements(length, found, modeOf) = result
  BY DEF ApplyReplacements, Solution
<1> HIDE DEF done, result
<1>4. done[0] = [out |-> <<>>, cursor |-> 0]
  BY <1>1, <1>2 DEF Solution
<1>5. \A n \in Nat : n + 1 <= N =>
        done[n + 1] = Replaced(done[n], found[n + 1], modeOf[found[n + 1].type])
  <2> SUFFICES ASSUME NEW n \in Nat, n + 1 <= N
               PROVE  done[n + 1] = Replaced(done[n], found[n + 1], modeOf[found[n + 1].type])
    OBVIOUS
  <2>1. n + 1 \in 0 .. N /\ n + 1 # 0 /\ (n + 1) - 1 = n
    BY <1>1
  <2> QED
    BY <1>2, <2>1 DEF Solution
<1> DEFINE Good == {n \in Nat : n <= N => Counted(found, n, done[n], E)}
<1>6. 0 \in Good
  <2>1. LabelsOf(<<>>, E) = {} /\ DetectionsOf(found, 0, E) = {} /\ <<>> \in Seq(OutItem)
    BY DEF LabelsOf, DetectionsOf
  <2>2. IsFiniteSet({})
    BY FS_EmptySet
  <2>3. done[0].out = <<>> /\ done[0].cursor = 0
    BY <1>4
  <2>4. /\ LabelsOf(done[0].out, E) = {} /\ done[0].out \in Seq(OutItem)
        /\ Cardinality(LabelsOf(done[0].out, E)) = Cardinality(DetectionsOf(found, 0, E))
    BY <2>1, <2>3
  <2>5. Counted(found, 0, done[0], E)
    BY <2>2, <2>3, <2>4 DEF Counted
  <2> QED
    BY <2>5
<1>7. ASSUME NEW n \in Nat, n \in Good PROVE n + 1 \in Good
  <2> SUFFICES ASSUME n + 1 <= N
               PROVE  Counted(found, n + 1, done[n + 1], E)
    OBVIOUS
  <2>1. Counted(found, n, done[n], E)
    BY <1>1, <1>7
  <2>2. found[n + 1].type \in ValidEntityTypes
    BY <1>1 DEF Spots
  <2>3. modeOf[found[n + 1].type] \in {"mask", "label"}
    BY <2>2
  <2> QED
    BY <1>1, <1>5, <2>1, <2>3, CountGoesOn
<1>8. N \in Good
  <2> HIDE DEF Good
  <2> QED
    BY <1>1, <1>6, <1>7, Induction
<1>9. Counted(found, N, done[N], E)
  BY <1>1, <1>8
<1>10. \A n \in 1 .. N : found[n].end \in Nat /\ found[n].end <= length
  BY <1>1 DEF Spots
<1>11. done[N].cursor \in Nat /\ done[N].cursor <= length /\ done[N].out \in Seq(OutItem)
  <2>1. CASE N = 0
    BY <1>9, <2>1 DEF Counted
  <2>2. CASE N # 0
    <3>1. N \in 1 .. N
      BY <1>1, <2>2
    <3> QED
      BY <1>9, <1>10, <2>2, <3>1 DEF Counted
  <2> QED
    BY <2>1, <2>2
<1> DEFINE before == done[N].out
<1> DEFINE cursor == done[N].cursor
<1>12. before \in Seq(OutItem) /\ cursor \in Nat /\ cursor <= length
  BY <1>11
<1>13. LabelsOf(result, E) = LabelsOf(before, E)
  <2>1. result = before \o Slice(cursor, length)
    BY DEF result
  <2> HIDE DEF before, cursor
  <2> QED
    BY <1>12, <2>1, SliceHasNoLabels
<1> QED
  BY <1>3, <1>9, <1>13 DEF Counted

\* What is detected in a finite set of hits is in the order of its places.
LEMMA DetectionsArePlaced ==
    ASSUME NEW length \in Nat, NEW hits, hits \subseteq Spots(length), IsFiniteSet(hits), NEW policy
    PROVE  Placed(Detections(hits, policy), length)
<1> DEFINE all == PatternDetections(hits, policy) \cup SemanticDetections(hits, policy)
<1> DEFINE kept == {d \in all : ~\E o \in all : /\ SameSpot(o, d)
                                               /\ o.layer = "pattern"
                                               /\ d.layer = "semantic"}
<1> DEFINE before == {p \in kept \X kept : ComesBefore(p[1], p[2])}
<1> DEFINE found == InOrder(kept, before)
<1>1. Detections(hits, policy) = found
  BY Zenon DEF Detections, Deduped
<1>2. kept \subseteq Spots(length) /\ IsFiniteSet(kept)
  <2>1. kept \subseteq hits
    BY DEF PatternDetections, SemanticDetections
  <2> QED
    BY <2>1, FS_Subset
<1>3. \A a, b \in kept : a # b => ~SameSpot(a, b)
  <2> SUFFICES ASSUME NEW a \in kept, NEW b \in kept, a # b, SameSpot(a, b)
               PROVE  FALSE
    OBVIOUS
  <2>1. a \in Spots(length) /\ b \in Spots(length)
    BY <1>2
  <2>2. a.layer # b.layer /\ a.layer \in {"pattern", "semantic"} /\ b.layer \in {"pattern", "semantic"}
    BY <2>1 DEF Spots, SameSpot
  <2>3. SameSpot(b, a)
    BY DEF SameSpot
  <2> QED
    BY <2>2, <2>3
<1>4. \A a, b \in kept : <<a, b>> \in before <=> ComesBefore(a, b)
  OBVIOUS
<1> HIDE DEF kept, before
<1>5. \A a \in kept : a.start \in Nat /\ a.end \in Nat /\ a.type \in Nat
  BY <1>2 DEF Spots, ValidEntityTypes, ACCOUNT_ID, EMAIL, GENERIC_ID
<1>6. Orders(before, kept)
  <2>1. \A a, b \in kept : ComesBefore(a, b) \/ ComesBefore(b, a) \/ a = b
    BY <1>3, <1>5 DEF ComesBefore, SameSpot
  <2>2. \A a \in kept : ~ComesBefore(a, a)
    BY <1>5 DEF ComesBefore
  <2>3. \A a, b, c \in kept : ComesBefore(a, b) /\ ComesBefore(b, c) => ComesBefore(a, c)
    BY <1>5 DEF ComesBefore
  <2> QED
    BY <1>4, <2>1, <2>2, <2>3 DEF Orders
<1> DEFINE n == Cardinality(kept)
<1>7. n \in Nat /\ Lists(found, n, kept, before)
  BY <1>2, <1>6, InOrderIsExact
<1> HIDE DEF n, found
<1>8. found \in [1 .. n -> kept]
  BY <1>7 DEF Lists
<1>9. Len(found) = n /\ found \in [1 .. Len(found) -> Spots(length)]
  <2>1. found \in [1 .. n -> Spots(length)]
    BY <1>2, <1>8
  <2>2. found \in Seq(Spots(length)) /\ DOMAIN found = 1 .. n
    BY <1>7, <2>1
  <2> QED
    BY <1>7, <2>1, <2>2
<1>10. \A i, j \in 1 .. n : i < j => found[i].start <= found[j].start
  <2> SUFFICES ASSUME NEW i \in 1 .. n, NEW j \in 1 .. n, i < j
               PROVE  found[i].start <= found[j].start
    OBVIOUS
  <2>1. found[i] \in kept /\ found[j] \in kept /\ <<found[i], found[j]>> \in before
    BY <1>7, <1>8 DEF Lists
  <2>2. ComesBefore(found[i], found[j])
    BY <1>4, <2>1
  <2> QED
    BY <1>5, <2>1, <2>2 DEF ComesBefore
<1> QED
  BY <1>1, <1>7, <1>9, <1>10 DEF Placed

\* The text that the pipeline returns is a redaction of what was detected, and the
\* metadata of the text counts its labels where no detection begins inside an
\* earlier one: for a text of any length, any finite set of hits in it, overlapping
\* or not, and any policy.
THEOREM SanitizedTextsAreRedacted ==
    ASSUME NEW length \in Nat, NEW hits, hits \subseteq Spots(length), IsFiniteSet(hits),
           NEW policy, policy.default \in ValidModes
    PROVE  RedactionIsReported(length, hits, policy)
<1> DEFINE found == Detections(hits, policy)
<1> DEFINE mode == [e \in ValidEntityTypes |->
                      IF policy.default # "rewrite" THEN policy.default
                      ELSE IF ModeFor(policy, e) = "label" THEN "label" ELSE "mask"]
<1> DEFINE out == ApplyReplacements(length, found, mode)
<1> DEFINE told == ImpactMetadata(hits, policy)
<1> DEFINE types == {found[i].type : i \in DOMAIN found}
<1> DEFINE ofType(e) == {i \in DOMAIN found : found[i].type = e}
<1> DEFINE labels(e) == {i \in Labels(out) : out[i].label = e}
<1>1. Redacted(length, hits, policy) = out
  BY DEF Redacted
<1>2. \A e \in ValidEntityTypes : mode[e] \in {"mask", "label"}
  BY DEF ValidModes
<1>3. Placed(found, length)
  BY DetectionsArePlaced
<1>4. told.total = Len(found) /\ told.byEntity = [e \in types |-> Cardinality(ofType(e))]
  BY DEF ImpactMetadata
<1>5. DOMAIN told.byEntity = types /\ \A e \in types : told.byEntity[e] = Cardinality(ofType(e))
  BY <1>4
<1>6. told = ImpactMetadata(hits, policy) /\ found = Detections(hits, policy)
  OBVIOUS
<1> HIDE DEF found, mode, told
<1>7. IsRedaction(out, found, length)
  BY <1>2, <1>3, ReplacementsRedact
<1>8. DOMAIN found = 1 .. Len(found) /\ Len(found) \in Nat
  BY <1>3 DEF Placed
<1>9. ASSUME \A n \in DOMAIN found : ~BeginsInside(found, n)
      PROVE  /\ Cardinality(Labels(out)) = told.total
             /\ \A e \in DOMAIN told.byEntity : Cardinality(labels(e)) = told.byEntity[e]
  <2>1. \A E : Cardinality(LabelsOf(out, E)) = Cardinality(DetectionsOf(found, Len(found), E))
    BY <1>2, <1>3, <1>9, ReplacementsAreCounted
  <2> HIDE DEF out
  <2>2. Cardinality(Labels(out)) = told.total
    <3> DEFINE E == types \cup {out[i].label : i \in DOMAIN out}
    <3>1. LabelsOf(out, E) = Labels(out)
      BY DEF LabelsOf, Labels
    <3>2. DetectionsOf(found, Len(found), E) = 1 .. Len(found)
      BY <1>8 DEF DetectionsOf
    <3> HIDE DEF E
    <3>3. Cardinality(1 .. Len(found)) = Len(found)
      <4> DEFINE N == Len(found)
      <4>1. N \in Nat
        BY <1>8
      <4> HIDE DEF N
      <4>2. Cardinality(1 .. N) = N
        BY <4>1, FS_Interval
      <4> QED
        BY <4>2 DEF N
    <3>4. Cardinality(Labels(out)) = Len(found)
      BY <2>1, <3>1, <3>2, <3>3
    <3> QED
      BY <1>4, <3>4
  <2>3. ASSUME NEW e \in DOMAIN told.byEntity PROVE Cardinality(labels(e)) = told.byEntity[e]
    <3>1. LabelsOf(out, {e}) = labels(e)
      BY DEF LabelsOf, Labels
    <3>2. DetectionsOf(found, Len(found), {e}) = ofType(e)
      BY <1>8 DEF DetectionsOf
    <3>3. told.byEntity[e] = Cardinality(ofType(e))
      BY <1>5
    <3> HIDE DEF ofType, labels
    <3>4. Cardinality(labels(e)) = Cardinality(ofType(e))
      BY <2>1, <3>1, <3>2
    <3> QED
      BY <3>3, <3>4
  <2> QED
    BY <2>2, <2>3
<1> HIDE DEF out
<1> QED
  BY <1>1, <1>6, <1>7, <1>9 DEF RedactionIsReported

(* Zero-risk mode, and the guards after the sanitizer *)

\* An option, and what a policy may be given as.
Options(S) == {{}} \cup {{v} : v \in S}
Modes == UNION {[types -> ValidModes] : types \in SUBSET ValidEntityTypes}
RawPolicies ==
    [rules : Options(SUBSET ValidEntityTypes), types : Options(SUBSET ValidEntityTypes), modes : Modes,
     default : Options(ValidModes), sensitivity : Options(ValidSensitivity),
     preset : Options(DOMAIN Presets)]

LEMMA GivenIsTaken ==
    ASSUME NEW option, NEW other
    PROVE  /\ \A v : option = {v} => OrElse(option, other) = v
           /\ option = {} => OrElse(option, other) = other
  BY DEF OrElse, NotGiven

\* A policy, or what is written of one, with two other columns.
Changed(record, x, y) == [record EXCEPT !.sensitivity = x, !.default = y]

LEMMA RawIsChanged ==
    ASSUME NEW raw, NEW rules, NEW types, NEW modes, NEW default, NEW sensitivity, NEW preset, NEW x, NEW y,
           raw = [rules |-> rules, types |-> types, modes |-> modes, default |-> default,
                  sensitivity |-> sensitivity, preset |-> preset]
    PROVE  Changed(raw, x, y) =
             [rules |-> rules, types |-> types, modes |-> modes, default |-> y,
              sensitivity |-> x, preset |-> preset]
<1>1. [raw EXCEPT !.sensitivity = x, !.default = y] \in
        [rules : {rules}, types : {types}, modes : {modes}, default : {y},
         sensitivity : {x}, preset : {preset}]
  OBVIOUS
<1>2. \A z \in [rules : {rules}, types : {types}, modes : {modes}, default : {y},
                sensitivity : {x}, preset : {preset}] :
        z = [rules |-> rules, types |-> types, modes |-> modes, default |-> y,
             sensitivity |-> x, preset |-> preset]
  OBVIOUS
<1> QED
  BY <1>1, <1>2 DEF Changed

LEMMA PolicyIsChanged ==
    ASSUME NEW policy, NEW types, NEW modes, NEW default, NEW sensitivity, NEW preset, NEW x, NEW y,
           policy = [types |-> types, modes |-> modes, default |-> default,
                     sensitivity |-> sensitivity, preset |-> preset]
    PROVE  Changed(policy, x, y) =
             [types |-> types, modes |-> modes, default |-> y, sensitivity |-> x, preset |-> preset]
<1>1. [policy EXCEPT !.sensitivity = x, !.default = y] \in
        [types : {types}, modes : {modes}, default : {y}, sensitivity : {x}, preset : {preset}]
  OBVIOUS
<1>2. \A z \in [types : {types}, modes : {modes}, default : {y}, sensitivity : {x}, preset : {preset}] :
        z = [types |-> types, modes |-> modes, default |-> y, sensitivity |-> x, preset |-> preset]
  OBVIOUS
<1> QED
  BY <1>1, <1>2 DEF Changed

LEMMA PolicyIsWritten ==
    ASSUME NEW types, NEW modes, NEW default, NEW sensitivity, NEW preset
    PROVE  PolicyToDict([types |-> types, modes |-> modes, default |-> default,
                             sensitivity |-> sensitivity, preset |-> preset]) =
             [rules |-> {}, types |-> {types}, modes |-> modes, default |-> {default},
              sensitivity |-> {sensitivity}, preset |-> preset]
  BY DEF PolicyToDict, NotGiven, Given

LEMMA StrictIsWritten ==
    ASSUME NEW policy, NEW types, NEW modes, NEW default, NEW sensitivity, NEW preset,
           policy = [types |-> types, modes |-> modes, default |-> default,
                     sensitivity |-> sensitivity, preset |-> preset]
    PROVE  Changed(PolicyToDict(policy), {"strict"}, {"mask"}) =
             [rules |-> {}, types |-> {types}, modes |-> modes, default |-> {"mask"},
              sensitivity |-> {"strict"}, preset |-> preset]
<1> DEFINE dict == PolicyToDict(policy)
<1>1. dict = [rules |-> {}, types |-> {types}, modes |-> modes, default |-> {default},
              sensitivity |-> {sensitivity}, preset |-> preset]
  BY PolicyIsWritten
<1> HIDE DEF dict
<1>2. \A r, t, d, s, x, y :
        dict = [rules |-> r, types |-> t, modes |-> modes, default |-> d, sensitivity |-> s, preset |-> preset]
        => Changed(dict, x, y) =
             [rules |-> r, types |-> t, modes |-> modes, default |-> y, sensitivity |-> x, preset |-> preset]
  BY RawIsChanged
<1>3. Changed(dict, {"strict"}, {"mask"}) =
        [rules |-> {}, types |-> {types}, modes |-> modes, default |-> {"mask"},
         sensitivity |-> {"strict"}, preset |-> preset]
  BY <1>1, <1>2
<1> QED
  BY <1>3 DEF dict

\* A policy that is written as it stands, without its old form.
Written(raw) ==
    \E types, modes, preset :
      /\ raw = [rules |-> {}, types |-> {types}, modes |-> modes, default |-> {"mask"},
                sensitivity |-> {"strict"}, preset |-> preset]
      /\ types \subseteq ValidEntityTypes /\ preset \subseteq DOMAIN Presets
      /\ modes = [e \in DOMAIN modes |-> modes[e]] /\ \A e \in DOMAIN modes : modes[e] \in ValidModes
      /\ DOMAIN modes \subseteq types /\ DOMAIN BasePolicy(raw).modes \cap types \subseteq DOMAIN modes

LEMMA WrittenStays ==
    ASSUME NEW raw, Written(raw)
    PROVE  /\ PolicyIsValid(raw)
           /\ PolicyFromRaw(raw) = [types |-> OrElse(raw.types, {}), modes |-> raw.modes,
                                        default |-> "mask", sensitivity |-> "strict", preset |-> raw.preset]
           /\ PolicyToDict(PolicyFromRaw(raw)) = raw
<1>1. PICK types, modes, preset :
      /\ raw = [rules |-> {}, types |-> {types}, modes |-> modes, default |-> {"mask"},
                sensitivity |-> {"strict"}, preset |-> preset]
      /\ types \subseteq ValidEntityTypes /\ preset \subseteq DOMAIN Presets
      /\ modes = [e \in DOMAIN modes |-> modes[e]] /\ \A e \in DOMAIN modes : modes[e] \in ValidModes
      /\ DOMAIN modes \subseteq types /\ DOMAIN BasePolicy(raw).modes \cap types \subseteq DOMAIN modes
  BY DEF Written
<1>2. Adapted(raw) = raw
  BY <1>1 DEF Adapted, NotGiven
<1>3. /\ raw.types = {types} /\ raw.modes = modes /\ raw.default = {"mask"}
      /\ raw.sensitivity = {"strict"} /\ raw.preset = preset
  BY <1>1
<1>4. \A other : /\ OrElse(raw.types, other) = types /\ OrElse(raw.default, other) = "mask"
                 /\ OrElse(raw.sensitivity, other) = "strict"
  BY <1>3, GivenIsTaken
<1>5. types \subseteq ValidEntityTypes /\ DOMAIN modes \subseteq types /\ preset \subseteq DOMAIN Presets
  BY <1>1
<1>6. PolicyIsValid(raw)
  <2>1. \A e \in DOMAIN raw.modes : raw.modes[e] \in ValidModes
    BY <1>1, <1>3
  <2>2. raw.default \subseteq ValidModes /\ raw.sensitivity \subseteq ValidSensitivity
    BY <1>3 DEF ValidModes, ValidSensitivity
  <2>3. raw.preset \subseteq DOMAIN Presets /\ DOMAIN raw.modes \subseteq ValidEntityTypes
    BY <1>3, <1>5
  <2>4. OrElse(raw.types, {}) \subseteq ValidEntityTypes
    BY <1>4, <1>5
  <2> QED
    BY <1>2, <2>1, <2>2, <2>3, <2>4 DEF PolicyIsValid
<1> DEFINE base == BasePolicy(raw)
<1> DEFINE named == DOMAIN modes \cup DOMAIN base.modes
<1> DEFINE merged == [e \in named \cap types |-> IF e \in DOMAIN modes THEN modes[e] ELSE base.modes[e]]
<1>7. merged = modes
  <2>1. named \cap types = DOMAIN modes
    BY <1>1
  <2>2. merged = [e \in DOMAIN modes |-> modes[e]]
    BY <2>1
  <2> QED
    BY <1>1, <2>2
<1>8. PolicyFromRaw(raw) = [types |-> types, modes |-> merged, default |-> "mask",
                                sensitivity |-> "strict", preset |-> preset]
  BY <1>2, <1>3, <1>4 DEF PolicyFromRaw
<1> HIDE DEF merged
<1>9. PolicyFromRaw(raw) = [types |-> types, modes |-> modes, default |-> "mask",
                                sensitivity |-> "strict", preset |-> preset]
  BY <1>7, <1>8
<1>10. PolicyToDict(PolicyFromRaw(raw)) = raw
  BY <1>1, <1>9, PolicyIsWritten
<1> QED
  BY <1>6, <1>9, <1>10, <1>3, <1>4

\* The policy of a raw one.
LEMMA PolicyIsTyped ==
    ASSUME NEW given \in RawPolicies
    PROVE  \E types, modes, default, sensitivity :
             /\ PolicyFromRaw(given) = [types |-> types, modes |-> modes, default |-> default,
                                            sensitivity |-> sensitivity, preset |-> given.preset]
             /\ types \subseteq ValidEntityTypes
             /\ modes = [e \in DOMAIN modes |-> modes[e]]
             /\ \A e \in DOMAIN modes : modes[e] \in ValidModes
             /\ DOMAIN modes \subseteq types
             /\ DOMAIN BasePolicy(given).modes \cap types \subseteq DOMAIN modes
<1> DEFINE raw == Adapted(given)
<1> DEFINE base == BasePolicy(raw)
<1> DEFINE types == OrElse(raw.types, base.types)
<1> DEFINE named == DOMAIN raw.modes \cup DOMAIN base.modes
<1> DEFINE modes == [e \in named \cap types |-> IF e \in DOMAIN raw.modes THEN raw.modes[e] ELSE base.modes[e]]
<1>1. PolicyFromRaw(given) =
        [types |-> types, modes |-> modes, default |-> OrElse(raw.default, base.default),
         sensitivity |-> OrElse(raw.sensitivity, base.sensitivity), preset |-> raw.preset]
  BY DEF PolicyFromRaw
<1>2. /\ raw.types \in Options(SUBSET ValidEntityTypes) /\ raw.preset = given.preset
      /\ \A e \in DOMAIN raw.modes : raw.modes[e] \in ValidModes
  <2>1. CASE raw = given
    <3>1. given.types \in Options(SUBSET ValidEntityTypes) /\ given.modes \in Modes
      BY DEF RawPolicies
    <3> QED
      BY <2>1, <3>1 DEF Modes
  <2>2. CASE raw = [given EXCEPT !.rules = NotGiven, !.types = given.rules, !.default = Given("mask"),
                                 !.modes = NoModes, !.sensitivity = Given("balanced")]
    <3>1. given.rules \in Options(SUBSET ValidEntityTypes)
      BY DEF RawPolicies
    <3>2. raw.types = given.rules /\ raw.modes = NoModes /\ raw.preset = given.preset
      BY <2>2 DEF RawPolicies
    <3>3. DOMAIN NoModes = {}
      BY DEF NoModes
    <3> QED
      BY <3>1, <3>2, <3>3
  <2> QED
    BY <2>1, <2>2 DEF Adapted
<1>3. given.preset \in Options(DOMAIN Presets)
  BY DEF RawPolicies
<1>4. base = BasePolicy(given)
  BY <1>2 DEF BasePolicy
<1>5. /\ base.types \subseteq ValidEntityTypes
      /\ \A e \in DOMAIN base.modes : base.modes[e] \in ValidModes
  <2>1. CASE base = DefaultPolicy
    BY <2>1 DEF DefaultPolicy, NoModes, ValidEntityTypes
  <2>2. CASE base = Presets.banking
    BY <2>2 DEF Presets, NoModes, ValidEntityTypes
  <2>3. CASE base = Presets.healthcare
    BY <2>3 DEF Presets, NoModes, ValidEntityTypes, ValidModes
  <2>4. CASE given.preset = {}
    <3>1. base = DefaultPolicy
      BY <1>4, <2>4 DEF BasePolicy, NotGiven
    <3> QED
      BY <2>1, <3>1
  <2>5. CASE \E v \in DOMAIN Presets : given.preset = {v}
    <3>1. PICK v \in DOMAIN Presets : given.preset = {v}
      BY <2>5
    <3>2. v = "banking" \/ v = "healthcare"
      BY DEF Presets
    <3>3. OrElse(given.preset, "") = v /\ given.preset # NotGiven
      BY <3>1, GivenIsTaken DEF NotGiven
    <3>4. base = Presets[v]
      BY <1>4, <3>3 DEF BasePolicy
    <3>5. base = Presets.banking \/ base = Presets.healthcare
      BY <3>2, <3>4
    <3> QED
      BY <2>2, <2>3, <3>5
  <2> QED
    BY <1>3, <2>4, <2>5 DEF Options
<1>6. types \subseteq ValidEntityTypes
  <2>1. CASE raw.types = {}
    <3>1. types = base.types
      BY <2>1, GivenIsTaken
    <3> QED
      BY <1>5, <3>1
  <2>2. CASE \E v \in SUBSET ValidEntityTypes : raw.types = {v}
    <3>1. PICK v \in SUBSET ValidEntityTypes : raw.types = {v}
      BY <2>2
    <3>2. types = v
      BY <3>1, GivenIsTaken
    <3> QED
      BY <3>2
  <2> QED
    BY <1>2, <2>1, <2>2 DEF Options
<1> HIDE DEF raw, base, types
<1>8. \A e \in DOMAIN modes : modes[e] \in ValidModes
  BY <1>2, <1>5
<1>9. DOMAIN modes = named \cap types /\ modes = [e \in DOMAIN modes |-> modes[e]]
  OBVIOUS
<1>10. DOMAIN BasePolicy(given).modes \cap types \subseteq DOMAIN modes
  BY <1>4
<1> HIDE DEF modes
<1> QED
  BY <1>1, <1>2, <1>6, <1>8, <1>9, <1>10

\* Its default mode is a mode.
LEMMA PolicyMasks ==
    ASSUME NEW given \in RawPolicies
    PROVE  PolicyFromRaw(given).default \in ValidModes
<1> DEFINE raw == Adapted(given)
<1> DEFINE base == BasePolicy(raw)
<1>1. PolicyFromRaw(given).default = OrElse(raw.default, base.default)
  BY DEF PolicyFromRaw
<1>2. raw.default \in Options(ValidModes) /\ raw.preset = given.preset
  <2>1. given.default \in Options(ValidModes)
    BY DEF RawPolicies
  <2>2. CASE raw = given
    BY <2>1, <2>2
  <2>3. CASE raw = [given EXCEPT !.rules = NotGiven, !.types = given.rules, !.default = Given("mask"),
                                 !.modes = NoModes, !.sensitivity = Given("balanced")]
    <3>1. raw.default = Given("mask") /\ raw.preset = given.preset
      BY <2>3 DEF RawPolicies
    <3>2. raw.default = {"mask"}
      BY <3>1 DEF Given
    <3> QED
      BY <3>1, <3>2 DEF Options, ValidModes
  <2> QED
    BY <2>2, <2>3 DEF Adapted
<1>3. given.preset \in Options(DOMAIN Presets)
  BY DEF RawPolicies
<1>4. base = BasePolicy(given)
  BY <1>2 DEF BasePolicy
<1>5. base.default \in ValidModes
  <2>1. CASE given.preset = {}
    <3>1. base = DefaultPolicy
      BY <1>4, <2>1 DEF BasePolicy, NotGiven
    <3> QED
      BY <3>1 DEF DefaultPolicy, ValidModes
  <2>2. CASE \E v \in DOMAIN Presets : given.preset = {v}
    <3>1. PICK v \in DOMAIN Presets : given.preset = {v}
      BY <2>2
    <3>2. v = "banking" \/ v = "healthcare"
      BY DEF Presets
    <3>3. OrElse(given.preset, "") = v /\ given.preset # NotGiven
      BY <3>1, GivenIsTaken DEF NotGiven
    <3>4. base = Presets[v]
      BY <1>4, <3>3 DEF BasePolicy
    <3>5. Presets[v].default \in ValidModes
      BY <3>2 DEF Presets, ValidModes
    <3> QED
      BY <3>4, <3>5
  <2> QED
    BY <1>3, <2>1, <2>2 DEF Options
<1> HIDE DEF raw, base
<1> QED
  BY <1>1, <1>2, <1>5, GivenIsTaken DEF Options

\* Zero-risk mode leaves a version with a valid, strict and masking policy for the
\* types it had, with the modes of single types it had, and turning it on again
\* changes nothing: for every version whose policy is one the API accepts, in the
\* old form or the new one, with a preset or without.
THEOREM ZeroRiskIsStrict ==
    ASSUME NEW version, version.sanitizer \in RawPolicies
    PROVE  IsZeroRisk(ZeroRisk(version), version)
<1> DEFINE given == version.sanitizer
<1> DEFINE stored == ZeroRisk(version)
<1> DEFINE flags == {"drift_monitoring", "snapshot_replay", "audit_events", "zero_risk"}
<1>1. PICK types, modes, default, sensitivity :
        /\ PolicyFromRaw(given) = [types |-> types, modes |-> modes, default |-> default,
                                       sensitivity |-> sensitivity, preset |-> given.preset]
        /\ types \subseteq ValidEntityTypes
        /\ modes = [e \in DOMAIN modes |-> modes[e]]
        /\ \A e \in DOMAIN modes : modes[e] \in ValidModes
        /\ DOMAIN modes \subseteq types
        /\ DOMAIN BasePolicy(given).modes \cap types \subseteq DOMAIN modes
  BY PolicyIsTyped
<1> DEFINE raw == [rules |-> {}, types |-> {types}, modes |-> modes, default |-> {"mask"},
                   sensitivity |-> {"strict"}, preset |-> given.preset]
<1>2. stored = [sanitizer |-> raw, threshold |-> 90, governance |-> version.governance \cup flags]
  <2> DEFINE policy == PolicyFromRaw(given)
  <2>1. policy = [types |-> types, modes |-> modes, default |-> default,
                  sensitivity |-> sensitivity, preset |-> given.preset]
    BY <1>1
  <2>2. stored = [sanitizer |-> Changed(PolicyToDict(policy), {"strict"}, {"mask"}),
                  threshold |-> 90, governance |-> version.governance \cup flags]
    BY DEF ZeroRisk, Given, Changed
  <2> HIDE DEF policy, stored
  <2>3. Changed(PolicyToDict(policy), {"strict"}, {"mask"}) = raw
    BY <2>1, StrictIsWritten
  <2> QED
    BY <2>2, <2>3
<1>3. /\ raw.types = {types} /\ raw.modes = modes /\ raw.preset = given.preset
      /\ given.preset \subseteq DOMAIN Presets
  <2>1. given.preset \in Options(DOMAIN Presets)
    BY DEF RawPolicies
  <2> QED
    BY <2>1 DEF Options
<1>4. Written(raw)
  <2>1. BasePolicy(raw) = BasePolicy(given)
    BY <1>3 DEF BasePolicy
  <2> DEFINE preset == given.preset
  <2>2. /\ raw = [rules |-> {}, types |-> {types}, modes |-> modes, default |-> {"mask"},
                  sensitivity |-> {"strict"}, preset |-> preset]
        /\ preset \subseteq DOMAIN Presets
    BY <1>3
  <2>3. DOMAIN BasePolicy(raw).modes \cap types \subseteq DOMAIN modes
    BY <1>1, <2>1
  <2> HIDE DEF raw, preset
  <2>4. /\ raw = [rules |-> {}, types |-> {types}, modes |-> modes, default |-> {"mask"},
                  sensitivity |-> {"strict"}, preset |-> preset]
        /\ types \subseteq ValidEntityTypes /\ preset \subseteq DOMAIN Presets
        /\ modes = [e \in DOMAIN modes |-> modes[e]] /\ \A e \in DOMAIN modes : modes[e] \in ValidModes
        /\ DOMAIN modes \subseteq types /\ DOMAIN BasePolicy(raw).modes \cap types \subseteq DOMAIN modes
    BY <1>1, <2>2, <2>3
  <2> QED
    BY <2>4, Zenon DEF Written
<1>5. /\ PolicyIsValid(raw)
      /\ PolicyFromRaw(raw) = [types |-> OrElse(raw.types, {}), modes |-> raw.modes,
                                   default |-> "mask", sensitivity |-> "strict", preset |-> raw.preset]
      /\ PolicyToDict(PolicyFromRaw(raw)) = raw
  BY <1>4, WrittenStays
<1>6. PolicyFromRaw(raw) = Changed(PolicyFromRaw(given), "strict", "mask")
  <2>1. OrElse(raw.types, {}) = types
    BY <1>3, GivenIsTaken
  <2> DEFINE policy == PolicyFromRaw(given)
  <2>3. policy = [types |-> types, modes |-> modes, default |-> default,
                  sensitivity |-> sensitivity, preset |-> given.preset]
    BY <1>1
  <2> HIDE DEF policy
  <2>2. Changed(policy, "strict", "mask") =
          [types |-> types, modes |-> modes, default |-> "mask", sensitivity |-> "strict",
           preset |-> given.preset]
    BY <2>3, PolicyIsChanged
  <2> HIDE DEF raw
  <2> QED
    BY <1>3, <1>5, <2>1, <2>2 DEF policy
<1>7. Changed(raw, {"strict"}, {"mask"}) = raw
  <2>1. raw = [rules |-> {}, types |-> {types}, modes |-> modes, default |-> {"mask"},
               sensitivity |-> {"strict"}, preset |-> given.preset]
    OBVIOUS
  <2> HIDE DEF raw
  <2> QED
    BY <2>1, RawIsChanged
<1> HIDE DEF raw, stored
<1>8. stored.sanitizer = raw /\ stored.governance \cup flags = stored.governance
  BY <1>2
<1>9. ZeroRisk(stored) = stored
  <2>1. ZeroRisk(stored) =
          [sanitizer |-> raw, threshold |-> 90, governance |-> stored.governance \cup flags]
    BY <1>5, <1>7, <1>8 DEF ZeroRisk, Given, Changed
  <2>2. stored.governance = version.governance \cup flags
    BY <1>2
  <2> QED
    BY <1>2, <1>8, <2>1, <2>2
<1> QED
  BY <1>5, <1>6, <1>8, <1>9 DEF IsZeroRisk, stored, Changed

\* The lists of another step never let in an input that would be refused without
\* them, for every set of keys, every policy and any two steps' lists.
THEOREM ListsOnlyTighten ==
    ASSUME NEW keys, NEW policy, NEW step, NEW more
    PROVE  OnlyTightens(keys, policy, step, more)
<1> DEFINE both == [required |-> step.required \cup more.required,
                    forbidden |-> step.forbidden \cup more.forbidden]
<1> SUFFICES ASSUME PassesGuards(keys, policy, both)
             PROVE  /\ PassesGuards(keys, policy, step)
                    /\ PassesGuards(keys, policy, more)
                    /\ \A key \in keys : ToSet(key) \cap (policy.forbidden \cup both.forbidden) = {}
  BY DEF OnlyTightens
<1>1. /\ MergedRequiredFields(policy, step) \subseteq MergedRequiredFields(policy, both)
      /\ MergedRequiredFields(policy, more) \subseteq MergedRequiredFields(policy, both)
      /\ MergedForbiddenFields(policy, step) \subseteq MergedForbiddenFields(policy, both)
      /\ MergedForbiddenFields(policy, more) \subseteq MergedForbiddenFields(policy, both)
      /\ policy.forbidden \cup both.forbidden \subseteq MergedForbiddenFields(policy, both)
  BY DEF MergedRequiredFields, MergedForbiddenFields
<1> HIDE DEF both
<1>2. keys \subseteq SanitizedKeys(keys)
  BY DEF SanitizedKeys
<1> QED
  BY <1>1, <1>2 DEF PassesGuards

\* What the sanitizer promises, of every version whose policy the API accepts, of
\* every text with finitely many hits in it, and of all lists of the guards.
LEMMA SanitizerStaysSound ==
    ASSUME NEW text, text.length \in Nat, text.hits \subseteq Spots(text.length), IsFiniteSet(text.hits),
           NEW version, version.sanitizer \in RawPolicies, NEW guards
    PROVE  SanitizerIsSound(text, version, guards)
<1> DEFINE policy == PolicyFromRaw(version.sanitizer)
<1>1. policy.default \in ValidModes
  BY PolicyMasks
<1> HIDE DEF policy
<1>2. RedactionIsReported(text.length, text.hits, policy)
  BY <1>1, SanitizedTextsAreRedacted
<1>3. IsZeroRisk(ZeroRisk(version), version)
  BY ZeroRiskIsStrict
<1>4. OnlyTightens(guards.keys, guards.policy, guards.step, guards.more)
  BY ListsOnlyTighten
<1> QED
  BY <1>2, <1>3, <1>4 DEF SanitizerIsSound, policy

\* The sanitizer keeps its promise on every set of such samples.
THEOREM SanitizingIsSound ==
    ASSUME NEW Inputs,
           \A v \in Inputs : /\ v.text.length \in Nat /\ v.text.hits \subseteq Spots(v.text.length)
                            /\ IsFiniteSet(v.text.hits) /\ v.version.sanitizer \in RawPolicies
    PROVE  DrawsFrom("sanitizing", Inputs) => []SanitizingHolds
<1> DEFINE Inv == Drawn("sanitizing") => sample.of \in Inputs
<1>1. NothingDrawn => Inv
  BY DEF NothingDrawn, Drawn
<1>2. Inv /\ [NothingDrawn /\ \E v \in Inputs : Draw("sanitizing", v)]_sample => Inv'
  BY DEF Drawn, Draw
<1>3. Inv => SanitizingHolds
  BY SanitizerStaysSound DEF SanitizingHolds
<1> HIDE DEF Inv
<1> QED
  BY <1>1, <1>2, <1>3, PTL DEF DrawsFrom

----------------------------------------------------------------------------
(* Context and patches *)

\* Files and the pairs of them that are in the order of _sort_key.
AreFiles(S) == \A f \in S : f.lines \in Nat /\ f.snippet \in Nat /\ f.imports \in Nat /\ f.path \in Nat
Distinct(files) == \A i, j \in DOMAIN files : files[i].path = files[j].path => i = j
KeyPairs(task, S) == {p \in S \X S : ComesFirst(task, p[1], p[2])}

LEMMA ScoresAreNumbers ==
    ASSUME NEW task, NEW f
    PROVE  FileScore(task, f) \in Nat
<1> DEFINE points(holds, n) == IF holds THEN n ELSE 0
<1>1. \A holds : \A n \in Nat : points(holds, n) \in Nat
  OBVIOUS
<1>2. FileScore(task, f) =
        points(f.module = task, 5) + points(f.imported, 4) + points(f.pattern, 2)
          + points(f.flask, 6) + points(f.used, 1)
  BY DEF FileScore
<1> HIDE DEF points
<1>3. /\ points(f.module = task, 5) \in Nat /\ points(f.imported, 4) \in Nat
      /\ points(f.pattern, 2) \in Nat /\ points(f.flask, 6) \in Nat /\ points(f.used, 1) \in Nat
  BY <1>1
<1> QED
  BY <1>2, <1>3

LEMMA KeysCompare ==
    ASSUME NEW task, NEW a, NEW b
    PROVE  ComesFirst(task, a, b) <=>
             LET x == -FileScore(task, a)
                 y == -FileScore(task, b)
             IN \/ x < y
                \/ x = y /\ a.lines < b.lines
                \/ x = y /\ a.lines = b.lines /\ a.imports < b.imports
                \/ x = y /\ a.lines = b.lines /\ a.imports = b.imports /\ a.path < b.path
<1> DEFINE x == SortKey(task, a)
<1> DEFINE y == SortKey(task, b)
<1>1. ComesFirst(task, a, b) <=> \E i \in 1 .. 4 : x[i] < y[i] /\ \A j \in 1 .. (i - 1) : x[j] = y[j]
  BY DEF ComesFirst
<1>2. /\ x[1] = -FileScore(task, a) /\ x[2] = a.lines /\ x[3] = a.imports /\ x[4] = a.path
      /\ y[1] = -FileScore(task, b) /\ y[2] = b.lines /\ y[3] = b.imports /\ y[4] = b.path
  BY DEF SortKey
<1> HIDE DEF x, y
<1>3. (\E i \in 1 .. 4 : x[i] < y[i] /\ \A j \in 1 .. (i - 1) : x[j] = y[j]) <=>
        \/ x[1] < y[1]
        \/ x[1] = y[1] /\ x[2] < y[2]
        \/ x[1] = y[1] /\ x[2] = y[2] /\ x[3] < y[3]
        \/ x[1] = y[1] /\ x[2] = y[2] /\ x[3] = y[3] /\ x[4] < y[4]
  <2> DEFINE first(i) == x[i] < y[i] /\ \A j \in 1 .. (i - 1) : x[j] = y[j]
  <2>1. (\E i \in 1 .. 4 : first(i)) <=> first(1) \/ first(2) \/ first(3) \/ first(4)
    <3> HIDE DEF first
    <3>1. 1 .. 4 = {1, 2, 3, 4}
      OBVIOUS
    <3> QED
      BY <3>1
  <2>2. first(1) <=> x[1] < y[1]
    OBVIOUS
  <2>3. first(2) <=> x[1] = y[1] /\ x[2] < y[2]
    <3>1. 1 .. (2 - 1) = {1}
      OBVIOUS
    <3> QED
      BY <3>1
  <2>4. first(3) <=> x[1] = y[1] /\ x[2] = y[2] /\ x[3] < y[3]
    <3>1. 1 .. (3 - 1) = {1, 2}
      OBVIOUS
    <3> QED
      BY <3>1
  <2>5. first(4) <=> x[1] = y[1] /\ x[2] = y[2] /\ x[3] = y[3] /\ x[4] < y[4]
    <3>1. 1 .. (4 - 1) = {1, 2, 3}
      OBVIOUS
    <3> QED
      BY <3>1
  <2> QED
    BY <2>1, <2>2, <2>3, <2>4, <2>5
<1> QED
  BY <1>1, <1>2, <1>3

LEMMA KeysAreOrdered ==
    ASSUME NEW task, NEW S, AreFiles(S), \A f, g \in S : f.path = g.path => f = g
    PROVE  /\ Orders(KeyPairs(task, S), S)
           /\ \A f, g \in S : <<f, g>> \in KeyPairs(task, S) => FileScore(task, g) <= FileScore(task, f)
<1> DEFINE less == KeyPairs(task, S)
<1>1. \A f, g \in S : <<f, g>> \in less <=>
        \/ -FileScore(task, f) < -FileScore(task, g)
        \/ -FileScore(task, f) = -FileScore(task, g) /\ f.lines < g.lines
        \/ -FileScore(task, f) = -FileScore(task, g) /\ f.lines = g.lines /\ f.imports < g.imports
        \/ /\ -FileScore(task, f) = -FileScore(task, g) /\ f.lines = g.lines
           /\ f.imports = g.imports /\ f.path < g.path
  BY KeysCompare DEF KeyPairs
<1>2. \A f \in S : FileScore(task, f) \in Nat /\ f.lines \in Nat /\ f.imports \in Nat /\ f.path \in Nat
  BY ScoresAreNumbers DEF AreFiles
<1> HIDE DEF less
<1>3. \A f, g \in S : <<f, g>> \in less \/ <<g, f>> \in less \/ f = g
  <2> SUFFICES ASSUME NEW f \in S, NEW g \in S, <<f, g>> \notin less, <<g, f>> \notin less
               PROVE  f.path = g.path
    OBVIOUS
  <2> DEFINE p == FileScore(task, f)
  <2> DEFINE q == FileScore(task, g)
  <2>1. p \in Nat /\ q \in Nat
    BY <1>2
  <2>2. ~(-p < -q) /\ ~(-p = -q /\ f.lines < g.lines)
        /\ ~(-p = -q /\ f.lines = g.lines /\ f.imports < g.imports)
        /\ ~(-p = -q /\ f.lines = g.lines /\ f.imports = g.imports /\ f.path < g.path)
    BY <1>1
  <2>3. ~(-q < -p) /\ ~(-q = -p /\ g.lines < f.lines)
        /\ ~(-q = -p /\ g.lines = f.lines /\ g.imports < f.imports)
        /\ ~(-q = -p /\ g.lines = f.lines /\ g.imports = f.imports /\ g.path < f.path)
    BY <1>1
  <2> HIDE DEF p, q
  <2> QED
    BY <1>2, <2>1, <2>2, <2>3
<1>4. \A f \in S : <<f, f>> \notin less
  BY <1>1, <1>2
<1>5. \A f, g, h \in S : <<f, g>> \in less /\ <<g, h>> \in less => <<f, h>> \in less
  <2> SUFFICES ASSUME NEW f \in S, NEW g \in S, NEW h \in S, <<f, g>> \in less, <<g, h>> \in less
               PROVE  <<f, h>> \in less
    OBVIOUS
  <2> DEFINE p == FileScore(task, f)
  <2> DEFINE q == FileScore(task, g)
  <2> DEFINE r == FileScore(task, h)
  <2>1. p \in Nat /\ q \in Nat /\ r \in Nat
    BY <1>2
  <2> HIDE DEF p, q, r
  <2>2. \/ -p < -q
        \/ -p = -q /\ f.lines < g.lines
        \/ -p = -q /\ f.lines = g.lines /\ f.imports < g.imports
        \/ -p = -q /\ f.lines = g.lines /\ f.imports = g.imports /\ f.path < g.path
    BY <1>1 DEF p, q
  <2>3. \/ -q < -r
        \/ -q = -r /\ g.lines < h.lines
        \/ -q = -r /\ g.lines = h.lines /\ g.imports < h.imports
        \/ -q = -r /\ g.lines = h.lines /\ g.imports = h.imports /\ g.path < h.path
    BY <1>1 DEF q, r
  <2>4. \/ -p < -r
        \/ -p = -r /\ f.lines < h.lines
        \/ -p = -r /\ f.lines = h.lines /\ f.imports < h.imports
        \/ -p = -r /\ f.lines = h.lines /\ f.imports = h.imports /\ f.path < h.path
    BY <1>2, <2>1, <2>2, <2>3
  <2> QED
    BY <1>1, <2>4 DEF p, r
<1>6. \A f, g \in S : <<f, g>> \in less => FileScore(task, g) <= FileScore(task, f)
  BY <1>1, <1>2
<1> QED
  BY <1>3, <1>4, <1>5, <1>6 DEF Orders, less

\* A stable sort of different items lists them in the order of their keys.
LEMMA StableSortLists ==
    ASSUME NEW n \in Nat, NEW S, NEW s \in [1 .. n -> S], NEW less, Orders(less, S),
           \A i, j \in 1 .. n : s[i] = s[j] => i = j, \A t \in S : \E i \in 1 .. n : s[i] = t,
           NEW before, \A i, j \in 1 .. n : <<i, j>> \in before <=> <<s[i], s[j]>> \in less
    PROVE  Lists(StablySorted(s, before), n, S, less)
<1> DEFINE places == 1 .. n
<1> DEFINE first == {p \in places \X places : p \in before \/ (<<p[2], p[1]>> \notin before /\ p[1] < p[2])}
<1> DEFINE order == InOrder(places, first)
<1>1. StablySorted(s, before) = [k \in DOMAIN order |-> s[order[k]]]
  BY DEF StablySorted
<1>2. \A i, j \in places : <<i, j>> \in first <=> <<s[i], s[j]>> \in less
  <2> SUFFICES ASSUME NEW i \in places, NEW j \in places
               PROVE  <<i, j>> \in first <=> <<s[i], s[j]>> \in less
    OBVIOUS
  <2>1. <<i, j>> \in first <=> <<i, j>> \in before \/ (<<j, i>> \notin before /\ i < j)
    OBVIOUS
  <2>2. <<i, j>> \notin before /\ <<j, i>> \notin before => i = j
    BY DEF Orders
  <2> QED
    BY <2>1, <2>2
<1> HIDE DEF first
<1>3. Orders(first, places)
  <2>1. \A i \in places : s[i] \in S
    OBVIOUS
  <2> QED
    BY <1>2, <2>1 DEF Orders
<1>4. IsFiniteSet(places) /\ Cardinality(places) = n
  BY FS_Interval
<1>5. Lists(order, n, places, first)
  BY <1>3, <1>4, InOrderIsExact
<1> HIDE DEF order
<1>6. order \in [1 .. n -> places]
  BY <1>5 DEF Lists
<1> DEFINE sorted == [k \in 1 .. n |-> s[order[k]]]
<1>7. StablySorted(s, before) = sorted /\ sorted \in [1 .. n -> S]
  BY <1>1, <1>6
<1>8. \A t \in S : \E k \in 1 .. n : sorted[k] = t
  <2> SUFFICES ASSUME NEW t \in S PROVE \E k \in 1 .. n : sorted[k] = t
    OBVIOUS
  <2>1. PICK i \in places : s[i] = t
    OBVIOUS
  <2>2. PICK k \in 1 .. n : order[k] = i
    BY <1>5 DEF Lists
  <2> QED
    BY <2>1, <2>2
<1>9. \A i, j \in 1 .. n : i < j => <<sorted[i], sorted[j]>> \in less
  <2> SUFFICES ASSUME NEW i \in 1 .. n, NEW j \in 1 .. n, i < j
               PROVE  <<sorted[i], sorted[j]>> \in less
    OBVIOUS
  <2>1. <<order[i], order[j]>> \in first /\ order[i] \in places /\ order[j] \in places
    BY <1>5 DEF Lists
  <2> QED
    BY <1>2, <2>1
<1> QED
  BY <1>7, <1>8, <1>9 DEF Lists

LEMMA ListsAreUnique ==
    ASSUME NEW n \in Nat, NEW S, NEW less, Orders(less, S), NEW p, Lists(p, n, S, less),
           NEW q, Lists(q, n, S, less)
    PROVE  p = q
<1> DEFINE Bad == {i \in 1 .. n : p[i] # q[i]}
<1>1. p \in [1 .. n -> S] /\ q \in [1 .. n -> S]
  BY DEF Lists
<1>2. ASSUME NEW u, NEW v, Lists(u, n, S, less), Lists(v, n, S, less), NEW m \in 1 .. n,
             u[m] # v[m], \A k \in 1 .. (m - 1) : u[k] = v[k]
      PROVE  <<u[m], v[m]>> \notin less
  <2> SUFFICES ASSUME <<u[m], v[m]>> \in less PROVE FALSE
    OBVIOUS
  <2>1. \A k \in 1 .. n : u[k] \in S /\ v[k] \in S
    BY <1>2 DEF Lists
  <2>2. PICK k \in 1 .. n : v[k] = u[m]
    BY <1>2, <2>1 DEF Lists
  <2>3. CASE k < m
    <3>1. u[k] = u[m] /\ <<u[k], u[m]>> \in less
      BY <1>2, <2>2, <2>3 DEF Lists
    <3> QED
      BY <2>1, <3>1 DEF Orders
  <2>4. CASE k > m
    <3>1. <<v[m], u[m]>> \in less
      BY <1>2, <2>2, <2>4 DEF Lists
    <3> QED
      BY <2>1, <3>1 DEF Orders
  <2>5. k # m
    BY <1>2, <2>2
  <2> QED
    BY <1>2, <2>2, <2>3, <2>4, <2>5
<1>3. CASE Bad # {}
  <2>0. Bad \subseteq Nat
    OBVIOUS
  <2> HIDE DEF Bad
  <2>1. PICK m \in Bad : \A k \in Bad : m <= k
    BY <1>3, <2>0, LeastNumber
  <2> USE DEF Bad
  <2>2. \A k \in 1 .. (m - 1) : p[k] = q[k]
    BY <2>1
  <2>3. <<p[m], q[m]>> \notin less /\ <<q[m], p[m]>> \notin less
    BY <1>2, <2>1, <2>2
  <2> QED
    BY <1>1, <2>1, <2>3 DEF Orders
<1> QED
  BY <1>1, <1>3

\* What select_files_for_task makes of distinct files: all of them by their keys.
Ranked(task, files) ==
    StablySorted(files, {p \in (DOMAIN files) \X (DOMAIN files) : ComesFirst(task, files[p[1]], files[p[2]])})
AtMost(n, m) == IF n < m THEN n ELSE m
ItemsOf(s) == {s[i] : i \in DOMAIN s}

LEMMA FilesAreRanked ==
    ASSUME NEW task, NEW F, AreFiles(F), NEW files \in Seq(F), Distinct(files)
    PROVE  /\ Lists(Ranked(task, files), Len(files), ItemsOf(files), KeyPairs(task, ItemsOf(files)))
           /\ Orders(KeyPairs(task, ItemsOf(files)), ItemsOf(files))
           /\ Ranked(task, files) \in Seq(F) /\ Len(Ranked(task, files)) = Len(files)
<1> DEFINE n == Len(files)
<1> DEFINE S == ItemsOf(files)
<1> DEFINE less == KeyPairs(task, S)
<1> DEFINE before == {p \in (DOMAIN files) \X (DOMAIN files) : ComesFirst(task, files[p[1]], files[p[2]])}
<1>1. n \in Nat /\ DOMAIN files = 1 .. n /\ S \subseteq F /\ files \in [1 .. n -> S]
  BY DEF ItemsOf
<1>2. /\ \A i, j \in 1 .. n : files[i] = files[j] => i = j
      /\ \A t \in S : \E i \in 1 .. n : files[i] = t
  BY <1>1 DEF Distinct, ItemsOf
<1>3. AreFiles(S) /\ \A f, g \in S : f.path = g.path => f = g
  BY <1>1 DEF AreFiles, Distinct, ItemsOf
<1>4. \A i, j \in 1 .. n : <<i, j>> \in before <=> <<files[i], files[j]>> \in less
  BY <1>1 DEF KeyPairs
<1>5. Ranked(task, files) = StablySorted(files, before)
  BY DEF Ranked
<1> HIDE DEF n, S, before
<1>6. Orders(less, S)
  BY <1>3, KeysAreOrdered
<1> HIDE DEF less
<1>7. Lists(StablySorted(files, before), n, S, less)
  BY <1>1, <1>2, <1>4, <1>6, StableSortLists
<1>8. Ranked(task, files) \in [1 .. n -> F]
  BY <1>1, <1>5, <1>7 DEF Lists
<1>9. Ranked(task, files) \in Seq(F) /\ Len(Ranked(task, files)) = n
  BY <1>1, <1>8
<1> QED
  BY <1>5, <1>6, <1>7, <1>9 DEF n, S, less

LEMMA SelectedFiles ==
    ASSUME NEW task, NEW F, AreFiles(F), NEW files \in Seq(F), Distinct(files), NEW maxFiles \in Nat
    PROVE  LET chosen == SelectFiles(task, files, maxFiles)
           IN /\ chosen \in Seq(F) /\ Len(chosen) = AtMost(Len(files), maxFiles)
              /\ \A k \in 1 .. Len(chosen) : chosen[k] = Ranked(task, files)[k]
<1> DEFINE ranked == Ranked(task, files)
<1> DEFINE m == AtMost(Len(files), maxFiles)
<1>1. ranked \in Seq(F) /\ Len(ranked) = Len(files)
  BY FilesAreRanked
<1>2. SelectFiles(task, files, maxFiles) = SubSeq(ranked, 1, m)
  BY <1>1 DEF SelectFiles, Ranked, AtMost
<1> HIDE DEF ranked
<1>3. m \in 0 .. Len(ranked)
  BY <1>1 DEF AtMost
<1> HIDE DEF m
<1> DEFINE chosen == SubSeq(ranked, 1, m)
<1>4. chosen \in Seq(F) /\ Len(chosen) = m /\ \A k \in 1 .. m : chosen[k] = ranked[k]
  BY <1>1, <1>3
<1> HIDE DEF chosen
<1> QED
  BY <1>2, <1>4 DEF ranked, m, chosen

LEMMA RearrangedFiles ==
    ASSUME NEW F, NEW files \in Seq(F), Distinct(files), NEW others \in Rearranged(files)
    PROVE  /\ others \in Seq(F) /\ Distinct(others)
           /\ Len(others) = Len(files) /\ ItemsOf(others) = ItemsOf(files)
<1> DEFINE places == 1 .. Len(files)
<1>1. Len(files) \in Nat /\ DOMAIN files = places /\ \A i \in places : files[i] \in F
  OBVIOUS
<1>2. PICK moved \in [places -> places] :
        /\ \A i, j \in places : moved[i] = moved[j] => i = j
        /\ others = [i \in places |-> files[moved[i]]]
  BY <1>1 DEF Rearranged
<1>3. others \in [places -> F]
  BY <1>1, <1>2
<1>4. others \in Seq(F) /\ Len(others) = Len(files) /\ DOMAIN others = places
  BY <1>1, <1>3
<1>5. Distinct(others)
  BY <1>1, <1>2, <1>4 DEF Distinct
<1>6. moved \in Surjection(places, places)
  <2>1. moved \in Injection(places, places)
    BY <1>2 DEF Injection, IsInjective
  <2>2. IsFiniteSet(places)
    BY <1>1, FS_Interval
  <2> QED
    BY <2>1, <2>2, FS_Injection
<1>7. \A j \in places : \E i \in places : moved[i] = j
  BY <1>6 DEF Surjection
<1>8. ItemsOf(others) = ItemsOf(files)
  <2>1. ItemsOf(others) = {files[moved[i]] : i \in places} /\ ItemsOf(files) = {files[i] : i \in places}
    BY <1>1, <1>2, <1>4 DEF ItemsOf
  <2>2. \A i \in places : moved[i] \in places
    BY <1>2
  <2> HIDE DEF places
  <2> QED
    BY <1>7, <2>1, <2>2
<1> QED
  BY <1>4, <1>5, <1>8

\* The best files are chosen, the same ones in whatever order they are found.
LEMMA BestAreChosen ==
    ASSUME NEW task, NEW F, AreFiles(F), NEW files \in Seq(F), Distinct(files), NEW maxFiles \in Nat
    PROVE  TheBestAreChosen(task, files, maxFiles)
<1> DEFINE n == Len(files)
<1> DEFINE S == ItemsOf(files)
<1> DEFINE less == KeyPairs(task, S)
<1> DEFINE ranked == Ranked(task, files)
<1> DEFINE chosen == SelectFiles(task, files, maxFiles)
<1>1. Lists(ranked, n, S, less) /\ Orders(less, S)
  BY FilesAreRanked
<1>2. /\ chosen \in Seq(F) /\ Len(chosen) = AtMost(n, maxFiles)
      /\ \A k \in 1 .. Len(chosen) : chosen[k] = ranked[k]
  BY SelectedFiles
<1>3. \A f, g \in S : <<f, g>> \in less => FileScore(task, g) <= FileScore(task, f)
  <2>1. AreFiles(S) /\ \A f, g \in S : f.path = g.path => f = g
    BY DEF AreFiles, Distinct, ItemsOf
  <2> QED
    BY <2>1, KeysAreOrdered
<1>4. n \in Nat /\ DOMAIN files = 1 .. n /\ \A i \in 1 .. n : files[i] \in S
  BY DEF ItemsOf
<1> HIDE DEF n, S, less, ranked, chosen
<1>5. ASSUME NEW others \in Rearranged(files) PROVE SelectFiles(task, others, maxFiles) = chosen
  <2> DEFINE theirs == Ranked(task, others)
  <2> DEFINE other == SelectFiles(task, others, maxFiles)
  <2>1. /\ others \in Seq(F) /\ Distinct(others)
        /\ Len(others) = n /\ ItemsOf(others) = S
    BY RearrangedFiles DEF n, S
  <2>2. Lists(theirs, n, S, less)
    BY <2>1, FilesAreRanked DEF less
  <2>3. /\ other \in Seq(F) /\ Len(other) = AtMost(n, maxFiles)
        /\ \A k \in 1 .. Len(other) : other[k] = theirs[k]
    BY <2>1, SelectedFiles
  <2> HIDE DEF theirs, other
  <2>4. theirs = ranked
    BY <1>1, <1>4, <2>2, ListsAreUnique
  <2>5. Len(other) = Len(chosen) /\ \A k \in 1 .. Len(chosen) : other[k] = chosen[k]
    BY <1>2, <2>3, <2>4
  <2>6. other = chosen
    BY <1>2, <2>3, <2>5
  <2> QED
    BY <2>6 DEF other
<1>6. Len(chosen) <= maxFiles /\ Len(chosen) <= n /\ Len(chosen) \in Nat
      /\ (Len(chosen) < n => Len(chosen) = maxFiles)
  BY <1>2, <1>4 DEF AtMost
<1>7. DOMAIN chosen = 1 .. Len(chosen)
  BY <1>2
<1>8. ASSUME NEW i \in DOMAIN files
      PROVE  \/ \E k \in DOMAIN chosen : chosen[k] = files[i]
             \/ /\ Len(chosen) = maxFiles
                /\ \A k \in DOMAIN chosen : FileScore(task, files[i]) <= FileScore(task, chosen[k])
  <2>1. files[i] \in S
    BY <1>4
  <2>2. PICK j \in 1 .. n : ranked[j] = files[i]
    BY <1>1, <2>1 DEF Lists
  <2>3. CASE j <= Len(chosen)
    <3>1. j \in DOMAIN chosen /\ chosen[j] = files[i]
      BY <1>2, <1>4, <1>6, <1>7, <2>2, <2>3
    <3> QED
      BY <3>1
  <2>4. CASE j > Len(chosen)
    <3>1. Len(chosen) = maxFiles
      BY <1>4, <1>6, <2>2, <2>4
    <3>2. ASSUME NEW k \in DOMAIN chosen
          PROVE  FileScore(task, files[i]) <= FileScore(task, chosen[k])
      <4>1. k \in 1 .. n /\ k < j /\ chosen[k] = ranked[k]
        BY <1>2, <1>4, <1>6, <1>7, <2>2, <2>4, <3>2
      <4>2. <<ranked[k], ranked[j]>> \in less /\ ranked[k] \in S /\ ranked[j] \in S
        BY <1>1, <2>2, <4>1 DEF Lists
      <4> QED
        BY <1>3, <2>2, <4>1, <4>2
    <3> QED
      BY <3>1, <3>2
  <2> QED
    BY <1>4, <1>6, <2>2, <2>3, <2>4
<1> QED
  BY <1>5, <1>6, <1>8 DEF TheBestAreChosen, chosen

\* A recursion whose steps stay in a set has a solution.
Takes(g, N, start, step) == g[0] = start /\ \A n \in 1 .. N : g[n] = step[<<n, g[n - 1]>>]

LEMMA StepsRun ==
    ASSUME NEW N \in Nat, NEW V, NEW start \in V, NEW step \in [(1 .. N) \X V -> V]
    PROVE  \E g \in [0 .. N -> V] : Takes(g, N, start, step)
<1> DEFINE S == {m \in Nat : m <= N => \E g \in [0 .. m -> V] : Takes(g, m, start, step)}
<1>1. 0 \in S
  <2>1. [n \in 0 .. 0 |-> start] \in [0 .. 0 -> V] /\ Takes([n \in 0 .. 0 |-> start], 0, start, step)
    BY DEF Takes
  <2> QED
    BY <2>1
<1>2. ASSUME NEW m \in Nat, m \in S PROVE m + 1 \in S
  <2> SUFFICES ASSUME m + 1 <= N PROVE \E g \in [0 .. m + 1 -> V] : Takes(g, m + 1, start, step)
    OBVIOUS
  <2>1. PICK g \in [0 .. m -> V] : Takes(g, m, start, step)
    BY <1>2
  <2> DEFINE last == step[<<m + 1, g[m]>>]
  <2>2. last \in V
    <3>1. m + 1 \in 1 .. N /\ g[m] \in V
      BY <2>1
    <3> QED
      BY <3>1
  <2> HIDE DEF last
  <2> DEFINE h == [n \in 0 .. m + 1 |-> IF n = m + 1 THEN last ELSE g[n]]
  <2>3. h \in [0 .. m + 1 -> V]
    BY <2>1, <2>2
  <2>4. h[0] = start /\ h[m + 1] = last /\ \A n \in 0 .. m : h[n] = g[n]
    BY <2>1 DEF Takes
  <2> HIDE DEF h
  <2>5. \A n \in 1 .. m + 1 : h[n] = step[<<n, h[n - 1]>>]
    <3> SUFFICES ASSUME NEW n \in 1 .. m + 1 PROVE h[n] = step[<<n, h[n - 1]>>]
      OBVIOUS
    <3>1. CASE n = m + 1
      <4>1. n - 1 = m /\ h[m] = g[m]
        BY <2>4, <3>1
      <4> QED
        BY <2>4, <3>1, <4>1 DEF last
    <3>2. CASE n # m + 1
      <4>1. n \in 1 .. m /\ n - 1 \in 0 .. m /\ n \in 0 .. m
        BY <3>2
      <4> QED
        BY <2>1, <2>4, <4>1 DEF Takes
    <3> QED
      BY <3>1, <3>2
  <2> QED
    BY <2>3, <2>4, <2>5 DEF Takes
<1>3. N \in S
  BY <1>1, <1>2, Induction
<1> QED
  BY <1>3

\* The sums of the first numbers of a list.
LEMMA SumsAddUp ==
    ASSUME NEW numbers \in Seq(Nat)
    PROVE  LET sums == Sums(numbers)
           IN /\ sums \in [0 .. Len(numbers) -> Nat] /\ sums[0] = 0
              /\ \A n \in 1 .. Len(numbers) : sums[n] = sums[n - 1] + numbers[n]
<1> DEFINE N == Len(numbers)
<1> DEFINE Is(g) == g = [n \in 0 .. N |-> IF n = 0 THEN 0 ELSE g[n - 1] + numbers[n]]
<1>1. N \in Nat /\ \A n \in 1 .. N : numbers[n] \in Nat
  OBVIOUS
<1>2. \E g : Is(g)
  <2> DEFINE step == [p \in (1 .. N) \X Nat |-> p[2] + numbers[p[1]]]
  <2>1. step \in [(1 .. N) \X Nat -> Nat]
    BY <1>1
  <2>2. \A n \in 1 .. N : \A v \in Nat : step[<<n, v>>] = v + numbers[n]
    OBVIOUS
  <2> HIDE DEF step, N
  <2>3. \E g \in [0 .. N -> Nat] : Takes(g, N, 0, step)
    <3>1. N \in Nat /\ 0 \in Nat
      BY <1>1
    <3> QED
      BY <2>1, <3>1, StepsRun
  <2>4. PICK g \in [0 .. N -> Nat] : g[0] = 0 /\ \A n \in 1 .. N : g[n] = step[<<n, g[n - 1]>>]
    BY <2>3 DEF Takes
  <2>5. ASSUME NEW n \in 1 .. N PROVE g[n] = g[n - 1] + numbers[n]
    <3>1. g[n - 1] \in Nat
      BY <1>1, <2>4
    <3> QED
      BY <2>2, <2>4, <3>1
  <2>6. \A n \in 0 .. N : g[n] = IF n = 0 THEN 0 ELSE g[n - 1] + numbers[n]
    BY <1>1, <2>4, <2>5
  <2>7. Is(g)
    BY <2>4, <2>6
  <2> QED
    BY <2>7
<1> DEFINE sums == CHOOSE g : Is(g)
<1>3. Sums(numbers) = sums
  BY DEF Sums
<1>4. Is(sums)
  BY <1>2
<1> HIDE DEF sums
<1>5. /\ DOMAIN sums = 0 .. N /\ sums[0] = 0 /\ sums = [n \in 0 .. N |-> sums[n]]
      /\ \A n \in 1 .. N : sums[n] = sums[n - 1] + numbers[n]
  BY <1>1, <1>4
<1> DEFINE S == {n \in Nat : n <= N => sums[n] \in Nat}
<1> HIDE DEF N
<1>6. 0 \in S
  BY <1>5
<1>7. ASSUME NEW n \in Nat, n \in S PROVE n + 1 \in S
  <2> SUFFICES ASSUME n + 1 <= N PROVE sums[n + 1] \in Nat
    OBVIOUS
  <2>1. n + 1 \in 1 .. N /\ (n + 1) - 1 = n /\ sums[n] \in Nat
    BY <1>1, <1>7
  <2>2. sums[n + 1] = sums[n] + numbers[n + 1] /\ numbers[n + 1] \in Nat
    BY <1>1, <1>5, <2>1
  <2> QED
    BY <2>1, <2>2
<1>8. \A n \in 0 .. N : sums[n] \in Nat
  <2>1. Nat \subseteq S
    <3> HIDE DEF S
    <3> QED
      BY <1>6, <1>7, Induction
  <2> QED
    BY <1>1, <2>1
<1> QED
  BY <1>3, <1>5, <1>8 DEF N

\* What has been taken of the selected files: the lines of the first of them.
Taken == [shown : Seq([path : Nat, lines : Nat]), total : Nat]

LEMMA SnippetIsTaken ==
    ASSUME NEW f, AreFiles({f}), NEW budget \in Nat, NEW taken \in Taken
    PROVE  LET next == TakeSnippet(taken, f, budget)
               lines == AtMost(SnippetSize(f), budget - taken.total)
           IN /\ next \in Taken /\ SnippetSize(f) \in Nat
              /\ taken.total >= budget => next = taken
              /\ taken.total < budget => /\ lines \in Nat /\ next.total = taken.total + lines
                                         /\ next.shown = Append(taken.shown, [path |-> f.path, lines |-> lines])
<1> DEFINE next == TakeSnippet(taken, f, budget)
<1> DEFINE lines == AtMost(SnippetSize(f), budget - taken.total)
<1> DEFINE item == [path |-> f.path, lines |-> lines]
<1>1. SnippetSize(f) \in Nat /\ f.path \in Nat
  BY DEF SnippetSize, AreFiles
<1>2. taken.shown \in Seq([path : Nat, lines : Nat]) /\ taken.total \in Nat
  BY DEF Taken
<1>3. CASE taken.total >= budget
  <2>1. next = taken
    BY <1>3 DEF TakeSnippet
  <2> QED
    BY <1>1, <1>2, <1>3, <2>1
<1>4. CASE taken.total < budget
  <2>1. lines \in Nat
    BY <1>1, <1>2, <1>4 DEF AtMost
  <2>2. next = [shown |-> Append(taken.shown, item), total |-> taken.total + lines]
    BY <1>2, <1>4 DEF TakeSnippet, AtMost
  <2>3. item \in [path : Nat, lines : Nat]
    BY <1>1, <2>1
  <2> HIDE DEF item, lines
  <2>4. Append(taken.shown, item) \in Seq([path : Nat, lines : Nat]) /\ taken.total + lines \in Nat
    BY <1>2, <2>1, <2>3
  <2>5. next \in Taken /\ next.shown = Append(taken.shown, item) /\ next.total = taken.total + lines
    BY <2>2, <2>4 DEF Taken
  <2> HIDE DEF next
  <2> QED
    BY <1>1, <1>2, <1>4, <2>1, <2>5 DEF item, lines, next
<1> QED
  BY <1>2, <1>3, <1>4

LEMMA SnippetsAreTaken ==
    ASSUME NEW F, AreFiles(F), NEW chosen \in Seq(F), NEW budget \in Nat
    PROVE  \E taken \in [0 .. Len(chosen) -> Taken] :
             /\ taken[0] = [shown |-> <<>>, total |-> 0]
             /\ \A n \in 1 .. Len(chosen) : taken[n] = TakeSnippet(taken[n - 1], chosen[n], budget)
             /\ LoadSnippets(chosen, budget) = taken[Len(chosen)].shown
<1> DEFINE N == Len(chosen)
<1> DEFINE first == [shown |-> <<>>, total |-> 0]
<1> DEFINE Is(g) == g = [n \in 0 .. N |-> IF n = 0 THEN first ELSE TakeSnippet(g[n - 1], chosen[n], budget)]
<1>1. N \in Nat /\ \A n \in 1 .. N : AreFiles({chosen[n]})
  BY DEF AreFiles
<1>2. first \in Taken
  BY DEF Taken
<1> DEFINE step == [p \in (1 .. N) \X Taken |-> TakeSnippet(p[2], chosen[p[1]], budget)]
<1>3. step \in [(1 .. N) \X Taken -> Taken]
  <2> SUFFICES ASSUME NEW p \in (1 .. N) \X Taken
               PROVE  TakeSnippet(p[2], chosen[p[1]], budget) \in Taken
    OBVIOUS
  <2>1. p[1] \in 1 .. N /\ p[2] \in Taken
    OBVIOUS
  <2> QED
    BY <1>1, <2>1, SnippetIsTaken
<1>4. \A n \in 1 .. N : \A v \in Taken : step[<<n, v>>] = TakeSnippet(v, chosen[n], budget)
  OBVIOUS
<1>5. LoadSnippets(chosen, budget) = (CHOOSE g : Is(g))[N].shown
  BY DEF LoadSnippets
<1> HIDE DEF step, N, first
<1>6. \E g \in [0 .. N -> Taken] : Takes(g, N, first, step)
  BY <1>1, <1>2, <1>3, StepsRun
<1>7. \E g : Is(g)
  <2>1. PICK g \in [0 .. N -> Taken] : g[0] = first /\ \A n \in 1 .. N : g[n] = step[<<n, g[n - 1]>>]
    BY <1>6 DEF Takes
  <2>2. ASSUME NEW n \in 1 .. N PROVE g[n] = TakeSnippet(g[n - 1], chosen[n], budget)
    <3>1. g[n - 1] \in Taken
      BY <1>1, <2>1
    <3> QED
      BY <1>4, <2>1, <3>1
  <2>3. \A n \in 0 .. N : g[n] = IF n = 0 THEN first ELSE TakeSnippet(g[n - 1], chosen[n], budget)
    BY <1>1, <2>1, <2>2
  <2>4. Is(g)
    BY <2>1, <2>3
  <2> QED
    BY <2>4
<1> DEFINE taken == CHOOSE g : Is(g)
<1>8. Is(taken)
  BY <1>7
<1> HIDE DEF taken
<1>9. /\ DOMAIN taken = 0 .. N /\ taken[0] = first /\ taken = [n \in 0 .. N |-> taken[n]]
      /\ \A n \in 1 .. N : taken[n] = TakeSnippet(taken[n - 1], chosen[n], budget)
  <2>1. DOMAIN taken = 0 .. N /\ taken = [n \in 0 .. N |-> taken[n]]
    BY <1>8
  <2>2. \A n \in 0 .. N : taken[n] = IF n = 0 THEN first ELSE TakeSnippet(taken[n - 1], chosen[n], budget)
    BY <1>8
  <2>3. 0 \in 0 .. N /\ \A n \in 1 .. N : n \in 0 .. N /\ n # 0
    BY <1>1
  <2> QED
    BY <2>1, <2>2, <2>3
<1> DEFINE S == {n \in Nat : n <= N => taken[n] \in Taken}
<1>10. 0 \in S
  BY <1>2, <1>9
<1>11. ASSUME NEW n \in Nat, n \in S PROVE n + 1 \in S
  <2> SUFFICES ASSUME n + 1 <= N PROVE taken[n + 1] \in Taken
    OBVIOUS
  <2>1. n + 1 \in 1 .. N /\ (n + 1) - 1 = n /\ taken[n] \in Taken
    BY <1>1, <1>11
  <2>2. taken[n + 1] = TakeSnippet(taken[n], chosen[n + 1], budget)
    BY <1>9, <2>1
  <2>3. AreFiles({chosen[n + 1]})
    BY <1>1, <2>1
  <2>4. TakeSnippet(taken[n], chosen[n + 1], budget) \in Taken
    BY <2>1, <2>3, SnippetIsTaken
  <2> QED
    BY <2>2, <2>4
<1>12. taken \in [0 .. N -> Taken]
  <2>1. Nat \subseteq S
    <3> HIDE DEF S
    <3> QED
      BY <1>10, <1>11, Induction
  <2>2. \A n \in 0 .. N : taken[n] \in Taken
    BY <1>1, <2>1
  <2> QED
    BY <1>9, <2>2
<1> QED
  BY <1>5, <1>9, <1>12 DEF N, first, taken

\* Of the first n files those are shown that the budget lasts for, and the last of
\* them as far as it lasts.
ShownSoFar(taken, n, chosen, wanted, budget) ==
    /\ taken \in Taken /\ Len(taken.shown) <= n
    /\ taken.total = AtMost(wanted[n], budget)
    /\ Len(taken.shown) < n => taken.total >= budget /\ wanted[Len(taken.shown)] >= budget
    /\ \A i \in 1 .. Len(taken.shown) :
         /\ taken.shown[i].path = chosen[i].path /\ wanted[i - 1] < budget
         /\ taken.shown[i].lines = AtMost(SnippetSize(chosen[i]), budget - wanted[i - 1])

LEMMA ShowingGoesOn ==
    ASSUME NEW F, AreFiles(F), NEW chosen \in Seq(F), NEW budget \in Nat,
           NEW wanted \in [0 .. Len(chosen) -> Nat],
           NEW n \in Nat, n + 1 <= Len(chosen), wanted[n + 1] = wanted[n] + SnippetSize(chosen[n + 1]),
           NEW taken, ShownSoFar(taken, n, chosen, wanted, budget)
    PROVE  ShownSoFar(TakeSnippet(taken, chosen[n + 1], budget), n + 1, chosen, wanted, budget)
<1> DEFINE f == chosen[n + 1]
<1> DEFINE next == TakeSnippet(taken, f, budget)
<1> DEFINE k == Len(taken.shown)
<1>1. /\ taken \in Taken /\ k <= n /\ taken.total = AtMost(wanted[n], budget)
      /\ k < n => taken.total >= budget /\ wanted[k] >= budget
      /\ \A i \in 1 .. k :
           /\ taken.shown[i].path = chosen[i].path /\ wanted[i - 1] < budget
           /\ taken.shown[i].lines = AtMost(SnippetSize(chosen[i]), budget - wanted[i - 1])
  BY DEF ShownSoFar
<1>2. AreFiles({f})
  BY DEF AreFiles
<1>3. wanted[n] \in Nat /\ wanted[n + 1] \in Nat /\ wanted[n + 1] = wanted[n] + SnippetSize(f)
  OBVIOUS
<1>4. taken.shown \in Seq([path : Nat, lines : Nat]) /\ taken.total \in Nat /\ k \in Nat
  BY <1>1 DEF Taken
<1>5. /\ next \in Taken /\ SnippetSize(f) \in Nat /\ (taken.total >= budget => next = taken)
  BY <1>1, <1>2, SnippetIsTaken
<1>6. CASE taken.total >= budget
  <2>1. next = taken
    BY <1>5, <1>6
  <2>2. wanted[n] >= budget /\ taken.total = AtMost(wanted[n + 1], budget)
    BY <1>1, <1>3, <1>5, <1>6 DEF AtMost
  <2>3. k < n + 1 => wanted[k] >= budget
    BY <1>1, <1>4, <2>2
  <2> QED
    BY <1>1, <1>4, <1>6, <2>1, <2>2, <2>3 DEF ShownSoFar
<1>7. CASE taken.total < budget
  <2> DEFINE lines == AtMost(SnippetSize(f), budget - wanted[n])
  <2> DEFINE item == [path |-> f.path, lines |-> lines]
  <2>1. k = n
    BY <1>1, <1>4, <1>7
  <2>2. taken.total = wanted[n] /\ wanted[n] < budget
    BY <1>1, <1>3, <1>7 DEF AtMost
  <2>3. next.total = wanted[n] + lines /\ next.shown = Append(taken.shown, item) /\ lines \in Nat
    <3> HIDE DEF f
    <3> DEFINE allowed == AtMost(SnippetSize(f), budget - taken.total)
    <3>1. /\ allowed \in Nat /\ next.total = taken.total + allowed
          /\ next.shown = Append(taken.shown, [path |-> f.path, lines |-> allowed])
      BY <1>1, <1>2, <1>7, SnippetIsTaken
    <3> QED
      BY <2>2, <3>1
  <2>4. next.total = AtMost(wanted[n + 1], budget)
    BY <1>3, <1>5, <2>2, <2>3 DEF AtMost
  <2>5. item.path = f.path /\ item.lines = lines /\ item \in [path : Nat, lines : Nat]
    BY <1>2, <2>3 DEF AreFiles
  <2> HIDE DEF item
  <2>6. /\ Len(next.shown) = n + 1 /\ next.shown[n + 1] = item
        /\ \A i \in 1 .. n : next.shown[i] = taken.shown[i]
    BY <1>4, <2>1, <2>3, <2>5
  <2>7. ASSUME NEW i \in 1 .. Len(next.shown)
        PROVE  /\ next.shown[i].path = chosen[i].path /\ wanted[i - 1] < budget
               /\ next.shown[i].lines = AtMost(SnippetSize(chosen[i]), budget - wanted[i - 1])
    <3>1. CASE i = n + 1
      <4>1. i - 1 = n
        BY <3>1
      <4> QED
        BY <2>2, <2>5, <2>6, <3>1, <4>1
    <3>2. CASE i # n + 1
      <4>1. i \in 1 .. k /\ next.shown[i] = taken.shown[i]
        BY <2>1, <2>6, <3>2
      <4> QED
        BY <1>1, <4>1
    <3> QED
      BY <3>1, <3>2
  <2> HIDE DEF next
  <2> QED
    BY <1>5, <2>4, <2>6, <2>7 DEF ShownSoFar, next
<1> QED
  BY <1>4, <1>6, <1>7

\* The files are shown in their order until the budget is spent, and only the last
\* one shown is cut.
LEMMA SnippetsFit ==
    ASSUME NEW F, AreFiles(F), NEW chosen \in Seq(F), NEW budget \in Nat
    PROVE  SnippetsFitTheBudget(chosen, budget)
<1> DEFINE N == Len(chosen)
<1> DEFINE sizes == [i \in DOMAIN chosen |-> SnippetSize(chosen[i])]
<1> DEFINE wanted == Sums(sizes)
<1> DEFINE shown == LoadSnippets(chosen, budget)
<1> DEFINE K == Len(shown)
<1> DEFINE counts == [i \in DOMAIN shown |-> shown[i].lines]
<1> DEFINE got == Sums(counts)
<1>1. N \in Nat /\ DOMAIN chosen = 1 .. N /\ \A i \in 1 .. N : SnippetSize(chosen[i]) \in Nat
  BY DEF AreFiles, SnippetSize
<1>2. sizes \in Seq(Nat) /\ Len(sizes) = N /\ \A i \in 1 .. N : sizes[i] = SnippetSize(chosen[i])
  BY <1>1
<1> HIDE DEF sizes
<1>3. /\ wanted \in [0 .. N -> Nat] /\ wanted[0] = 0
      /\ \A n \in 1 .. N : wanted[n] = wanted[n - 1] + SnippetSize(chosen[n])
  BY <1>2, SumsAddUp
<1>4. PICK taken \in [0 .. N -> Taken] :
        /\ taken[0] = [shown |-> <<>>, total |-> 0]
        /\ \A n \in 1 .. N : taken[n] = TakeSnippet(taken[n - 1], chosen[n], budget)
        /\ shown = taken[N].shown
  BY SnippetsAreTaken
<1> HIDE DEF wanted, shown
<1> DEFINE S == {n \in Nat : n <= N => ShownSoFar(taken[n], n, chosen, wanted, budget)}
<1>5. 0 \in S
  <2>1. taken[0] \in Taken /\ taken[0].shown = <<>> /\ taken[0].total = 0
    BY <1>1, <1>4
  <2>2. Len(taken[0].shown) = 0 /\ AtMost(0, budget) = 0
    BY <2>1 DEF AtMost
  <2> QED
    BY <1>3, <2>1, <2>2 DEF ShownSoFar
<1>6. ASSUME NEW n \in Nat, n \in S PROVE n + 1 \in S
  <2> SUFFICES ASSUME n + 1 <= N PROVE ShownSoFar(taken[n + 1], n + 1, chosen, wanted, budget)
    OBVIOUS
  <2>1. n + 1 \in 1 .. N /\ (n + 1) - 1 = n /\ ShownSoFar(taken[n], n, chosen, wanted, budget)
    BY <1>1, <1>6
  <2>2. taken[n + 1] = TakeSnippet(taken[n], chosen[n + 1], budget)
    BY <1>4, <2>1
  <2>3. wanted[n + 1] = wanted[n] + SnippetSize(chosen[n + 1])
    BY <1>3, <2>1
  <2> QED
    BY <1>3, <2>1, <2>2, <2>3, ShowingGoesOn
<1>7. ShownSoFar(taken[N], N, chosen, wanted, budget)
  <2>1. Nat \subseteq S
    <3> HIDE DEF S
    <3> QED
      BY <1>5, <1>6, Induction
  <2> QED
    BY <1>1, <2>1
<1>8. /\ shown \in Seq([path : Nat, lines : Nat]) /\ K \in Nat /\ K <= N /\ DOMAIN shown = 1 .. K
      /\ K < N => wanted[K] >= budget
      /\ \A i \in 1 .. K : /\ shown[i].path = chosen[i].path /\ wanted[i - 1] < budget
                           /\ shown[i].lines = AtMost(SnippetSize(chosen[i]), budget - wanted[i - 1])
  BY <1>4, <1>7 DEF ShownSoFar, Taken
<1>9. counts \in Seq(Nat) /\ Len(counts) = K /\ \A i \in 1 .. K : counts[i] = shown[i].lines
  <2> DEFINE R == [path : Nat, lines : Nat]
  <2>1. \A i \in 1 .. K : shown[i] \in R
    <3>1. shown \in Seq(R)
      BY <1>8
    <3> HIDE DEF R
    <3> QED
      BY <3>1
  <2>2. \A i \in 1 .. K : shown[i].lines \in Nat
    BY <2>1
  <2>3. counts = [i \in 1 .. K |-> shown[i].lines]
    BY <1>8
  <2>4. K \in Nat
    BY <1>8
  <2> HIDE DEF counts, K
  <2>5. counts \in [1 .. K -> Nat]
    BY <2>2, <2>3
  <2>6. counts \in Seq(Nat)
    BY <2>4, <2>5
  <2>7. Len(counts) = K
    BY <2>4, <2>5, <2>6
  <2> QED
    BY <2>3, <2>6, <2>7
<1> HIDE DEF counts
<1>10. /\ got \in [0 .. K -> Nat] /\ got[0] = 0
       /\ \A n \in 1 .. K : got[n] = got[n - 1] + shown[n].lines
  BY <1>9, SumsAddUp
<1> HIDE DEF got, K, N
<1> DEFINE T == {n \in Nat : n <= K => got[n] = AtMost(wanted[n], budget)}
<1>11. 0 \in T
  BY <1>3, <1>10 DEF AtMost
<1>12. ASSUME NEW n \in Nat, n \in T PROVE n + 1 \in T
  <2> SUFFICES ASSUME n + 1 <= K PROVE got[n + 1] = AtMost(wanted[n + 1], budget)
    OBVIOUS
  <2> DEFINE size == SnippetSize(chosen[n + 1])
  <2>1. n + 1 \in 1 .. K /\ n + 1 \in 1 .. N /\ (n + 1) - 1 = n /\ n \in 0 .. N
    BY <1>1, <1>8
  <2>2. wanted[n] \in Nat /\ size \in Nat /\ wanted[n + 1] = wanted[n] + size
    BY <1>1, <1>3, <2>1
  <2>3. wanted[n] < budget /\ shown[n + 1].lines = AtMost(size, budget - wanted[n])
    BY <1>8, <2>1
  <2>4. got[n] = wanted[n]
    BY <1>8, <1>12, <2>1, <2>3 DEF AtMost
  <2>5. got[n + 1] = wanted[n] + AtMost(size, budget - wanted[n])
    BY <1>10, <2>1, <2>3, <2>4
  <2> HIDE DEF size
  <2> QED
    BY <2>2, <2>3, <2>5 DEF AtMost
<1>13. \A n \in 0 .. K : got[n] = AtMost(wanted[n], budget)
  <2>1. Nat \subseteq T
    <3> HIDE DEF T
    <3> QED
      BY <1>11, <1>12, Induction
  <2> QED
    BY <1>8, <2>1
<1>14. ASSUME NEW i \in DOMAIN shown
       PROVE  /\ shown[i].path = chosen[i].path
              /\ got[i] = IF wanted[i] < budget THEN wanted[i] ELSE budget
              /\ i < K => wanted[i] < budget
  <2>1. i \in 1 .. K /\ i \in 0 .. K
    BY <1>8
  <2>2. i < K => i + 1 \in 1 .. K /\ (i + 1) - 1 = i
    BY <1>8, <2>1
  <2> QED
    BY <1>8, <1>13, <2>1, <2>2 DEF AtMost
<1>15. K < N => got[K] = budget
  <2>1. K \in 0 .. K /\ K \in 0 .. N
    BY <1>1, <1>8
  <2> QED
    BY <1>3, <1>8, <1>13, <2>1 DEF AtMost
<1>16. SnippetsFitTheBudget(chosen, budget) <=>
         /\ K <= N
         /\ \A i \in DOMAIN shown :
              /\ shown[i].path = chosen[i].path
              /\ got[i] = IF wanted[i] < budget THEN wanted[i] ELSE budget
              /\ i < K => wanted[i] < budget
         /\ K < N => got[K] = budget
  BY DEF SnippetsFitTheBudget, K, N, shown, got, wanted, counts, sizes
<1> QED
  BY <1>8, <1>14, <1>15, <1>16

\* A patch of the nodes of a module or a class.
LEMMA DefIsReplaced ==
    ASSUME NEW K, NEW nodes \in Seq(K), NEW def, def.kind = "def"
    PROVE  /\ IsPatched(ReplaceDef(nodes, def), nodes, def)
           /\ ReplaceDef(ReplaceDef(nodes, def), def) = ReplaceDef(nodes, def)
<1> DEFINE after == ReplaceDef(nodes, def)
<1> DEFINE n == Len(nodes)
<1>1. Defines(def, def)
  BY DEF Defines
<1>2. n \in Nat /\ DOMAIN nodes = 1 .. n /\ nodes \in Seq(K \cup {def})
  OBVIOUS
<1>3. CASE \E i \in DOMAIN nodes : Defines(nodes[i], def)
  <2>1. after = [i \in 1 .. n |-> IF Defines(nodes[i], def) THEN def ELSE nodes[i]]
    BY <1>2, <1>3 DEF ReplaceDef
  <2> HIDE DEF after
  <2>2. DOMAIN after = 1 .. n /\ after = [i \in 1 .. n |-> after[i]]
    BY <2>1
  <2>3. \A i \in 1 .. n : after[i] = IF Defines(nodes[i], def) THEN def ELSE nodes[i]
    BY <2>1
  <2>4. \E i \in 1 .. n : after[i] = def /\ Defines(after[i], def)
    BY <1>1, <1>2, <1>3, <2>3
  <2>5. \A i \in 1 .. n : Defines(after[i], def) => after[i] = def
    BY <2>3
  <2>6. IsPatched(after, nodes, def)
    BY <1>2, <2>2, <2>3, <2>4, <2>5 DEF IsPatched
  <2>7. ReplaceDef(after, def) = [i \in 1 .. n |-> IF Defines(after[i], def) THEN def ELSE after[i]]
    BY <2>2, <2>4 DEF ReplaceDef
  <2>8. ReplaceDef(after, def) = after
    BY <2>2, <2>5, <2>7
  <2> QED
    BY <2>6, <2>8 DEF after
<1>4. CASE ~\E i \in DOMAIN nodes : Defines(nodes[i], def)
  <2>1. after = Append(nodes, def)
    BY <1>4 DEF ReplaceDef
  <2> HIDE DEF after
  <2>2. /\ DOMAIN after = 1 .. n + 1 /\ after[n + 1] = def /\ \A i \in 1 .. n : after[i] = nodes[i]
        /\ after = [i \in 1 .. n + 1 |-> after[i]]
    <3>1. def \in K \cup {def}
      OBVIOUS
    <3>2. after \in Seq(K \cup {def}) /\ Len(after) = n + 1
      BY <1>2, <2>1, <3>1
    <3>3. after[n + 1] = def /\ \A i \in 1 .. n : after[i] = nodes[i]
      BY <1>2, <2>1, <3>1
    <3> QED
      BY <3>2, <3>3
  <2>3. n + 1 \in 1 .. n + 1 /\ \A i \in 1 .. n + 1 : i # n + 1 => i \in 1 .. n
    BY <1>2
  <2>4. \A i \in 1 .. n + 1 : Defines(after[i], def) => after[i] = def
    BY <1>2, <1>4, <2>2, <2>3
  <2>5. IsPatched(after, nodes, def)
    BY <1>2, <1>4, <2>2, <2>3, <2>4 DEF IsPatched
  <2>6. ReplaceDef(after, def) = [i \in 1 .. n + 1 |-> IF Defines(after[i], def) THEN def ELSE after[i]]
    BY <1>1, <2>2, <2>3 DEF ReplaceDef
  <2>7. ReplaceDef(after, def) = after
    BY <2>2, <2>4, <2>6
  <2> QED
    BY <2>5, <2>7 DEF after
<1> QED
  BY <1>3, <1>4

\* Sequences of nodes.
NodeLists(kinds, names, parts) == Seq([kind : kinds, name : names, body : Seq(parts)])

LEMMA MethodsAreReplaced ==
    ASSUME NEW NodeKinds, NEW NodeNames, NEW Parts,
           NEW nodes \in NodeLists(NodeKinds, NodeNames, Parts),
           NEW class, NEW def, def.kind = "def"
    PROVE  /\ ClassesArePatched(ReplaceInClasses(nodes, class, def), nodes, class, def)
           /\ ReplaceInClasses(ReplaceInClasses(nodes, class, def), class, def) = ReplaceInClasses(nodes, class, def)
<1> DEFINE methods == ReplaceInClasses(nodes, class, def)
<1> DEFINE again == ReplaceInClasses(methods, class, def)
<1> DEFINE n == Len(nodes)
<1> DEFINE Meant(node) == node.kind = "class" /\ node.name = class
<1>2. /\ n \in Nat /\ DOMAIN nodes = 1 .. n
      /\ \A i \in 1 .. n : /\ nodes[i] \in [kind : NodeKinds, name : NodeNames, body : Seq(Parts)]
                           /\ nodes[i].body \in Seq(Parts)
  <2> DEFINE R == [kind : NodeKinds, name : NodeNames, body : Seq(Parts)]
  <2>1. n \in Nat /\ DOMAIN nodes = 1 .. n /\ \A i \in 1 .. n : nodes[i] \in R
    <3>1. nodes \in Seq(R)
      BY DEF NodeLists
    <3> HIDE DEF R
    <3> QED
      BY <3>1
  <2>2. \A i \in 1 .. n : nodes[i].body \in Seq(Parts)
    BY <2>1
  <2> QED
    BY <2>1, <2>2
<1>3. methods = [i \in 1 .. n |-> IF Meant(nodes[i]) THEN [nodes[i] EXCEPT !.body = ReplaceDef(nodes[i].body, def)]
                                  ELSE nodes[i]]
  BY <1>2 DEF ReplaceInClasses
<1> HIDE DEF methods, n
<1>4. DOMAIN methods = 1 .. n /\ methods = [i \in 1 .. n |-> methods[i]]
  BY <1>3
<1>5. ASSUME NEW i \in 1 .. n, Meant(nodes[i])
      PROVE  /\ IsPatched(methods[i].body, nodes[i].body, def) /\ Meant(methods[i])
             /\ [methods[i] EXCEPT !.body = ReplaceDef(methods[i].body, def)] = methods[i]
  <2> DEFINE body == ReplaceDef(nodes[i].body, def)
  <2>1. IsPatched(body, nodes[i].body, def) /\ ReplaceDef(body, def) = body
    BY <1>2, DefIsReplaced
  <2>2. methods[i] = [nodes[i] EXCEPT !.body = body]
    BY <1>3, <1>5
  <2> HIDE DEF body
  <2>3. methods[i] = [kind |-> nodes[i].kind, name |-> nodes[i].name, body |-> body]
    BY <1>2, <2>2
  <2> QED
    BY <1>5, <2>1, <2>3
<1>6. \A i \in 1 .. n : ~Meant(nodes[i]) => methods[i] = nodes[i]
  BY <1>3
<1>7. again = [i \in 1 .. n |-> IF Meant(methods[i]) THEN [methods[i] EXCEPT !.body = ReplaceDef(methods[i].body, def)]
                                ELSE methods[i]]
  BY <1>4 DEF ReplaceInClasses
<1>8. again = methods
  <2> HIDE DEF Meant, again
  <2>1. \A i \in 1 .. n : Meant(methods[i]) => Meant(nodes[i])
    BY <1>6
  <2>2. \A i \in 1 .. n : Meant(methods[i]) =>
          [methods[i] EXCEPT !.body = ReplaceDef(methods[i].body, def)] = methods[i]
    BY <1>5, <2>1
  <2>3. again = [i \in 1 .. n |-> methods[i]]
    BY <1>7, <2>2
  <2> QED
    BY <1>4, <2>3
<1> QED
  BY <1>2, <1>4, <1>5, <1>6, <1>8 DEF ClassesArePatched, methods, n

LEMMA PatchesStay ==
    ASSUME NEW NodeKinds, NEW NodeNames, NEW Parts,
           NEW source \in [parses : BOOLEAN, nodes : NodeLists(NodeKinds, NodeNames, Parts)],
           NEW class, NEW def, def.kind = "def"
    PROVE  PatchesAreIdempotent(source, class, def)
<1> DEFINE nodes == source.nodes
<1> DEFINE Patched(to) == [parses |-> TRUE, nodes |-> to]
<1>1. nodes \in NodeLists(NodeKinds, NodeNames, Parts)
  OBVIOUS
<1>2. CASE ~source.parses
  BY <1>2 DEF PatchesAreIdempotent, ReplaceFunction, ReplaceMethod
<1>3. CASE source.parses
  <2>1. PICK to : to = ReplaceDef(nodes, def)
    OBVIOUS
  <2>2. IsPatched(to, nodes, def) /\ ReplaceDef(to, def) = to
    BY <1>1, <2>1, DefIsReplaced DEF NodeLists
  <2>3. PICK methods : methods = ReplaceInClasses(nodes, class, def)
    OBVIOUS
  <2>4. ClassesArePatched(methods, nodes, class, def) /\ ReplaceInClasses(methods, class, def) = methods
    <3> HIDE DEF nodes
    <3>1. /\ ClassesArePatched(ReplaceInClasses(nodes, class, def), nodes, class, def)
          /\ ReplaceInClasses(ReplaceInClasses(nodes, class, def), class, def) = ReplaceInClasses(nodes, class, def)
      BY <1>1, MethodsAreReplaced
    <3> QED
      BY <2>3, <3>1
  <2>5. \A x : [source EXCEPT !.nodes = x] = Patched(x)
    <3> DEFINE Bodies == NodeLists(NodeKinds, NodeNames, Parts)
    <3>1. source \in [parses : BOOLEAN, nodes : Bodies]
      OBVIOUS
    <3> HIDE DEF Bodies
    <3>2. source.parses = TRUE
      <4>1. source.parses \in BOOLEAN
        BY <3>1
      <4> QED
        BY <1>3, <4>1
    <3>3. \A x : [source EXCEPT !.nodes = x] = [parses |-> source.parses, nodes |-> x]
      BY <3>1
    <3> QED
      BY <3>2, <3>3
  <2>6. ReplaceFunction(source, def) = Patched(to) /\ ReplaceMethod(source, class, def) = Patched(methods)
    <3>1. ReplaceFunction(source, def) = [source EXCEPT !.nodes = to] /\ ReplaceMethod(source, class, def) = [source EXCEPT !.nodes = methods]
      BY <1>3, <2>1, <2>3 DEF ReplaceFunction, ReplaceMethod
    <3> QED
      BY <2>5, <3>1
  <2>7. ReplaceFunction(Patched(to), def) = Patched(to)
    <3>1. ReplaceFunction(Patched(to), def) = Patched(ReplaceDef(to, def))
      BY DEF ReplaceFunction
    <3> QED
      BY <2>2, <3>1
  <2>8. ReplaceMethod(Patched(methods), class, def) = Patched(methods)
    <3>1. ReplaceMethod(Patched(methods), class, def) = Patched(ReplaceInClasses(methods, class, def))
      BY DEF ReplaceMethod
    <3> QED
      BY <2>4, <3>1
  <2> QED
    BY <1>3, <2>2, <2>4, <2>5, <2>6, <2>7, <2>8 DEF PatchesAreIdempotent
<1> QED
  BY <1>2, <1>3

\* What the model is shown and what its answer changes, for any number of files
\* with different paths, any limits, and any answer.
THEOREM ContextAndPatchesAreSound ==
    ASSUME NEW F, AreFiles(F), NEW NodeKinds, NEW NodeNames, NEW Parts, NEW Inputs,
           \A v \in Inputs : /\ v.files \in Seq(F) /\ Distinct(v.files)
                            /\ v.limits.files \in Nat /\ v.limits.lines \in Nat
                            /\ v.answer.source \in [parses : BOOLEAN, nodes : NodeLists(NodeKinds, NodeNames, Parts)]
                            /\ v.answer.def.kind = "def"
    PROVE  DrawsFrom("answer", Inputs) => []ContextAndPatchHold
<1> DEFINE Inv == Drawn("answer") => sample.of \in Inputs
<1>1. NothingDrawn => Inv
  BY DEF NothingDrawn, Drawn
<1>2. Inv /\ [NothingDrawn /\ \E v \in Inputs : Draw("answer", v)]_sample => Inv'
  BY DEF Drawn, Draw
<1>3. Inv => ContextAndPatchHold
  <2> SUFFICES ASSUME Inv, Drawn("answer") PROVE ContextAndPatchHold
    BY DEF ContextAndPatchHold
  <2> DEFINE v == sample.of
  <2> DEFINE chosen == SelectFiles(v.task, v.files, v.limits.files)
  <2>1. /\ v.files \in Seq(F) /\ Distinct(v.files)
        /\ v.limits.files \in Nat /\ v.limits.lines \in Nat
        /\ v.answer.source \in [parses : BOOLEAN, nodes : NodeLists(NodeKinds, NodeNames, Parts)]
        /\ v.answer.def.kind = "def"
    OBVIOUS
  <2> HIDE DEF v
  <2>2. TheBestAreChosen(v.task, v.files, v.limits.files)
    BY <2>1, BestAreChosen
  <2>3. chosen \in Seq(F)
    BY <2>1, SelectedFiles
  <2>4. SnippetsFitTheBudget(chosen, v.limits.lines)
    <3> HIDE DEF chosen
    <3> QED
      BY <2>1, <2>3, SnippetsFit
  <2>5. PatchesAreIdempotent(v.answer.source, v.answer.class, v.answer.def)
    BY <2>1, PatchesStay
  <2> QED
    BY <2>2, <2>4, <2>5 DEF ContextAndPatchHold, v
<1> HIDE DEF Inv
<1> QED
  BY <1>1, <1>2, <1>3, PTL DEF DrawsFrom

----------------------------------------------------------------------------
(* Figures *)

\* A total is the last of the sums.
LEMMA TotalIsNatural ==
    ASSUME NEW numbers \in Seq(Nat)
    PROVE  Total(numbers) \in Nat
<1>1. Len(numbers) \in Nat /\ Len(numbers) \in 0 .. Len(numbers)
  OBVIOUS
<1> QED
  BY <1>1, SumsAddUp DEF Total

\* Totals add up place by place.
LEMMA TotalsAdd ==
    ASSUME NEW n \in Nat, NEW a \in [1 .. n -> Nat], NEW b \in [1 .. n -> Nat], NEW c \in [1 .. n -> Nat],
           \A i \in 1 .. n : a[i] = b[i] + c[i]
    PROVE  Total(a) = Total(b) + Total(c)
<1>1. /\ a \in Seq(Nat) /\ b \in Seq(Nat) /\ c \in Seq(Nat)
      /\ Len(a) = n /\ Len(b) = n /\ Len(c) = n
  OBVIOUS
<1> DEFINE A == Sums(a)
<1> DEFINE B == Sums(b)
<1> DEFINE C == Sums(c)
<1>2. /\ A \in [0 .. n -> Nat] /\ A[0] = 0 /\ \A k \in 1 .. n : A[k] = A[k - 1] + a[k]
      /\ B \in [0 .. n -> Nat] /\ B[0] = 0 /\ \A k \in 1 .. n : B[k] = B[k - 1] + b[k]
      /\ C \in [0 .. n -> Nat] /\ C[0] = 0 /\ \A k \in 1 .. n : C[k] = C[k - 1] + c[k]
  BY <1>1, SumsAddUp
<1>3. Total(a) = A[n] /\ Total(b) = B[n] /\ Total(c) = C[n]
  BY <1>1 DEF Total
<1> HIDE DEF A, B, C
<1> DEFINE S == {k \in Nat : k <= n => A[k] = B[k] + C[k]}
<1>4. 0 \in S
  BY <1>2
<1>5. ASSUME NEW k \in Nat, k \in S PROVE k + 1 \in S
  <2> SUFFICES ASSUME k + 1 <= n PROVE A[k + 1] = B[k + 1] + C[k + 1]
    OBVIOUS
  <2>1. k + 1 \in 1 .. n /\ (k + 1) - 1 = k /\ k \in 0 .. n /\ A[k] = B[k] + C[k]
    BY <1>5
  <2>2. A[k + 1] = A[k] + a[k + 1] /\ B[k + 1] = B[k] + b[k + 1] /\ C[k + 1] = C[k] + c[k + 1]
    BY <1>2, <2>1
  <2>3. /\ A[k] \in Nat /\ B[k] \in Nat /\ C[k] \in Nat
        /\ a[k + 1] \in Nat /\ b[k + 1] \in Nat /\ c[k + 1] \in Nat /\ a[k + 1] = b[k + 1] + c[k + 1]
    BY <1>2, <2>1
  <2>4. PICK q \in Nat, r \in Nat, y \in Nat, z \in Nat :
          q = B[k] /\ r = C[k] /\ y = b[k + 1] /\ z = c[k + 1]
    BY <2>3
  <2>5. (q + r) + (y + z) = (q + y) + (r + z)
    OBVIOUS
  <2> QED
    BY <2>1, <2>2, <2>3, <2>4, <2>5, Zenon
<1>6. n \in S
  <2> HIDE DEF S
  <2> QED
    BY <1>4, <1>5, Induction
<1> QED
  BY <1>3, <1>6

\* A total is zero when all its numbers are, and not otherwise.
LEMMA TotalOfZeros ==
    ASSUME NEW n \in Nat, NEW a \in [1 .. n -> Nat]
    PROVE  Total(a) = 0 <=> \A i \in 1 .. n : a[i] = 0
<1>1. a \in Seq(Nat) /\ Len(a) = n
  OBVIOUS
<1> DEFINE A == Sums(a)
<1>2. A \in [0 .. n -> Nat] /\ A[0] = 0 /\ \A k \in 1 .. n : A[k] = A[k - 1] + a[k]
  BY <1>1, SumsAddUp
<1>3. Total(a) = A[n]
  BY <1>1 DEF Total
<1> HIDE DEF A
<1> DEFINE S == {k \in Nat : k <= n => (A[k] = 0 <=> \A i \in 1 .. k : a[i] = 0)}
<1>4. 0 \in S
  BY <1>2
<1>5. ASSUME NEW k \in Nat, k \in S PROVE k + 1 \in S
  <2> SUFFICES ASSUME k + 1 <= n PROVE A[k + 1] = 0 <=> \A i \in 1 .. k + 1 : a[i] = 0
    OBVIOUS
  <2>1. k + 1 \in 1 .. n /\ (k + 1) - 1 = k /\ k \in 0 .. n /\ (A[k] = 0 <=> \A i \in 1 .. k : a[i] = 0)
    BY <1>5
  <2>2. A[k + 1] = A[k] + a[k + 1] /\ A[k] \in Nat /\ a[k + 1] \in Nat
    BY <1>2, <2>1
  <2>3. A[k + 1] = 0 <=> A[k] = 0 /\ a[k + 1] = 0
    BY <2>2
  <2>4. 1 .. k + 1 = (1 .. k) \cup {k + 1}
    OBVIOUS
  <2> QED
    BY <2>1, <2>3, <2>4
<1>6. n \in S
  <2> HIDE DEF S
  <2> QED
    BY <1>4, <1>5, Induction
<1> QED
  BY <1>3, <1>6

\* The sum over places is the total of a list with zeros at the others.
LEMMA SumOverIsNatural ==
    ASSUME NEW n \in Nat, NEW a \in [1 .. n -> Nat], NEW P
    PROVE  /\ SumOver(a, P) = Total([i \in 1 .. n |-> IF i \in P THEN a[i] ELSE 0])
           /\ [i \in 1 .. n |-> IF i \in P THEN a[i] ELSE 0] \in [1 .. n -> Nat]
           /\ SumOver(a, P) \in Nat
<1> DEFINE f == [i \in 1 .. n |-> IF i \in P THEN a[i] ELSE 0]
<1>1. SumOver(a, P) = Total(f)
  BY DEF SumOver
<1>2. f \in [1 .. n -> Nat]
  OBVIOUS
<1> HIDE DEF f
<1>3. f \in Seq(Nat)
  BY <1>2
<1> QED
  BY <1>1, <1>2, <1>3, TotalIsNatural DEF f

\* The sums of two parts add up.
LEMMA SumOverSplits ==
    ASSUME NEW n \in Nat, NEW a \in [1 .. n -> Nat], NEW P, NEW Q, P \cap Q = {}
    PROVE  SumOver(a, P \cup Q) = SumOver(a, P) + SumOver(a, Q)
<1> DEFINE both == [i \in 1 .. n |-> IF i \in P \cup Q THEN a[i] ELSE 0]
<1> DEFINE f == [i \in 1 .. n |-> IF i \in P THEN a[i] ELSE 0]
<1> DEFINE g == [i \in 1 .. n |-> IF i \in Q THEN a[i] ELSE 0]
<1>1. /\ SumOver(a, P \cup Q) = Total(both) /\ both \in [1 .. n -> Nat]
      /\ SumOver(a, P) = Total(f) /\ f \in [1 .. n -> Nat]
      /\ SumOver(a, Q) = Total(g) /\ g \in [1 .. n -> Nat]
  <2>1. \A R : /\ SumOver(a, R) = Total([i \in 1 .. n |-> IF i \in R THEN a[i] ELSE 0])
               /\ [i \in 1 .. n |-> IF i \in R THEN a[i] ELSE 0] \in [1 .. n -> Nat]
    BY SumOverIsNatural
  <2> QED
    BY <2>1, Zenon
<1>2. \A i \in 1 .. n : both[i] = f[i] + g[i]
  OBVIOUS
<1> HIDE DEF both, f, g
<1>3. Total(both) = Total(f) + Total(g)
  BY <1>1, <1>2, TotalsAdd
<1> QED
  BY <1>1, <1>3

\* No places have nothing.
LEMMA SumOverNothing ==
    ASSUME NEW n \in Nat, NEW a \in [1 .. n -> Nat]
    PROVE  SumOver(a, {}) = 0
<1> DEFINE f == [i \in 1 .. n |-> IF i \in {} THEN a[i] ELSE 0]
<1>1. SumOver(a, {}) = Total(f) /\ f \in [1 .. n -> Nat]
  BY SumOverIsNatural
<1>2. \A i \in 1 .. n : f[i] = 0
  OBVIOUS
<1> HIDE DEF f
<1> QED
  BY <1>1, <1>2, TotalOfZeros

\* The sums of parts that do not overlap add up to the sum of all of them.
Divide(parts, K, all) ==
    /\ \A j, k \in 1 .. K : j # k => parts[j] \cap parts[k] = {}
    /\ \A i : i \in all <=> \E k \in 1 .. K : i \in parts[k]
SumUp(sums, a, parts, K) == \A k \in 1 .. K : sums[k] = SumOver(a, parts[k])

LEMMA PartsAddUp ==
    ASSUME NEW n \in Nat, NEW a \in [1 .. n -> Nat], NEW K \in Nat, NEW parts, NEW all, NEW f \in [1 .. K -> Nat],
           Divide(parts, K, all), SumUp(f, a, parts, K)
    PROVE  SumOver(a, all) = Total(f)
<1> DEFINE F == Sums(f)
<1> DEFINE U(k) == UNION {parts[j] : j \in 1 .. k}
<1>1. \A j, k \in 1 .. K : j # k => parts[j] \cap parts[k] = {}
  BY DEF Divide
<1>2. \A k \in 1 .. K : f[k] = SumOver(a, parts[k])
  BY DEF SumUp
<1>3. f \in Seq(Nat) /\ Len(f) = K
  OBVIOUS
<1>4. F \in [0 .. K -> Nat] /\ F[0] = 0 /\ \A k \in 1 .. K : F[k] = F[k - 1] + f[k]
  BY <1>3, SumsAddUp
<1>5. Total(f) = F[K]
  BY <1>3 DEF Total
<1> HIDE DEF F
<1> DEFINE S == {k \in Nat : k <= K => SumOver(a, U(k)) = F[k]}
<1>6. 0 \in S
  <2>1. U(0) = {}
    OBVIOUS
  <2> HIDE DEF U
  <2> QED
    BY <1>4, <2>1, SumOverNothing
<1>7. ASSUME NEW k \in Nat, k \in S PROVE k + 1 \in S
  <2> SUFFICES ASSUME k + 1 <= K PROVE SumOver(a, U(k + 1)) = F[k + 1]
    OBVIOUS
  <2>1. k + 1 \in 1 .. K /\ (k + 1) - 1 = k /\ SumOver(a, U(k)) = F[k]
    BY <1>7
  <2>2. U(k + 1) = U(k) \cup parts[k + 1]
    <3>1. 1 .. k + 1 = (1 .. k) \cup {k + 1}
      OBVIOUS
    <3> QED
      BY <3>1
  <2>3. U(k) \cap parts[k + 1] = {}
    <3>1. \A j \in 1 .. k : j \in 1 .. K /\ j # k + 1
      BY <2>1
    <3> QED
      BY <1>1, <2>1, <3>1
  <2> HIDE DEF U
  <2>4. SumOver(a, U(k + 1)) = SumOver(a, U(k)) + SumOver(a, parts[k + 1])
    BY <2>2, <2>3, SumOverSplits
  <2> QED
    BY <1>2, <1>4, <2>1, <2>4
<1>8. K \in S
  <2> HIDE DEF S
  <2> QED
    BY <1>6, <1>7, Induction
<1>9. U(K) = all
  BY DEF Divide
<1> HIDE DEF U
<1> QED
  BY <1>5, <1>8, <1>9

\* Places are counted by ones.
Ones(n) == [i \in 1 .. n |-> 1]

LEMMA OnesCount ==
    ASSUME NEW n \in Nat, NEW P, P \subseteq 1 .. n
    PROVE  Cardinality(P) = SumOver(Ones(n), P)
<1> DEFINE f == [i \in 1 .. n |-> IF i \in P THEN Ones(n)[i] ELSE 0]
<1> DEFINE F == Sums(f)
<1>1. SumOver(Ones(n), P) = Total(f) /\ f \in [1 .. n -> Nat]
  <2>1. Ones(n) \in [1 .. n -> Nat]
    BY DEF Ones
  <2> QED
    BY <2>1, SumOverIsNatural
<1>2. \A k \in 1 .. n : f[k] = IF k \in P THEN 1 ELSE 0
  BY DEF Ones
<1> HIDE DEF f
<1>3. f \in Seq(Nat) /\ Len(f) = n
  BY <1>1
<1>4. F \in [0 .. n -> Nat] /\ F[0] = 0 /\ \A k \in 1 .. n : F[k] = F[k - 1] + f[k]
  BY <1>3, SumsAddUp
<1>5. Total(f) = F[n]
  BY <1>3 DEF Total
<1> HIDE DEF F
<1> DEFINE S == {k \in Nat : k <= n => IsFiniteSet(P \cap (1 .. k)) /\ Cardinality(P \cap (1 .. k)) = F[k]}
<1>6. 0 \in S
  <2>1. P \cap (1 .. 0) = {}
    OBVIOUS
  <2> QED
    BY <1>4, <2>1, FS_EmptySet
<1>7. ASSUME NEW k \in Nat, k \in S PROVE k + 1 \in S
  <2> SUFFICES ASSUME k + 1 <= n
               PROVE  IsFiniteSet(P \cap (1 .. k + 1)) /\ Cardinality(P \cap (1 .. k + 1)) = F[k + 1]
    OBVIOUS
  <2> DEFINE Q == P \cap (1 .. k)
  <2>1. k + 1 \in 1 .. n /\ (k + 1) - 1 = k /\ IsFiniteSet(Q) /\ Cardinality(Q) = F[k] /\ F[k] \in Nat
    BY <1>4, <1>7
  <2>2. F[k + 1] = F[k] + (IF k + 1 \in P THEN 1 ELSE 0)
    BY <1>2, <1>4, <2>1
  <2>3. P \cap (1 .. k + 1) = IF k + 1 \in P THEN Q \cup {k + 1} ELSE Q
    <3>1. 1 .. k + 1 = (1 .. k) \cup {k + 1}
      OBVIOUS
    <3> QED
      BY <3>1
  <2>4. k + 1 \notin Q
    OBVIOUS
  <2> HIDE DEF Q
  <2>5. IsFiniteSet(Q \cup {k + 1}) /\ Cardinality(Q \cup {k + 1}) = Cardinality(Q) + 1
    BY <2>1, <2>4, FS_AddElement
  <2>6. CASE k + 1 \in P
    BY <2>1, <2>2, <2>3, <2>5, <2>6
  <2>7. CASE k + 1 \notin P
    BY <2>1, <2>2, <2>3, <2>7
  <2> QED
    BY <2>6, <2>7
<1>8. n \in S
  <2> HIDE DEF S
  <2> QED
    BY <1>6, <1>7, Induction
<1>9. P \cap (1 .. n) = P
  OBVIOUS
<1>10. Cardinality(P \cap (1 .. n)) = F[n]
  BY <1>8
<1> QED
  BY <1>1, <1>5, <1>9, <1>10, Zenon

\* Rows of a report: what is absent, what cannot be read, and numbers.
NumberOptions == {{}, {Unreadable}} \cup {{n} : n \in Nat}
ReportRows(tenants, pipelines) ==
    LET breakdowns == [schema : Int, total : NumberOptions, steps : NumberOptions, stepsTotal : NumberOptions]
    IN  [tenant : tenants, created : Int, pipeline : pipelines, cost : NumberOptions,
         breakdown : {{}} \cup {{b} : b \in breakdowns}]
CostFigures == {"cost", "stepCosts", "totalCost", "stepCostsTotal"}

LEMMA OrZeroIsNatural ==
    ASSUME NEW option \in NumberOptions
    PROVE  OrZero(option) \in Nat
<1>1. CASE IsRead(option)
  <2>1. PICK n \in Nat : option = {n}
    BY <1>1 DEF NumberOptions, IsRead, Absent
  <2>2. The(option) = n
    BY <2>1 DEF The
  <2> QED
    BY <1>1, <2>2 DEF OrZero
<1> QED
  BY <1>1 DEF OrZero

LEMMA CostsAreNumbers ==
    ASSUME NEW tenants, NEW pipelines, NEW row \in ReportRows(tenants, pipelines), NEW figure \in CostFigures
    PROVE  CostsOf(row)[figure] \in Nat
<1> DEFINE b == The(row.breakdown)
<1>1. row.cost \in NumberOptions
  BY DEF ReportRows
<1>2. OrZero(row.cost) \in Nat
  BY <1>1, OrZeroIsNatural
<1>3. ASSUME row.breakdown # Absent
      PROVE  StepCosts(b) \in Nat /\ TotalCost(b) \in Nat /\ StepCostsTotal(b) \in Nat
  <2>1. PICK c : /\ row.breakdown = {c} /\ c.total \in NumberOptions /\ c.steps \in NumberOptions
                 /\ c.stepsTotal \in NumberOptions
    BY <1>3 DEF ReportRows, Absent
  <2>2. b = c
    BY <2>1 DEF The
  <2> HIDE DEF b
  <2>3. OrZero(b.total) \in Nat /\ OrZero(b.steps) \in Nat /\ OrZero(b.stepsTotal) \in Nat
    BY <2>1, <2>2, OrZeroIsNatural
  <2>4. StepCosts(b) \in Nat
    BY <2>3 DEF StepCosts
  <2>5. TotalCost(b) \in Nat
    BY <2>3, <2>4 DEF TotalCost
  <2> QED
    BY <2>3, <2>4, <2>5 DEF StepCostsTotal
<1> HIDE DEF b
<1> DEFINE broken == row.breakdown # Absent
<1>4. CostsOf(row) = [cost |-> OrZero(row.cost),
                      stepCosts |-> IF broken THEN StepCosts(b) ELSE 0,
                      totalCost |-> IF broken THEN TotalCost(b) ELSE 0,
                      stepCostsTotal |-> IF broken THEN StepCostsTotal(b) ELSE 0]
  BY DEF CostsOf, b
<1> DEFINE x == IF broken THEN StepCosts(b) ELSE 0
<1> DEFINE y == IF broken THEN TotalCost(b) ELSE 0
<1> DEFINE z == IF broken THEN StepCostsTotal(b) ELSE 0
<1>5. x \in Nat /\ y \in Nat /\ z \in Nat
  BY <1>3
<1>6. CostsOf(row) = [cost |-> OrZero(row.cost), stepCosts |-> x, totalCost |-> y, stepCostsTotal |-> z]
  BY <1>4
<1> HIDE DEF x, y, z
<1> QED
  BY <1>2, <1>5, <1>6 DEF CostFigures

\* A list of all members of a finite set without repetition misses none.
LEMMA ListsMissNothing ==
    ASSUME NEW S, IsFiniteSet(S), NEW list \in ListsOf(S)
    PROVE  /\ Cardinality(S) \in Nat /\ list \in [1 .. Cardinality(S) -> S]
           /\ \A x \in S : \E k \in 1 .. Cardinality(S) : list[k] = x
           /\ \A j, k \in 1 .. Cardinality(S) : list[j] = list[k] => j = k
<1> DEFINE n == Cardinality(S)
<1>1. n \in Nat
  BY FS_CardinalityType
<1> HIDE DEF n
<1>2. list \in [1 .. n -> S] /\ \A j, k \in 1 .. n : list[j] = list[k] => j = k
  BY DEF ListsOf, n
<1>3. list \in Injection(1 .. n, S)
  BY <1>2 DEF Injection, IsInjective
<1>4. Cardinality(1 .. n) = Cardinality(S)
  BY <1>1, FS_Interval DEF n
<1>5. list \in Surjection(1 .. n, S)
  BY <1>3, <1>4, FS_Injection
<1> QED
  BY <1>1, <1>2, <1>5 DEF Surjection, n

\* Two adjacent windows have the rows of both.
LEMMA WindowsAreAdjacent ==
    ASSUME NEW rows, \A i \in DOMAIN rows : rows[i].created \in Int, NEW tenant, NEW cut \in Int
    PROVE  LET early == ReportedRows(rows, tenant, Absent, {cut})
               late == ReportedRows(rows, tenant, {cut + 1}, Absent)
           IN /\ ReportedRows(rows, tenant, Absent, Absent) = early \cup late
              /\ early \cap late = {}
<1>1. The({cut}) = cut /\ The({cut + 1}) = cut + 1
  BY DEF The
<1>2. ReportedRows(rows, tenant, Absent, {cut}) =
        {i \in DOMAIN rows : rows[i].tenant = tenant /\ rows[i].created <= cut}
  BY <1>1 DEF ReportedRows, Absent
<1>3. ReportedRows(rows, tenant, {cut + 1}, Absent) =
        {i \in DOMAIN rows : rows[i].tenant = tenant /\ rows[i].created >= cut + 1}
  BY <1>1 DEF ReportedRows, Absent
<1>4. ReportedRows(rows, tenant, Absent, Absent) = {i \in DOMAIN rows : rows[i].tenant = tenant}
  BY DEF ReportedRows, Absent
<1>5. \A i \in DOMAIN rows : rows[i].created <= cut <=> ~(rows[i].created >= cut + 1)
  OBVIOUS
<1> QED
  BY <1>2, <1>3, <1>4, <1>5

\* Reports add up: for any number of rows and any cut.
LEMMA ReportsAdd ==
    ASSUME NEW tenants, NEW pipelines, NEW rows \in Seq(ReportRows(tenants, pipelines)),
           NEW tenant, NEW cut \in Int
    PROVE  ReportsAddUp(rows, tenant, cut)
<1> DEFINE n == Len(rows)
<1> DEFINE R == ReportRows(tenants, pipelines)
<1> DEFINE own == ReportedRows(rows, tenant, Absent, Absent)
<1> DEFINE early == ReportedRows(rows, tenant, Absent, {cut})
<1> DEFINE late == ReportedRows(rows, tenant, {cut + 1}, Absent)
<1> DEFINE whole == CostReport(rows, tenant, Absent, Absent)
<1> DEFINE before == CostReport(rows, tenant, Absent, {cut})
<1> DEFINE after == CostReport(rows, tenant, {cut + 1}, Absent)
<1>1. n \in Nat /\ DOMAIN rows = 1 .. n /\ \A i \in 1 .. n : rows[i] \in R
  <2> HIDE DEF R
  <2>1. rows \in Seq(R)
    BY DEF R
  <2> QED
    BY <2>1
<1>2. \A i \in 1 .. n : rows[i].created \in Int
  BY <1>1 DEF ReportRows
<1>3. \A figure \in CostFigures : Amounts(rows, figure) \in [1 .. n -> Nat]
  BY <1>1, CostsAreNumbers DEF Amounts
<1>4. own = early \cup late /\ early \cap late = {} /\ own \subseteq 1 .. n
  <2>1. own \subseteq DOMAIN rows
    BY DEF ReportedRows
  <2> QED
    BY <1>1, <1>2, <2>1, WindowsAreAdjacent
<1>5. /\ whole.runs = Cardinality(own) /\ before.runs = Cardinality(early) /\ after.runs = Cardinality(late)
      /\ \A figure \in CostFigures :
           /\ whole[figure] = SumOver(Amounts(rows, figure), own)
           /\ before[figure] = SumOver(Amounts(rows, figure), early)
           /\ after[figure] = SumOver(Amounts(rows, figure), late)
      /\ whole.byPipeline = [p \in {rows[i].pipeline : i \in own} |->
                               SumOver(Amounts(rows, "cost"), {i \in own : rows[i].pipeline = p})]
  <2>1. /\ whole.runs = Cardinality(own)
        /\ \A figure \in CostFigures : whole[figure] = SumOver(Amounts(rows, figure), own)
        /\ whole.byPipeline = [p \in {rows[i].pipeline : i \in own} |->
                                 SumOver(Amounts(rows, "cost"), {i \in own : rows[i].pipeline = p})]
    BY DEF CostReport, CostFigures
  <2>2. /\ before.runs = Cardinality(early)
        /\ \A figure \in CostFigures : before[figure] = SumOver(Amounts(rows, figure), early)
    BY DEF CostReport, CostFigures
  <2>3. /\ after.runs = Cardinality(late)
        /\ \A figure \in CostFigures : after[figure] = SumOver(Amounts(rows, figure), late)
    BY DEF CostReport, CostFigures
  <2> HIDE DEF n, own, early, late, whole, before, after
  <2> QED
    BY <2>1, <2>2, <2>3
<1> HIDE DEF n, own, early, late, whole, before, after
<1>6. whole.runs = before.runs + after.runs
  <2>1. IsFiniteSet(own) /\ IsFiniteSet(early) /\ IsFiniteSet(late)
    <3>1. IsFiniteSet(1 .. n)
      BY <1>1, FS_Interval
    <3> QED
      BY <1>4, <3>1, FS_Subset
  <2>2. Cardinality(own) = Cardinality(early) + Cardinality(late) - Cardinality(early \cap late)
    BY <1>4, <2>1, FS_Union
  <2>3. Cardinality(early \cap late) = 0
    BY <1>4, FS_EmptySet
  <2>4. Cardinality(early) \in Nat /\ Cardinality(late) \in Nat
    BY <2>1, FS_CardinalityType
  <2> QED
    BY <1>5, <2>2, <2>3, <2>4
<1>7. ASSUME NEW figure \in CostFigures PROVE whole[figure] = before[figure] + after[figure]
  <2>1. SumOver(Amounts(rows, figure), early \cup late)
          = SumOver(Amounts(rows, figure), early) + SumOver(Amounts(rows, figure), late)
    BY <1>1, <1>3, <1>4, SumOverSplits
  <2> QED
    BY <1>4, <1>5, <2>1
<1>8. ASSUME NEW list \in ListsOf(DOMAIN whole.byPipeline)
      PROVE  whole.cost = Total([k \in DOMAIN list |-> whole.byPipeline[list[k]]])
  <2> DEFINE P == {rows[i].pipeline : i \in own}
  <2> DEFINE K == Cardinality(P)
  <2> DEFINE parts == [k \in 1 .. K |-> {i \in own : rows[i].pipeline = list[k]}]
  <2> DEFINE a == Amounts(rows, "cost")
  <2>1. IsFiniteSet(P)
    <3>1. IsFiniteSet(own)
      <4>1. IsFiniteSet(1 .. n)
        BY <1>1, FS_Interval
      <4> QED
        BY <1>4, <4>1, FS_Subset
    <3> DEFINE f == [i \in own |-> rows[i].pipeline]
    <3>2. f \in Surjection(own, P)
      BY DEF Surjection
    <3> HIDE DEF P, f
    <3> QED
      BY <3>1, <3>2, FS_Surjection
  <2>2. DOMAIN whole.byPipeline = P
    BY <1>5
  <2>3. a \in [1 .. n -> Nat]
    BY <1>3 DEF CostFigures
  <2>4. \A p \in P : whole.byPipeline[p] = SumOver(a, {i \in own : rows[i].pipeline = p})
    BY <1>5
  <2>5. whole.cost = SumOver(a, own)
    BY <1>5 DEF CostFigures
  <2>6. own = {i \in own : rows[i].pipeline \in P}
    OBVIOUS
  <2> HIDE DEF P, a
  <2>7. /\ K \in Nat /\ list \in [1 .. K -> P]
        /\ \A x \in P : \E k \in 1 .. K : list[k] = x
        /\ \A j, k \in 1 .. K : list[j] = list[k] => j = k
    BY <2>1, <2>2, ListsMissNothing
  <2> HIDE DEF K
  <2>8. \A j, k \in 1 .. K : j # k => parts[j] \cap parts[k] = {}
    BY <2>7
  <2>9. \A i : i \in own <=> \E k \in 1 .. K : i \in parts[k]
    BY <2>6, <2>7
  <2>10. \A k \in 1 .. K : parts[k] = {i \in own : rows[i].pipeline = list[k]}
    OBVIOUS
  <2> HIDE DEF parts
  <2> DEFINE f == [k \in DOMAIN list |-> whole.byPipeline[list[k]]]
  <2>11. DOMAIN f = 1 .. K /\ f = [k \in 1 .. K |-> f[k]]
    BY <2>7
  <2>12. \A k \in 1 .. K : f[k] = SumOver(a, parts[k])
    BY <2>4, <2>7, <2>10
  <2> HIDE DEF f
  <2>13. \A k \in 1 .. K : f[k] \in Nat
    <3>1. n \in Nat
      BY <1>1
    <3>2. \A Q : SumOver(a, Q) \in Nat
      BY <2>3, <3>1, SumOverIsNatural, Zenon
    <3> QED
      BY <2>12, <3>2, Zenon
  <2>14. f \in [1 .. K -> Nat]
    BY <2>11, <2>13
  <2>15. Divide(parts, K, own) /\ SumUp(f, a, parts, K)
    BY <2>8, <2>9, <2>12 DEF Divide, SumUp
  <2>16. SumOver(a, own) = Total(f)
    <3>1. n \in Nat /\ K \in Nat
      BY <1>1, <2>7
    <3> QED
      BY <2>3, <2>14, <2>15, <3>1, PartsAddUp
  <2> QED
    BY <2>5, <2>16 DEF f
<1>9. whole = CostReport([i \in DOMAIN rows |-> IF rows[i].tenant = tenant THEN rows[i]
                                              ELSE [rows[i] EXCEPT !.cost = Absent, !.breakdown = Absent]],
                         tenant, Absent, Absent)
  <2> DEFINE free == [i \in DOMAIN rows |-> IF rows[i].tenant = tenant THEN rows[i]
                                            ELSE [rows[i] EXCEPT !.cost = Absent, !.breakdown = Absent]]
  <2> DEFINE theirs == ReportedRows(free, tenant, Absent, Absent)
  <2>1. DOMAIN free = DOMAIN rows
    OBVIOUS
  <2>2. \A i \in DOMAIN rows : /\ free[i].tenant = rows[i].tenant
                               /\ rows[i].tenant = tenant => free[i] = rows[i]
    <3> SUFFICES ASSUME NEW i \in DOMAIN rows
                 PROVE  free[i].tenant = rows[i].tenant /\ (rows[i].tenant = tenant => free[i] = rows[i])
      OBVIOUS
    <3>1. CASE rows[i].tenant = tenant
      BY <3>1
    <3>2. CASE rows[i].tenant # tenant
      <4>1. free[i] = [rows[i] EXCEPT !.cost = Absent, !.breakdown = Absent]
        BY <3>2
      <4>2. DOMAIN rows[i] = {"tenant", "created", "pipeline", "cost", "breakdown"}
        BY <1>1 DEF ReportRows
      <4> QED
        BY <3>2, <4>1, <4>2
    <3> QED
      BY <3>1, <3>2
  <2> HIDE DEF free
  <2>3. theirs = own
    BY <2>1, <2>2 DEF ReportedRows, own, Absent
  <2>4. \A i \in own : free[i] = rows[i]
    BY <2>2 DEF own, ReportedRows
  <2>5. ASSUME NEW figure, NEW some \in SUBSET own
        PROVE  SumOver(Amounts(free, figure), some) = SumOver(Amounts(rows, figure), some)
    <3>1. [i \in DOMAIN Amounts(free, figure) |-> IF i \in some THEN Amounts(free, figure)[i] ELSE 0]
            = [i \in DOMAIN Amounts(rows, figure) |-> IF i \in some THEN Amounts(rows, figure)[i] ELSE 0]
      BY <1>1, <1>4, <2>1, <2>4 DEF Amounts
    <3> QED
      BY <3>1 DEF SumOver
  <2>6. [p \in {free[i].pipeline : i \in own} |->
           SumOver(Amounts(free, "cost"), {i \in own : free[i].pipeline = p})]
          = [p \in {rows[i].pipeline : i \in own} |->
               SumOver(Amounts(rows, "cost"), {i \in own : rows[i].pipeline = p})]
    <3>1. {free[i].pipeline : i \in own} = {rows[i].pipeline : i \in own}
      BY <2>4
    <3>2. ASSUME NEW p
          PROVE  SumOver(Amounts(free, "cost"), {i \in own : free[i].pipeline = p})
                   = SumOver(Amounts(rows, "cost"), {i \in own : rows[i].pipeline = p})
      <4>1. {i \in own : free[i].pipeline = p} = {i \in own : rows[i].pipeline = p}
        BY <2>4
      <4>2. {i \in own : rows[i].pipeline = p} \in SUBSET own
        OBVIOUS
      <4> QED
        BY <2>5, <4>1, <4>2
    <3> QED
      BY <3>1, <3>2
  <2>7. CostReport(free, tenant, Absent, Absent) = whole
    BY <2>3, <2>5, <2>6 DEF CostReport, whole, theirs, own
  <2> QED
    BY <2>7 DEF free
<1> QED
  BY <1>6, <1>7, <1>8, <1>9 DEF ReportsAddUp, CostFigures, whole, before, after

\* Rows of decisions: a time, any route, and a confidence if any.
NumberOrNot == {{}} \cup {{x} : x \in Int}
DecisionRows(routes) == [ts : Int, route : routes, confidence : NumberOrNot]

LEMMA TheNumber ==
    ASSUME NEW option \in NumberOrNot, option # Absent
    PROVE  The(option) \in Int
<1>1. PICK x \in Int : option = {x}
  BY DEF NumberOrNot, Absent
<1> QED
  BY <1>1 DEF The

\* Ones are numbers.
LEMMA OnesAreNumbers ==
    ASSUME NEW n \in Nat
    PROVE  Ones(n) \in [1 .. n -> Nat]
BY DEF Ones

\* Readable confidences lie between 0 and 10, and each has a bin.
LEMMA ConfidencesHaveBins ==
    ASSUME NEW routes, NEW rows \in Seq(DecisionRows(routes))
    PROVE  /\ DOMAIN Confidences(rows) = {i \in DOMAIN rows : IsRead(rows[i].confidence)}
           /\ \A i \in DOMAIN Confidences(rows) : BinOf(Confidences(rows)[i]) \in 0 .. (Bins - 1)
<1> DEFINE R == DecisionRows(routes)
<1>1. \A i \in DOMAIN rows : rows[i] \in R
  <2> HIDE DEF R
  <2>1. rows \in Seq(R)
    BY DEF R
  <2> QED
    BY <2>1
<1>2. DOMAIN Confidences(rows) = {i \in DOMAIN rows : IsRead(rows[i].confidence)}
  BY DEF Confidences
<1>3. ASSUME NEW i \in DOMAIN Confidences(rows)
      PROVE  BinOf(Confidences(rows)[i]) \in 0 .. (Bins - 1)
  <2> DEFINE c == The(rows[i].confidence)
  <2>1. rows[i].confidence \in NumberOrNot /\ rows[i].confidence # Absent
    BY <1>1, <1>2 DEF DecisionRows, IsRead
  <2>2. c \in Int
    BY <2>1, TheNumber
  <2>3. Confidences(rows)[i] = IF c < 0 THEN 0 ELSE IF c > 10 THEN 10 ELSE c
    BY <1>2 DEF Confidences
  <2> HIDE DEF c
  <2>4. PICK d \in 0 .. 10 : Confidences(rows)[i] = d
    BY <2>2, <2>3
  <2>5. (d * 5) \div 10 \in 0 .. 5
    OBVIOUS
  <2> QED
    BY <2>4, <2>5 DEF BinOf, Bins
<1> QED
  BY <1>2, <1>3

\* Every row is counted once, for any number of rows.
LEMMA RowsAreCounted ==
    ASSUME NEW routes, NEW rows \in Seq(DecisionRows(routes))
    PROVE  RowsAreCountedOnce(rows)
<1> DEFINE n == Len(rows)
<1>1. n \in Nat /\ DOMAIN rows = 1 .. n
  <2> DEFINE R == DecisionRows(routes)
  <2>1. rows \in Seq(R)
    OBVIOUS
  <2> HIDE DEF R
  <2> QED
    BY <2>1
<1> HIDE DEF n
<1>2. \A P \in SUBSET (1 .. n) : Cardinality(P) = SumOver(Ones(n), P) /\ SumOver(Ones(n), P) \in Nat
  <2>1. Ones(n) \in [1 .. n -> Nat]
    BY <1>1, OnesAreNumbers
  <2>2. ASSUME NEW P \in SUBSET (1 .. n)
        PROVE  Cardinality(P) = SumOver(Ones(n), P) /\ SumOver(Ones(n), P) \in Nat
    <3>1. Cardinality(P) = SumOver(Ones(n), P)
      BY <1>1, OnesCount
    <3>2. SumOver(Ones(n), P) \in Nat
      BY <1>1, <2>1, SumOverIsNatural
    <3> QED
      BY <3>1, <3>2
  <2> QED
    BY <2>2
<1>3. ASSUME NEW P \in SUBSET (1 .. n), NEW Q \in SUBSET (1 .. n), P \cap Q = {}
      PROVE  /\ Cardinality(P \cup Q) = Cardinality(P) + Cardinality(Q)
             /\ Cardinality(P) \in Nat /\ Cardinality(Q) \in Nat
  <2>1. IsFiniteSet(P) /\ IsFiniteSet(Q)
    <3>1. IsFiniteSet(1 .. n)
      BY <1>1, FS_Interval
    <3> QED
      BY <3>1, FS_Subset
  <2>2. Cardinality(P \cup Q) = Cardinality(P) + Cardinality(Q) - Cardinality(P \cap Q)
    BY <2>1, FS_Union
  <2>3. Cardinality(P \cap Q) = 0 /\ Cardinality(P) \in Nat /\ Cardinality(Q) \in Nat
    BY <1>3, <2>1, FS_EmptySet, FS_CardinalityType
  <2> QED
    BY <2>2, <2>3
<1>4. LET count == RouteDistribution(rows)
      IN  count["approve"] + count["reject"] + count["manual_review"] + count["other"] = n
  <2> DEFINE of(r) == {i \in DOMAIN rows : rows[i].route = r}
  <2> DEFINE A == of("approve")
  <2> DEFINE J == of("reject")
  <2> DEFINE M == of("manual_review")
  <2> DEFINE O == {i \in DOMAIN rows : rows[i].route \notin Routes \ {"other"}}
  <2> DEFINE count == RouteDistribution(rows)
  <2>1. /\ count["approve"] = Cardinality(A) /\ count["reject"] = Cardinality(J)
        /\ count["manual_review"] = Cardinality(M) /\ count["other"] = Cardinality(O)
    BY DEF RouteDistribution, Routes
  <2>2. /\ A \in SUBSET (1 .. n) /\ J \in SUBSET (1 .. n) /\ M \in SUBSET (1 .. n) /\ O \in SUBSET (1 .. n)
        /\ A \cap J = {} /\ (A \cup J) \cap M = {} /\ ((A \cup J) \cup M) \cap O = {}
        /\ ((A \cup J) \cup M) \cup O = 1 .. n
    BY <1>1 DEF Routes
  <2> HIDE DEF A, J, M, O, count
  <2>3. /\ Cardinality(A \cup J) = Cardinality(A) + Cardinality(J)
        /\ Cardinality(A) \in Nat /\ Cardinality(J) \in Nat
    BY <1>3, <2>2
  <2>4. /\ Cardinality((A \cup J) \cup M) = Cardinality(A \cup J) + Cardinality(M)
        /\ Cardinality(M) \in Nat
    <3>1. A \cup J \in SUBSET (1 .. n)
      BY <2>2
    <3> QED
      BY <1>3, <2>2, <3>1
  <2>5. /\ Cardinality(((A \cup J) \cup M) \cup O) = Cardinality((A \cup J) \cup M) + Cardinality(O)
        /\ Cardinality(O) \in Nat
    <3>1. (A \cup J) \cup M \in SUBSET (1 .. n)
      BY <2>2
    <3> QED
      BY <1>3, <2>2, <3>1
  <2>6. Cardinality(1 .. n) = n
    BY <1>1, FS_Interval
  <2>7. Cardinality(A) + Cardinality(J) + Cardinality(M) + Cardinality(O) = n
    BY <2>2, <2>3, <2>4, <2>5, <2>6
  <2> QED
    BY <2>1, <2>7 DEF count
<1>5. Total([b \in 1 .. Bins |-> ConfidenceHistogram(rows)[b - 1]])
        = Cardinality({i \in DOMAIN rows : IsRead(rows[i].confidence)})
  <2> DEFINE values == Confidences(rows)
  <2> DEFINE parts == [b \in 1 .. 5 |-> {i \in DOMAIN values : BinOf(values[i]) = b - 1}]
  <2> DEFINE f == [b \in 1 .. Bins |-> ConfidenceHistogram(rows)[b - 1]]
  <2>1. /\ DOMAIN values = {i \in DOMAIN rows : IsRead(rows[i].confidence)}
        /\ \A i \in DOMAIN values : BinOf(values[i]) \in 0 .. 4
    <3>1. /\ DOMAIN values = {i \in DOMAIN rows : IsRead(rows[i].confidence)}
          /\ \A i \in DOMAIN values : BinOf(values[i]) \in 0 .. (Bins - 1)
      BY ConfidencesHaveBins, Zenon
    <3>2. 0 .. (Bins - 1) = 0 .. 4
      BY DEF Bins
    <3> QED
      BY <3>1, <3>2, Zenon
  <2>2. \A b \in 1 .. 5 : f[b] = Cardinality(parts[b])
    BY DEF ConfidenceHistogram, Bins
  <2>3. f = [b \in 1 .. 5 |-> f[b]]
    BY DEF Bins
  <2>4. DOMAIN values \in SUBSET (1 .. n)
    BY <1>1, <2>1
  <2> HIDE DEF values, f
  <2>5. Divide(parts, 5, DOMAIN values)
    <3>1. \A j, k \in 1 .. 5 : j # k => parts[j] \cap parts[k] = {}
      OBVIOUS
    <3>2. \A i \in DOMAIN values : BinOf(values[i]) + 1 \in 1 .. 5 /\ i \in parts[BinOf(values[i]) + 1]
      BY <2>1
    <3>3. \A k \in 1 .. 5 : parts[k] \subseteq DOMAIN values
      OBVIOUS
    <3> HIDE DEF parts
    <3> QED
      BY <3>1, <3>2, <3>3 DEF Divide
  <2>6. \A b \in 1 .. 5 : parts[b] \in SUBSET (1 .. n)
    BY <2>4
  <2> HIDE DEF parts
  <2>7. SumUp(f, Ones(n), parts, 5)
    BY <1>2, <2>2, <2>6 DEF SumUp
  <2>8. f \in [1 .. 5 -> Nat]
    BY <1>2, <2>2, <2>3, <2>6
  <2>9. Ones(n) \in [1 .. n -> Nat]
    BY <1>1, OnesAreNumbers
  <2>10. SumOver(Ones(n), DOMAIN values) = Total(f)
    <3> DEFINE K == 5
    <3>1. K \in Nat /\ Divide(parts, K, DOMAIN values) /\ SumUp(f, Ones(n), parts, K) /\ f \in [1 .. K -> Nat]
      BY <2>5, <2>7, <2>8
    <3> HIDE DEF K
    <3> QED
      BY <1>1, <2>9, <3>1, PartsAddUp
  <2> QED
    BY <1>2, <2>1, <2>4, <2>10 DEF f
<1> QED
  BY <1>4, <1>5 DEF RowsAreCountedOnce, n

\* Decisions at different times are listed by time.
TimePairs(S) == {p \in S \X S : p[1].ts < p[2].ts}

LEMMA TimesAreOrdered ==
    ASSUME NEW S, \A d \in S : d.ts \in Int, \A d, e \in S : d.ts = e.ts => d = e
    PROVE  Orders(TimePairs(S), S)
<1>1. \A d, e \in S : <<d, e>> \in TimePairs(S) <=> d.ts < e.ts
  BY DEF TimePairs
<1>2. ASSUME NEW d \in S, NEW e \in S PROVE <<d, e>> \in TimePairs(S) \/ <<e, d>> \in TimePairs(S) \/ d = e
  <2>1. d.ts \in Int /\ e.ts \in Int /\ (d.ts = e.ts => d = e)
    OBVIOUS
  <2>2. d.ts < e.ts \/ e.ts < d.ts \/ d.ts = e.ts
    BY <2>1
  <2> QED
    BY <1>1, <2>1, <2>2, Zenon
<1>3. ASSUME NEW d \in S PROVE <<d, d>> \notin TimePairs(S)
  BY <1>1
<1>4. ASSUME NEW d \in S, NEW e \in S, NEW f \in S, <<d, e>> \in TimePairs(S), <<e, f>> \in TimePairs(S)
      PROVE  <<d, f>> \in TimePairs(S)
  <2>1. d.ts \in Int /\ e.ts \in Int /\ f.ts \in Int /\ d.ts < e.ts /\ e.ts < f.ts
    BY <1>1, <1>4
  <2>2. d.ts < f.ts
    BY <2>1
  <2> QED
    BY <1>1, <2>2, Zenon
<1> QED
  BY <1>2, <1>3, <1>4 DEF Orders

\* Rows that have every member of S once.
Enumerates(rows, n, S) ==
    /\ \A i, j \in 1 .. n : rows[i] = rows[j] => i = j
    /\ \A d \in S : \E i \in 1 .. n : rows[i] = d

LEMMA DecisionsByTime ==
    ASSUME NEW n \in Nat, NEW S, NEW rows \in [1 .. n -> S], Orders(TimePairs(S), S), Enumerates(rows, n, S)
    PROVE  Lists(ByTime(rows), n, S, TimePairs(S))
<1> DEFINE less == TimePairs(S)
<1> DEFINE before == {p \in (DOMAIN rows) \X (DOMAIN rows) : rows[p[1]].ts < rows[p[2]].ts}
<1>1. /\ \A i, j \in 1 .. n : rows[i] = rows[j] => i = j
      /\ \A d \in S : \E i \in 1 .. n : rows[i] = d
  BY DEF Enumerates
<1>2. \A i, j \in 1 .. n : <<i, j>> \in before <=> <<rows[i], rows[j]>> \in TimePairs(S)
  <2>1. \A i, j \in 1 .. n : <<i, j>> \in before <=> rows[i].ts < rows[j].ts
    OBVIOUS
  <2>2. \A i, j \in 1 .. n : <<rows[i], rows[j]>> \in TimePairs(S) <=> rows[i].ts < rows[j].ts
    BY DEF TimePairs
  <2> QED
    BY <2>1, <2>2
<1>3. ByTime(rows) = StablySorted(rows, before)
  BY DEF ByTime
<1>4. Orders(less, S) /\ \A i, j \in 1 .. n : <<i, j>> \in before <=> <<rows[i], rows[j]>> \in less
  BY <1>2
<1> HIDE DEF before, less
<1>5. Lists(StablySorted(rows, before), n, S, less)
  BY <1>1, <1>4, StableSortLists
<1> QED
  BY <1>3, <1>5 DEF less

\* The signals do not depend on the order in which rows are read.
LEMMA DriftDependsOnTime ==
    ASSUME NEW routes, NEW rows \in Seq(DecisionRows(routes)), NEW moved, NEW baseline, NEW current
    PROVE  DriftFollowsTime(rows, moved, baseline, current)
<1> DEFINE places == DOMAIN rows
<1> DEFINE theirs == [i \in places |-> rows[moved[i]]]
<1> SUFFICES ASSUME \A i, j \in places : rows[i].ts = rows[j].ts => i = j,
                    moved \in [places -> places],
                    \A i, j \in places : moved[i] = moved[j] => i = j
             PROVE  RoutingDrift(theirs, baseline, current) = RoutingDrift(rows, baseline, current)
  BY DEF DriftFollowsTime
<1> DEFINE n == Len(rows)
<1> DEFINE R == DecisionRows(routes)
<1> DEFINE S == ItemsOf(rows)
<1>1. n \in Nat /\ places = 1 .. n /\ \A i \in places : rows[i] \in R
  <2> HIDE DEF R
  <2>1. rows \in Seq(R)
    BY DEF R
  <2> QED
    BY <2>1
<1>2. \A i \in places : rows[i].ts \in Int
  BY <1>1 DEF DecisionRows
<1>3. rows \in [1 .. n -> S]
  <2>1. rows = [i \in 1 .. n |-> rows[i]]
    <3> HIDE DEF R
    <3>1. rows \in Seq(R)
      BY DEF R
    <3> QED
      BY <3>1
  <2> QED
    BY <1>1, <2>1 DEF ItemsOf
<1>4. /\ \A d \in S : d.ts \in Int
      /\ \A d, e \in S : d.ts = e.ts => d = e
      /\ Enumerates(rows, n, S)
  BY <1>1, <1>2 DEF ItemsOf, Enumerates
<1> HIDE DEF n, S, R
<1>5. moved \in Surjection(1 .. n, 1 .. n)
  <2>1. moved \in Injection(1 .. n, 1 .. n)
    BY <1>1 DEF Injection, IsInjective
  <2>2. IsFiniteSet(1 .. n)
    BY <1>1, FS_Interval
  <2> QED
    BY <2>1, <2>2, FS_Injection
<1>6. \A j \in 1 .. n : \E i \in 1 .. n : moved[i] = j
  BY <1>5 DEF Surjection
<1>7. theirs \in [1 .. n -> S] /\ Enumerates(theirs, n, S)
  <2>1. \A i \in 1 .. n : moved[i] \in 1 .. n /\ theirs[i] = rows[moved[i]]
    BY <1>1
  <2>2. theirs \in [1 .. n -> S]
    BY <1>1, <1>3, <2>1
  <2> HIDE DEF theirs
  <2>3. \A i, j \in 1 .. n : theirs[i] = theirs[j] => i = j
    BY <1>1, <1>4, <2>1 DEF Enumerates
  <2>4. ASSUME NEW d \in S PROVE \E i \in 1 .. n : theirs[i] = d
    <3>1. PICK j \in 1 .. n : rows[j] = d
      BY <1>4 DEF Enumerates
    <3>2. PICK i \in 1 .. n : moved[i] = j
      BY <1>6
    <3> QED
      BY <2>1, <3>1, <3>2
  <2> QED
    BY <2>2, <2>3, <2>4 DEF Enumerates
<1> HIDE DEF places, theirs
<1>8. Orders(TimePairs(S), S)
  BY <1>4, TimesAreOrdered
<1>9. Lists(ByTime(rows), n, S, TimePairs(S))
  BY <1>1, <1>3, <1>4, <1>8, DecisionsByTime
<1>10. Lists(ByTime(theirs), n, S, TimePairs(S))
  BY <1>1, <1>7, <1>8, DecisionsByTime
<1>11. ByTime(theirs) = ByTime(rows)
  BY <1>1, <1>8, <1>9, <1>10, ListsAreUnique
<1> QED
  BY <1>11, Zenon DEF RoutingDrift

\* Runs with what the score reads of them.
ScoredRuns(statuses) == [status : statuses, confidences : Seq(Nat), driftHits : Nat]
ScoredPolicies == [entityTypes : Nat, threshold : NumberOrNot, flags : {{}} \cup {{k} : k \in Nat}]
AreScored(runs) ==
    /\ Len(runs) \in Nat /\ DOMAIN runs = 1 .. Len(runs)
    /\ \A j \in 1 .. Len(runs) : runs[j].confidences \in Seq(Nat) /\ runs[j].driftHits \in Nat

LEMMA ClampedIsBounded ==
    ASSUME NEW x \in Int
    PROVE  Clamped(x) \in 0 .. 100
BY DEF Clamped

LEMMA ClampedIsMonotone ==
    ASSUME NEW x \in Int, NEW y \in Int, x <= y
    PROVE  Clamped(x) <= Clamped(y)
BY DEF Clamped

\* The total of numbers that are given place by place.
LEMMA TotalOfNumbers ==
    ASSUME NEW n \in Nat, NEW f \in [1 .. n -> Nat]
    PROVE  Total(f) \in Nat
<1>1. f \in Seq(Nat)
  OBVIOUS
<1> QED
  BY <1>1, TotalIsNatural

\* The variance is a number, whatever the confidences are.
LEMMA StabilityIsBounded ==
    ASSUME NEW runs, AreScored(runs)
    PROVE  Stability(runs) \in 0 .. 100
<1> DEFINE N == Len(runs)
<1> DEFINE confs == [i \in DOMAIN runs |-> runs[i].confidences]
<1> DEFINE lengths == [i \in DOMAIN runs |-> Len(confs[i])]
<1> DEFINE sums == [i \in DOMAIN runs |-> Total(confs[i])]
<1> DEFINE squared == [i \in DOMAIN runs |-> Total([k \in DOMAIN confs[i] |-> confs[i][k] * confs[i][k]])]
<1> DEFINE n == Total(lengths)
<1> DEFINE sum == Total(sums)
<1> DEFINE squares == Total(squared)
<1>1. N \in Nat /\ DOMAIN runs = 1 .. N /\ \A i \in 1 .. N : confs[i] \in Seq(Nat)
  BY DEF AreScored
<1>2. Stability(runs) = IF n <= 1 THEN 70 ELSE Clamped(100 - (2 * (n * squares - sum * sum)) \div (n * n))
  BY DEF Stability
<1> HIDE DEF N, confs
<1>3. \A i \in 1 .. N : Len(confs[i]) \in Nat /\ Total(confs[i]) \in Nat
  BY <1>1, TotalIsNatural
<1>4. ASSUME NEW i \in 1 .. N
      PROVE  Total([k \in DOMAIN confs[i] |-> confs[i][k] * confs[i][k]]) \in Nat
  <2> DEFINE c == confs[i]
  <2> DEFINE f == [k \in DOMAIN c |-> c[k] * c[k]]
  <2>1. c \in Seq(Nat)
    BY <1>1
  <2> HIDE DEF c
  <2>2. Len(c) \in Nat /\ DOMAIN c = 1 .. Len(c) /\ \A k \in 1 .. Len(c) : c[k] \in Nat
    BY <2>1
  <2>3. \A x \in Nat : x * x \in Nat
    OBVIOUS
  <2>4. f \in [1 .. Len(c) -> Nat]
    BY <2>2, <2>3
  <2> HIDE DEF f
  <2>5. Total(f) \in Nat
    BY <2>2, <2>4, TotalOfNumbers
  <2> QED
    BY <2>5 DEF f, c
<1>5. lengths \in [1 .. N -> Nat] /\ sums \in [1 .. N -> Nat] /\ squared \in [1 .. N -> Nat]
  BY <1>1, <1>3, <1>4
<1> HIDE DEF lengths, sums, squared
<1>6. n \in Nat /\ sum \in Nat /\ squares \in Nat
  BY <1>1, <1>5, TotalOfNumbers
<1> HIDE DEF n, sum, squares
<1>7. CASE n > 1
  <2>1. n * n \in Nat /\ n * n > 0
    BY <1>6, <1>7
  <2>2. 2 * (n * squares - sum * sum) \in Int
    BY <1>6
  <2>3. \A x \in Int, y \in Nat : y > 0 => 100 - x \div y \in Int
    OBVIOUS
  <2>4. 100 - (2 * (n * squares - sum * sum)) \div (n * n) \in Int
    BY <2>1, <2>2, <2>3
  <2> HIDE DEF n, sum, squares
  <2>5. Clamped(100 - (2 * (n * squares - sum * sum)) \div (n * n)) \in 0 .. 100
    BY <2>4, ClampedIsBounded
  <2> QED
    BY <1>2, <1>6, <1>7, <2>5
<1> QED
  BY <1>2, <1>6, <1>7

\* The stability is a matter of the confidences alone.
LEMMA StabilityOfConfidences ==
    ASSUME NEW runs, NEW others, DOMAIN others = DOMAIN runs,
           \A i \in DOMAIN runs : others[i].confidences = runs[i].confidences
    PROVE  Stability(others) = Stability(runs)
<1>1. [i \in DOMAIN others |-> others[i].confidences] = [i \in DOMAIN runs |-> runs[i].confidences]
  OBVIOUS
<1> DEFINE ours == [i \in DOMAIN runs |-> runs[i].confidences]
<1> DEFINE value(confs) ==
      LET n == Total([i \in DOMAIN runs |-> Len(confs[i])])
          sum == Total([i \in DOMAIN runs |-> Total(confs[i])])
          squares == Total([i \in DOMAIN runs |-> Total([k \in DOMAIN confs[i] |-> confs[i][k] * confs[i][k]])])
      IN  IF n <= 1 THEN 70 ELSE Clamped(100 - (2 * (n * squares - sum * sum)) \div (n * n))
<1>2. Stability(runs) = value(ours)
  BY Zenon DEF Stability
<1>3. Stability(others) = value([i \in DOMAIN others |-> others[i].confidences])
  BY Zenon DEF Stability
<1> HIDE DEF value
<1> QED
  BY <1>1, <1>2, <1>3, Zenon

\* A score is a weighted sum, and policies alone decide three of its parts.
Weighs(policies, a, b, f) ==
    \A runs : runs # <<>> =>
      SafetyScore(runs, policies) =
        20 * a + 20 * b + 15 * Clamped(100 - 5 * runs[1].driftHits) + 15 * Stability(runs)
        + 20 * ErrorComponent(runs) + 10 * f

LEMMA ScoreIsWeighted ==
    ASSUME NEW policies \in ScoredPolicies
    PROVE  \E a, b, f \in 0 .. 100 : Weighs(policies, a, b, f)
<1> DEFINE a == Clamped(8 * policies.entityTypes)
<1> DEFINE b == Clamped(IF IsRead(policies.threshold) THEN The(policies.threshold) ELSE 70)
<1> DEFINE f == IF policies.flags = Absent THEN 50 ELSE Clamped(40 + 20 * The(policies.flags))
<1>1. a \in 0 .. 100
  <2>1. 8 * policies.entityTypes \in Int
    BY DEF ScoredPolicies
  <2> QED
    BY <2>1, ClampedIsBounded
<1>2. b \in 0 .. 100
  <2>1. policies.threshold \in NumberOrNot
    BY DEF ScoredPolicies
  <2>2. (IF IsRead(policies.threshold) THEN The(policies.threshold) ELSE 70) \in Int
    BY <2>1, TheNumber DEF IsRead
  <2> QED
    BY <2>2, ClampedIsBounded
<1>3. f \in 0 .. 100
  <2>1. CASE policies.flags # Absent
    <3>1. PICK k \in Nat : policies.flags = {k}
      BY <2>1 DEF ScoredPolicies, Absent
    <3>2. The(policies.flags) = k
      BY <3>1 DEF The
    <3>3. 40 + 20 * The(policies.flags) \in Int
      BY <3>2
    <3> QED
      BY <2>1, <3>3, ClampedIsBounded
  <2> QED
    BY <2>1
<1>4. \A runs : runs # <<>> =>
        SafetyScore(runs, policies) =
          20 * a + 20 * b + 15 * Clamped(100 - 5 * runs[1].driftHits) + 15 * Stability(runs)
          + 20 * ErrorComponent(runs) + 10 * f
  BY DEF SafetyScore
<1> HIDE DEF a, b, f
<1>5. Weighs(policies, a, b, f)
  BY <1>4 DEF Weighs
<1> QED
  BY <1>1, <1>2, <1>3, <1>5, Zenon

\* The share of successes, of any number of runs.
Failures(runs) == {j \in DOMAIN runs : runs[j].status # "success"}

LEMMA FailuresAreCounted ==
    ASSUME NEW runs, AreScored(runs), runs # <<>>, DOMAIN runs # {}
    PROVE  /\ IsFiniteSet(Failures(runs)) /\ Cardinality(Failures(runs)) \in 0 .. Len(runs)
           /\ Len(runs) \in Nat \ {0}
           /\ ErrorComponent(runs) = Clamped(((Len(runs) - Cardinality(Failures(runs))) * 100) \div Len(runs))
           /\ ((Len(runs) - Cardinality(Failures(runs))) * 100) \div Len(runs) \in Int
           /\ ErrorComponent(runs) \in 0 .. 100
<1> DEFINE n == Len(runs)
<1> DEFINE errors == Failures(runs)
<1> DEFINE e == Cardinality(errors)
<1>1. n \in Nat \ {0} /\ DOMAIN runs = 1 .. n
  BY DEF AreScored
<1>2. ErrorComponent(runs) = Clamped(((n - e) * 100) \div n)
  BY DEF ErrorComponent, Failures
<1>3. errors \subseteq 1 .. n
  BY <1>1 DEF Failures
<1> HIDE DEF n, errors
<1>4. IsFiniteSet(errors) /\ e \in 0 .. n
  <2>1. IsFiniteSet(1 .. n) /\ Cardinality(1 .. n) = n
    BY <1>1, FS_Interval
  <2>2. IsFiniteSet(errors) /\ e <= n
    BY <1>3, <2>1, FS_Subset
  <2>3. e \in Nat
    BY <2>2, FS_CardinalityType
  <2> QED
    BY <1>1, <2>2, <2>3
<1> HIDE DEF e
<1>5. ((n - e) * 100) \div n \in Int
  <2>1. (n - e) * 100 \in Int
    BY <1>1, <1>4
  <2>2. \A x \in Int, y \in Nat \ {0} : x \div y \in Int
    OBVIOUS
  <2> QED
    BY <1>1, <2>1, <2>2
<1>6. ErrorComponent(runs) \in 0 .. 100
  BY <1>2, <1>5, ClampedIsBounded
<1> QED
  BY <1>1, <1>2, <1>4, <1>5, <1>6 DEF n, errors, e

\* Shares grow with what they are shares of.
LEMMA SharesGrow ==
    ASSUME NEW n \in Nat \ {0}, NEW x \in Int, NEW y \in Int, x <= y
    PROVE  x \div n <= y \div n
OBVIOUS

\* Neither a failure nor a hit of drift raises the score.
LEMMA ScoreFalls ==
    ASSUME NEW statuses, NEW runs \in Seq(ScoredRuns(statuses)), NEW policies \in ScoredPolicies
    PROVE  ScoreFallsWithFailures(runs, policies)
<1> DEFINE n == Len(runs)
<1> DEFINE R == ScoredRuns(statuses)
<1> DEFINE score(some) == SafetyScore(some, policies)
<1>1. n \in Nat /\ DOMAIN runs = 1 .. n /\ (\A i \in 1 .. n : runs[i] \in R) /\ (runs = <<>> <=> n = 0)
  <2> HIDE DEF R
  <2>1. runs \in Seq(R)
    BY DEF R
  <2> QED
    BY <2>1
<1>2. AreScored(runs)
  BY <1>1 DEF AreScored, ScoredRuns
<1>3. PICK a \in 0 .. 100, b \in 0 .. 100, f \in 0 .. 100 : Weighs(policies, a, b, f)
  BY ScoreIsWeighted, Zenon
<1>4. runs = <<>> => score(runs) = 5000
  BY DEF SafetyScore
<1>5. \A some : some # <<>> =>
        score(some) =
          20 * a + 20 * b + 15 * Clamped(100 - 5 * some[1].driftHits) + 15 * Stability(some)
          + 20 * ErrorComponent(some) + 10 * f
  BY <1>3 DEF Weighs
<1> HIDE DEF n, score
<1>6. ASSUME NEW some, AreScored(some), DOMAIN some # {}, some # <<>>
      PROVE  \E d, s, e \in 0 .. 100 :
               /\ d = Clamped(100 - 5 * some[1].driftHits) /\ s = Stability(some) /\ e = ErrorComponent(some)
               /\ score(some) = 20 * a + 20 * b + 15 * d + 15 * s + 20 * e + 10 * f
  <2>1. Clamped(100 - 5 * some[1].driftHits) \in 0 .. 100
    <3>1. 1 \in 1 .. Len(some) /\ some[1].driftHits \in Nat
      BY <1>6 DEF AreScored
    <3>2. 100 - 5 * some[1].driftHits \in Int
      BY <3>1
    <3> QED
      BY <3>2, ClampedIsBounded
  <2>2. Stability(some) \in 0 .. 100
    BY <1>6, StabilityIsBounded
  <2>3. ErrorComponent(some) \in 0 .. 100
    BY <1>6, FailuresAreCounted
  <2> QED
    BY <1>5, <1>6, <2>1, <2>2, <2>3, Zenon
<1>7. score(runs) \in 0 .. 10000
  <2>1. CASE runs # <<>>
    <3>1. DOMAIN runs # {}
      BY <1>1, <2>1
    <3>2. PICK d \in 0 .. 100, s \in 0 .. 100, e \in 0 .. 100 :
            score(runs) = 20 * a + 20 * b + 15 * d + 15 * s + 20 * e + 10 * f
      <4>1. \E d, s, e \in 0 .. 100 :
               /\ d = Clamped(100 - 5 * runs[1].driftHits) /\ s = Stability(runs) /\ e = ErrorComponent(runs)
               /\ score(runs) = 20 * a + 20 * b + 15 * d + 15 * s + 20 * e + 10 * f
        BY <1>2, <1>6, <2>1, <3>1
      <4> QED
        BY <4>1, Zenon
    <3> QED
      BY <3>2
  <2> QED
    BY <1>4, <2>1
<1>8. ASSUME NEW i \in DOMAIN runs, NEW more,
             more \in {[runs EXCEPT ![i].status = "failed"], [runs EXCEPT ![i].driftHits = @ + 1]}
      PROVE  score(more) <= score(runs)
  <2>1. \A j \in 1 .. n : DOMAIN runs[j] = {"status", "confidences", "driftHits"}
    BY <1>1 DEF ScoredRuns
  <2>2. more = [j \in 1 .. n |-> more[j]] /\ DOMAIN more = 1 .. n
    BY <1>1, <1>8
  <2>3. /\ \A j \in 1 .. n : /\ more[j].confidences = runs[j].confidences
                            /\ more[j].driftHits \in {runs[j].driftHits, runs[j].driftHits + 1}
                            /\ more[j].status \in {runs[j].status, "failed"}
    <3>1. CASE more = [runs EXCEPT ![i].status = "failed"]
      BY <1>1, <2>1, <3>1
    <3>2. CASE more = [runs EXCEPT ![i].driftHits = @ + 1]
      BY <1>1, <2>1, <3>2
    <3> QED
      BY <1>8, <3>1, <3>2
  <2>4. \A j \in 1 .. n : runs[j].confidences \in Seq(Nat) /\ runs[j].driftHits \in Nat
    BY <1>1 DEF ScoredRuns
  <2>5. Len(more) = n
    BY <1>1, <2>2
  <2>6. AreScored(more)
    BY <1>1, <2>2, <2>3, <2>4, <2>5 DEF AreScored
  <2>7. DOMAIN runs # {} /\ DOMAIN more # {} /\ runs # <<>> /\ more # <<>> /\ 1 \in 1 .. n
    BY <1>1, <2>2, <2>5
  <2>8. PICK d \in 0 .. 100, s \in 0 .. 100, e \in 0 .. 100 :
          /\ d = Clamped(100 - 5 * runs[1].driftHits) /\ s = Stability(runs) /\ e = ErrorComponent(runs)
          /\ score(runs) = 20 * a + 20 * b + 15 * d + 15 * s + 20 * e + 10 * f
    BY <1>2, <1>6, <2>7, Zenon
  <2>9. PICK d1 \in 0 .. 100, s1 \in 0 .. 100, e1 \in 0 .. 100 :
          /\ d1 = Clamped(100 - 5 * more[1].driftHits) /\ s1 = Stability(more) /\ e1 = ErrorComponent(more)
          /\ score(more) = 20 * a + 20 * b + 15 * d1 + 15 * s1 + 20 * e1 + 10 * f
    BY <1>6, <2>6, <2>7, Zenon
  <2>10. s1 = s
    <3>1. Stability(more) = Stability(runs)
      BY <1>1, <2>2, <2>3, StabilityOfConfidences
    <3> QED
      BY <2>8, <2>9, <3>1, Zenon
  <2>11. d1 <= d
    <3>1. PICK x \in Nat, y \in Nat : x = runs[1].driftHits /\ y = more[1].driftHits /\ x <= y
      BY <2>3, <2>4, <2>7
    <3>2. 100 - 5 * y \in Int /\ 100 - 5 * x \in Int /\ 100 - 5 * y <= 100 - 5 * x
      BY <3>1
    <3>3. Clamped(100 - 5 * y) <= Clamped(100 - 5 * x)
      BY <3>2, ClampedIsMonotone
    <3> QED
      BY <2>8, <2>9, <3>1, <3>3, Zenon
  <2>12. e1 <= e
    <3> DEFINE p == Cardinality(Failures(runs))
    <3> DEFINE q == Cardinality(Failures(more))
    <3>1. /\ p \in 0 .. n /\ n \in Nat \ {0} /\ ((n - p) * 100) \div n \in Int
          /\ ErrorComponent(runs) = Clamped(((n - p) * 100) \div n)
      BY <1>2, <2>7, FailuresAreCounted DEF n
    <3>2. /\ IsFiniteSet(Failures(more)) /\ q \in 0 .. n /\ ((n - q) * 100) \div n \in Int
          /\ ErrorComponent(more) = Clamped(((n - q) * 100) \div n)
      BY <2>5, <2>6, <2>7, FailuresAreCounted
    <3>3. p <= q
      <4>1. Failures(runs) \subseteq Failures(more)
        BY <1>1, <2>2, <2>3 DEF Failures
      <4> QED
        BY <3>2, <4>1, FS_Subset
    <3> HIDE DEF p, q
    <3>4. (n - q) * 100 \in Int /\ (n - p) * 100 \in Int /\ (n - q) * 100 <= (n - p) * 100
      BY <3>1, <3>2, <3>3
    <3>5. ((n - q) * 100) \div n <= ((n - p) * 100) \div n
      BY <3>1, <3>4, SharesGrow
    <3>6. Clamped(((n - q) * 100) \div n) <= Clamped(((n - p) * 100) \div n)
      BY <3>1, <3>2, <3>5, ClampedIsMonotone
    <3> QED
      BY <2>8, <2>9, <3>1, <3>2, <3>6, Zenon
  <2>13. 20 * a + 20 * b + 15 * d1 + 15 * s + 20 * e1 + 10 * f <= 20 * a + 20 * b + 15 * d + 15 * s + 20 * e + 10 * f
    BY <2>11, <2>12
  <2> QED
    BY <2>8, <2>9, <2>10, <2>13, Zenon
<1>9. \A i \in DOMAIN runs : /\ score([runs EXCEPT ![i].status = "failed"]) <= score(runs)
                            /\ score([runs EXCEPT ![i].driftHits = @ + 1]) <= score(runs)
  BY <1>8
<1> QED
  BY <1>7, <1>9 DEF ScoreFallsWithFailures, score

\* Steps with a type, a model and tokens, and prices given for them.
PricedSteps(types, models) == [type : types, model : models, promptTokens : Nat, completionTokens : Nat]
GivenForTokens == [prompt : NumberOrNot, completion : NumberOrNot]

LEMMA ReadNumber ==
    ASSUME NEW option \in NumberOrNot, IsRead(option)
    PROVE  The(option) \in option \ {Unreadable}
<1>1. PICK x \in Int : option = {x}
  BY DEF NumberOrNot, IsRead, Absent
<1> QED
  BY <1>1 DEF The, IsRead

\* A price is the model's own or a given one that can be read.
LEMMA PricesAreOwnOrGiven ==
    ASSUME NEW model, NEW override \in GivenForTokens
    PROVE  LET own == Prices(model, [prompt |-> Absent, completion |-> Absent])
               prices == Prices(model, override)
           IN /\ prices.prompt \in {own.prompt} \cup (override.prompt \ {Unreadable})
              /\ prices.completion \in {own.completion} \cup (override.completion \ {Unreadable})
<1> DEFINE base == DefaultPrices[IF model \in DOMAIN DefaultPrices THEN model ELSE DefaultModel]
<1> DEFINE prompt == IF IsRead(override.prompt) THEN The(override.prompt) ELSE base.prompt
<1> DEFINE own == Prices(model, [prompt |-> Absent, completion |-> Absent])
<1> DEFINE prices == Prices(model, override)
<1>1. DOMAIN base = {"prompt", "completion"}
  BY DEF DefaultPrices, DefaultModel
<1>2. ~IsRead(Absent)
  BY DEF IsRead
<1>3. own = [base EXCEPT !.prompt = base.prompt]
  BY <1>2 DEF Prices
<1>4. prices = IF override.prompt = {Unreadable} \/ ~IsRead(override.completion)
               THEN [base EXCEPT !.prompt = prompt]
               ELSE [prompt |-> prompt, completion |-> The(override.completion)]
  BY DEF Prices
<1> HIDE DEF base, own, prices
<1>5. own.prompt = base.prompt /\ own.completion = base.completion
  BY <1>1, <1>3
<1>6. prompt \in {base.prompt} \cup (override.prompt \ {Unreadable})
  <2>1. override.prompt \in NumberOrNot
    BY DEF GivenForTokens
  <2> QED
    BY <2>1, ReadNumber
<1> HIDE DEF prompt
<1>7. prices.prompt = prompt
  BY <1>1, <1>4
<1>8. prices.completion \in {base.completion} \cup (override.completion \ {Unreadable})
  <2>1. CASE override.prompt = {Unreadable} \/ ~IsRead(override.completion)
    BY <1>1, <1>4, <2>1
  <2>2. CASE ~(override.prompt = {Unreadable} \/ ~IsRead(override.completion))
    <3>1. override.completion \in NumberOrNot
      BY DEF GivenForTokens
    <3>2. The(override.completion) \in override.completion \ {Unreadable}
      BY <2>2, <3>1, ReadNumber
    <3> QED
      BY <1>4, <2>2, <3>2
  <2> QED
    BY <2>1, <2>2
<1> QED
  BY <1>5, <1>6, <1>7, <1>8 DEF own, prices

\* The tokens a run is priced for.
LEMMA TokensAreReported ==
    ASSUME NEW types, NEW models, NEW steps \in Seq(PricedSteps(types, models)), NEW inputLength, NEW outputLength
    PROVE  LET usage == TokenUsage(steps, inputLength, outputLength)
               silent == \A i \in DOMAIN steps : steps[i].promptTokens = 0 /\ steps[i].completionTokens = 0
           IN /\ usage.model = ModelOf(steps)
              /\ usage.prompt = IF silent THEN inputLength ELSE Total([i \in DOMAIN steps |-> steps[i].promptTokens])
              /\ usage.completion =
                   IF silent THEN outputLength ELSE Total([i \in DOMAIN steps |-> steps[i].completionTokens])
<1> DEFINE n == Len(steps)
<1> DEFINE R == PricedSteps(types, models)
<1> DEFINE p == [i \in DOMAIN steps |-> steps[i].promptTokens]
<1> DEFINE c == [i \in DOMAIN steps |-> steps[i].completionTokens]
<1> DEFINE silent == \A i \in DOMAIN steps : steps[i].promptTokens = 0 /\ steps[i].completionTokens = 0
<1> DEFINE usage == TokenUsage(steps, inputLength, outputLength)
<1>1. n \in Nat /\ DOMAIN steps = 1 .. n /\ \A i \in 1 .. n : steps[i] \in R
  <2> HIDE DEF R
  <2>1. steps \in Seq(R)
    BY DEF R
  <2> QED
    BY <2>1
<1>2. /\ usage.model = ModelOf(steps)
      /\ usage.prompt = IF Total(p) # 0 \/ Total(c) # 0 THEN Total(p) ELSE inputLength
      /\ usage.completion = IF Total(p) # 0 \/ Total(c) # 0 THEN Total(c) ELSE outputLength
  BY DEF TokenUsage
<1>3. p \in [1 .. n -> Nat] /\ c \in [1 .. n -> Nat]
  BY <1>1 DEF PricedSteps
<1>4. silent <=> (\A i \in 1 .. n : p[i] = 0) /\ (\A i \in 1 .. n : c[i] = 0)
  BY <1>1
<1> HIDE DEF n, R, p, c, silent, usage
<1>5. silent <=> Total(p) = 0 /\ Total(c) = 0
  <2>1. Total(p) = 0 <=> \A i \in 1 .. n : p[i] = 0
    BY <1>1, <1>3, TotalOfZeros
  <2>2. Total(c) = 0 <=> \A i \in 1 .. n : c[i] = 0
    BY <1>1, <1>3, TotalOfZeros
  <2> QED
    BY <1>4, <2>1, <2>2
<1>6. /\ usage.model = ModelOf(steps)
      /\ usage.prompt = IF silent THEN inputLength ELSE Total(p)
      /\ usage.completion = IF silent THEN outputLength ELSE Total(c)
  BY <1>2, <1>5
<1> QED
  BY <1>6 DEF usage, silent, p, c

\* The model of a run is the first one an AI step names.
LEMMA ModelIsTheFirst ==
    ASSUME NEW types, NEW models, NEW steps \in Seq(PricedSteps(types, models))
    PROVE  LET names(i) == steps[i].type = "ai" /\ steps[i].model # ""
           IN IF \E i \in DOMAIN steps : names(i)
              THEN \E i \in DOMAIN steps : /\ names(i) /\ ModelOf(steps) = steps[i].model
                                           /\ \A j \in 1 .. (i - 1) : ~names(j)
              ELSE ModelOf(steps) = DefaultModel
<1> DEFINE named == {i \in DOMAIN steps : steps[i].type = "ai" /\ steps[i].model # ""}
<1> DEFINE n == Len(steps)
<1>1. n \in Nat /\ DOMAIN steps = 1 .. n
  <2> DEFINE R == PricedSteps(types, models)
  <2>1. steps \in Seq(R)
    OBVIOUS
  <2> HIDE DEF R
  <2> QED
    BY <2>1
<1> HIDE DEF n
<1>2. CASE named = {}
  BY <1>2 DEF ModelOf
<1>3. CASE named # {}
  <2> DEFINE first == CHOOSE i \in named : \A j \in named : i <= j
  <2>1. named \subseteq 1 .. n /\ named \subseteq Nat
    <3>1. named \subseteq DOMAIN steps
      OBVIOUS
    <3> HIDE DEF named
    <3> QED
      BY <1>1, <3>1
  <2>2. ModelOf(steps) = steps[first].model
    BY <1>3, Zenon DEF ModelOf
  <2> HIDE DEF named
  <2>3. \E i \in named : \A j \in named : i <= j
    BY <1>3, <2>1, LeastNumber
  <2>4. first \in named /\ \A j \in named : first <= j
    BY <2>3
  <2> HIDE DEF first
  <2>5. first \in 1 .. n /\ \A j \in 1 .. (first - 1) : j \in DOMAIN steps /\ ~(first <= j)
    BY <1>1, <2>1, <2>4
  <2>6. \A j \in 1 .. (first - 1) : ~(steps[j].type = "ai" /\ steps[j].model # "")
    BY <2>4, <2>5 DEF named
  <2>7. /\ first \in DOMAIN steps /\ steps[first].type = "ai" /\ steps[first].model # ""
    BY <2>4 DEF named
  <2> QED
    BY <2>2, <2>6, <2>7
<1> QED
  BY <1>2, <1>3

\* Runs are priced, for any number of steps and any prices given.
LEMMA RunsPriced ==
    ASSUME NEW types, NEW models, NEW steps \in Seq(PricedSteps(types, models)),
           NEW inputLength, NEW outputLength, NEW override \in GivenForTokens
    PROVE  RunsArePriced(steps, inputLength, outputLength, override)
<1> DEFINE usage == TokenUsage(steps, inputLength, outputLength)
<1> DEFINE own == Prices(usage.model, [prompt |-> Absent, completion |-> Absent])
<1> DEFINE prices == Prices(usage.model, override)
<1> DEFINE silent == \A i \in DOMAIN steps : steps[i].promptTokens = 0 /\ steps[i].completionTokens = 0
<1> DEFINE prompt == IF silent THEN inputLength ELSE Total([i \in DOMAIN steps |-> steps[i].promptTokens])
<1> DEFINE completion == IF silent THEN outputLength ELSE Total([i \in DOMAIN steps |-> steps[i].completionTokens])
<1>1. usage.model = ModelOf(steps) /\ usage.prompt = prompt /\ usage.completion = completion
  BY TokensAreReported
<1>2. /\ prices.prompt \in {own.prompt} \cup (override.prompt \ {Unreadable})
      /\ prices.completion \in {own.completion} \cup (override.completion \ {Unreadable})
  BY PricesAreOwnOrGiven
<1>3. Cost(usage, override).total = usage.prompt * prices.prompt + usage.completion * prices.completion
  BY DEF Cost
<1> HIDE DEF usage, own, prices, silent, prompt, completion
<1>4. \E p \in {own.prompt} \cup (override.prompt \ {Unreadable}),
         c \in {own.completion} \cup (override.completion \ {Unreadable}) :
        Cost(usage, override).total = prompt * p + completion * c
  BY <1>1, <1>2, <1>3, Zenon
<1>5. LET names(i) == steps[i].type = "ai" /\ steps[i].model # ""
      IN IF \E i \in DOMAIN steps : names(i)
         THEN \E i \in DOMAIN steps : /\ names(i) /\ usage.model = steps[i].model
                                      /\ \A j \in 1 .. (i - 1) : ~names(j)
         ELSE usage.model = DefaultModel
  BY <1>1, ModelIsTheFirst, Zenon
<1> QED
  BY <1>4, <1>5, Zenon DEF RunsArePriced, usage, own, prompt, completion, silent

\* What figures are computed from: rows of the tables, windows, stored policies,
\* steps and their prices, each of the shape it is stored in.
FigureSample(kind, v) ==
    \/ /\ kind = "report" /\ v.cut \in Int
       /\ \E tenants, pipelines : v.rows \in Seq(ReportRows(tenants, pipelines))
    \/ kind = "decisions" /\ \E routes : v.rows \in Seq(DecisionRows(routes))
    \/ /\ kind = "score" /\ v.policies \in ScoredPolicies
       /\ \E statuses : v.runs \in Seq(ScoredRuns(statuses))
    \/ /\ kind = "price" /\ v.override \in GivenForTokens
       /\ \E types, models : v.steps \in Seq(PricedSteps(types, models))

LEMMA FiguresOfSample ==
    ASSUME FigureSample(sample.kind, sample.of)
    PROVE  FiguresHold
<1> DEFINE kind == sample.kind
<1> DEFINE v == sample.of
<1>1. Drawn("report") => ReportsAddUp(v.rows, v.tenant, v.cut)
  <2> SUFFICES ASSUME kind = "report" PROVE ReportsAddUp(v.rows, v.tenant, v.cut)
    BY DEF Drawn
  <2>1. v.cut \in Int /\ \E tenants, pipelines : v.rows \in Seq(ReportRows(tenants, pipelines))
    BY Zenon DEF FigureSample
  <2> QED
    BY <2>1, ReportsAdd, Zenon
<1>2. Drawn("decisions") => /\ RowsAreCountedOnce(v.rows)
                            /\ DriftFollowsTime(v.rows, v.moved, v.baseline, v.current)
  <2> SUFFICES ASSUME kind = "decisions"
               PROVE  /\ RowsAreCountedOnce(v.rows)
                      /\ DriftFollowsTime(v.rows, v.moved, v.baseline, v.current)
    BY DEF Drawn
  <2>1. \E routes : v.rows \in Seq(DecisionRows(routes))
    BY Zenon DEF FigureSample
  <2> QED
    BY <2>1, RowsAreCounted, DriftDependsOnTime, Zenon
<1>3. Drawn("score") => ScoreFallsWithFailures(v.runs, v.policies)
  <2> SUFFICES ASSUME kind = "score" PROVE ScoreFallsWithFailures(v.runs, v.policies)
    BY DEF Drawn
  <2>1. v.policies \in ScoredPolicies /\ \E statuses : v.runs \in Seq(ScoredRuns(statuses))
    BY Zenon DEF FigureSample
  <2> QED
    BY <2>1, ScoreFalls, Zenon
<1>4. Drawn("price") => RunsArePriced(v.steps, v.inputLength, v.outputLength, v.override)
  <2> SUFFICES ASSUME kind = "price" PROVE RunsArePriced(v.steps, v.inputLength, v.outputLength, v.override)
    BY DEF Drawn
  <2>1. v.override \in GivenForTokens /\ \E types, models : v.steps \in Seq(PricedSteps(types, models))
    BY Zenon DEF FigureSample
  <2> QED
    BY <2>1, RunsPriced, Zenon
<1> QED
  BY <1>1, <1>2, <1>3, <1>4, Zenon DEF FiguresHold

\* What tenants are shown is what the rows say, for any number of rows and runs.
THEOREM FiguresAreRight ==
    ASSUME NEW kind, NEW Inputs, \A v \in Inputs : FigureSample(kind, v)
    PROVE  DrawsFrom(kind, Inputs) => []FiguresHold
<1> DEFINE Inv == sample.kind = "none" \/ FigureSample(sample.kind, sample.of)
<1>1. NothingDrawn => Inv
  BY DEF NothingDrawn
<1>2. Inv /\ [NothingDrawn /\ \E v \in Inputs : Draw(kind, v)]_sample => Inv'
  <2> SUFFICES ASSUME Inv, [NothingDrawn /\ \E v \in Inputs : Draw(kind, v)]_sample PROVE Inv'
    OBVIOUS
  <2>1. CASE UNCHANGED sample
    BY <2>1 DEF FigureSample
  <2>2. ASSUME NEW v \in Inputs, Draw(kind, v) PROVE Inv'
    <3>1. sample'.kind = kind /\ sample'.of = v
      BY <2>2 DEF Draw
    <3>2. FigureSample(kind, v)
      OBVIOUS
    <3> QED
      BY <3>1, <3>2 DEF FigureSample
  <2> QED
    BY <2>1, <2>2
<1>3. Inv => FiguresHold
  <2>1. CASE sample.kind = "none"
    BY <2>1 DEF FiguresHold, Drawn
  <2>2. CASE FigureSample(sample.kind, sample.of)
    BY <2>2, FiguresOfSample
  <2> QED
    BY <2>1, <2>2
<1> HIDE DEF Inv
<1> QED
  BY <1>1, <1>2, <1>3, PTL DEF DrawsFrom
=============================================================================
