----------------------- MODULE Configs_TimedQueue_proof -----------------------
(***************************************************************************)
(* The two lists of objc/WCDB that are edited by copying and erasing.      *)
(*                                                                         *)
(* Configs for any names, orders and threads: whatever is set, the list    *)
(* stays sorted with one entry for a name, and a connection gets the       *)
(* synchronous level it asks for.  Setters that are called one at a time   *)
(* lose no config, and leave FULL or the checkpoint hook.                  *)
(*                                                                         *)
(* TimedQueue for any databases and any delay: map and list agree, the back *)
(* of the list expires first, and a database is checkpointed only when it  *)
(* was left alone for the delay.                                           *)
(***************************************************************************)
EXTENDS Configs, TimedQueue, SequenceTheorems, FiniteSetTheorems,
        WellFoundedInduction, TLAPS

\* The orders an int can be.
AllOrders == (-INT_MAX - 1) .. INT_MAX

(* The configs that set the level and the hook have their own names, and   *)
(* Basic its order, before any order the synchronous config can get.       *)
Fits(name, config) ==
    /\ name = "basic" <=> config = "normal"
    /\ name = "synchronous" => config \in {NULL, "full"}
    /\ config = "full" => name = "synchronous"
    /\ name = "checkpoint" => config \in {NULL, "hook"}

Placed(name, order) ==
    /\ name = "basic" => order = 2
    /\ name = "synchronous" => order > 2

AllNames == Names \cup DefaultNames

Entries == {wrap \in [name : AllNames, config : Configurations, order : AllOrders] :
                Fits(wrap.name, wrap.config) /\ Placed(wrap.name, wrap.order)}

OneEach(list) == \A i, j \in DOMAIN list : list[i].name = list[j].name => i = j

InOrder(list) == \A i, j \in DOMAIN list : i < j => list[i].order <= list[j].order

Good(list) == list \in Seq(Entries) /\ OneEach(list) /\ InOrder(list)

\* What setConfig is called with.
Commands == {call \in [name : AllNames, config : Configurations, order : Orders \cup {NULL}] :
                /\ Fits(call.name, call.config)
                /\ call.name # "basic"
                /\ call.order # NoOrder => call.name # "synchronous"}

(* A list that setConfig makes out of another.                             *)
EditOf(new, list, call) ==
    /\ Good(new)
    /\ \A i \in DOMAIN new :
           \/ new[i].name = call.name /\ new[i].config = call.config
           \/ new[i].name # call.name /\ \E j \in DOMAIN list : new[i] = list[j]
    /\ call.name \in NamesIn(new)
    /\ call.order = NoOrder =>
           \A j \in DOMAIN list :
               list[j].name # call.name => \E i \in DOMAIN new : new[i] = list[j]

-----------------------------------------------------------------------------

\* INT_MAX is a number greater than the orders of the library.
LEMMA IntMax == INT_MAX \in Int /\ INT_MAX > 5
BY SMT DEF INT_MAX

(* What is known of an entry.                                              *)
LEMMA EntryFacts ==
    ASSUME NEW e \in Entries
    PROVE  /\ e.name \in AllNames /\ e.config \in Configurations /\ e.order \in Int
           /\ e.order <= INT_MAX
           /\ Fits(e.name, e.config) /\ Placed(e.name, e.order)
BY IntMax DEF Entries, AllOrders

(* What is known of a good list.                                           *)
LEMMA GoodFacts ==
    ASSUME NEW list, Good(list)
    PROVE  /\ list \in Seq(Entries) /\ Len(list) \in Nat /\ DOMAIN list = 1 .. Len(list)
           /\ \A i \in DOMAIN list :
                  /\ list[i] \in Entries
                  /\ list[i].order \in Int /\ list[i].order <= INT_MAX
           /\ OneEach(list) /\ InOrder(list)
<1>1. list \in Seq(Entries) /\ OneEach(list) /\ InOrder(list)
  BY DEF Good
<1>2. Len(list) \in Nat /\ DOMAIN list = 1 .. Len(list)
      /\ \A i \in DOMAIN list : list[i] \in Entries
  BY <1>1
<1> QED
  BY <1>1, <1>2, EntryFacts

(* The empty list is good.                                                 *)
LEMMA EmptyGood == Good(<<>>)
<1>1. <<>> \in Seq(Entries)
  OBVIOUS
<1>2. OneEach(<<>>)
  BY DEF OneEach
<1>3. InOrder(<<>>)
  BY DEF InOrder
<1> QED
  BY <1>1, <1>2, <1>3 DEF Good

(* A stretch of a list, and what it has its entries from.                  *)
From(part, list, m, n) ==
    /\ Good(part)
    /\ \A i \in DOMAIN part : \E j \in DOMAIN list : m <= j /\ j <= n /\ part[i] = list[j]

(* A stretch of a good list is a good list.                                *)
LEMMA StretchGood ==
    ASSUME NEW list, Good(list), NEW m \in 1 .. Len(list) + 1, NEW n \in 0 .. Len(list)
    PROVE  From(SubSeq(list, m, n), list, m, n)
<1> DEFINE part == SubSeq(list, m, n)
<1>1. /\ list \in Seq(Entries) /\ Len(list) \in Nat /\ DOMAIN list = 1 .. Len(list)
      /\ OneEach(list) /\ InOrder(list)
  BY GoodFacts
<1>2. /\ part \in Seq(Entries)
      /\ \A i \in DOMAIN part : m + i - 1 \in DOMAIN list /\ m + i - 1 <= n
                                /\ m <= m + i - 1 /\ i \in Nat
                                /\ part[i] = list[m + i - 1]
  BY <1>1
<1> HIDE DEF part
<1>3. \A i, j \in DOMAIN part :
          /\ m + i - 1 = m + j - 1 => i = j
          /\ i < j => m + i - 1 < m + j - 1
  BY <1>2
<1>4. OneEach(part)
  BY <1>1, <1>2, <1>3, Zenon DEF OneEach
<1>5. InOrder(part)
  BY <1>1, <1>2, <1>3, Zenon DEF InOrder
<1> QED
  BY <1>2, <1>4, <1>5 DEF From, Good, part

(* What RemoveAt leaves.                                                   *)
LEMMA RemoveAtLeaves ==
    ASSUME NEW S, NEW list \in Seq(S), NEW k \in DOMAIN list
    PROVE  /\ RemoveAt(list, k) \in Seq(S)
           /\ Len(RemoveAt(list, k)) = Len(list) - 1
           /\ \A i \in 1 .. Len(list) - 1 :
                  RemoveAt(list, k)[i] = list[IF i < k THEN i ELSE i + 1]
<1> DEFINE front == SubSeq(list, 1, k - 1)
           back == SubSeq(list, k + 1, Len(list))
<1>1. k \in 1 .. Len(list) /\ Len(list) \in Nat
  OBVIOUS
<1>2. /\ front \in Seq(S) /\ Len(front) = k - 1
      /\ \A i \in 1 .. k - 1 : front[i] = list[i]
  BY <1>1
<1>3. /\ back \in Seq(S) /\ Len(back) = Len(list) - k
      /\ \A i \in 1 .. Len(list) - k : back[i] = list[k + i]
  BY <1>1
<1>4. RemoveAt(list, k) = front \o back
  BY DEF RemoveAt
<1> HIDE DEF front, back
<1>5. /\ front \o back \in Seq(S) /\ Len(front \o back) = Len(list) - 1
      /\ \A i \in 1 .. Len(list) - 1 :
             (front \o back)[i] = IF i <= k - 1 THEN front[i] ELSE back[i - (k - 1)]
  <2>1. front \o back \in Seq(S) /\ Len(front \o back) = Len(front) + Len(back)
    <3>1. front \in Seq(S) /\ back \in Seq(S)
      BY <1>2, <1>3
    <3> QED
      BY <3>1, ConcatProperties
  <2>2. Len(front) + Len(back) = Len(list) - 1
    BY <1>1, <1>2, <1>3
  <2>3. \A i \in 1 .. Len(list) - 1 :
             (front \o back)[i] = IF i <= k - 1 THEN front[i] ELSE back[i - (k - 1)]
    <3>1. front \in Seq(S) /\ back \in Seq(S)
      BY <1>2, <1>3
    <3>2. \A i \in 1 .. Len(front) + Len(back) :
             (front \o back)[i] = IF i <= Len(front) THEN front[i] ELSE back[i - Len(front)]
      BY <3>1, ConcatProperties
    <3> QED
      BY <1>2, <2>2, <3>2
  <2> QED
    BY <2>1, <2>2, <2>3
<1>6. ASSUME NEW i \in 1 .. Len(list) - 1
      PROVE  (front \o back)[i] = list[IF i < k THEN i ELSE i + 1]
  <2>1. CASE i < k
    BY <1>1, <1>2, <1>5, <2>1
  <2>2. CASE ~(i < k)
    <3>1. i - (k - 1) \in 1 .. Len(list) - k /\ k + (i - (k - 1)) = i + 1
      BY <1>1, <2>2
    <3>2. back[i - (k - 1)] = list[i + 1]
      BY <1>3, <3>1
    <3> QED
      BY <1>1, <1>5, <2>2, <3>2
  <2> QED
    BY <2>1, <2>2
<1> QED
  BY <1>4, <1>5, <1>6

(* Without an entry a good list is good, and has none of the name.         *)
LEMMA WithoutGood ==
    ASSUME NEW list, Good(list), NEW name
    PROVE  /\ From(Without(list, name), list, 1, Len(list))
           /\ \A i \in DOMAIN Without(list, name) : Without(list, name)[i].name # name
<1>1. /\ list \in Seq(Entries) /\ Len(list) \in Nat /\ DOMAIN list = 1 .. Len(list)
      /\ OneEach(list) /\ InOrder(list)
  BY GoodFacts
<1>2. CASE name \notin NamesIn(list)
  <2>1. Without(list, name) = list
    BY <1>2 DEF Without
  <2>2. \A i \in DOMAIN list : list[i].name # name
    BY <1>2 DEF NamesIn
  <2> QED
    BY <1>1, <2>1, <2>2 DEF From
<1>3. CASE name \in NamesIn(list)
  <2> DEFINE k == IndexOf(list, name)
             part == RemoveAt(list, k)
             back(i) == IF i < k THEN i ELSE i + 1
  <2>1. k \in DOMAIN list /\ list[k].name = name
    BY <1>3 DEF NamesIn, IndexOf
  <2>2. Without(list, name) = part
    BY <1>3 DEF Without
  <2> HIDE DEF k
  <2>3. /\ part \in Seq(Entries) /\ Len(part) = Len(list) - 1
        /\ \A i \in 1 .. Len(list) - 1 : part[i] = list[IF i < k THEN i ELSE i + 1]
    BY <1>1, <2>1, RemoveAtLeaves
  <2> HIDE DEF part
  <2>4. /\ DOMAIN part = 1 .. Len(list) - 1
        /\ \A i \in DOMAIN part : part[i] = list[back(i)]
    BY <1>1, <2>3
  <2>5. /\ \A i \in DOMAIN part : back(i) \in DOMAIN list /\ back(i) # k
        /\ \A i, j \in DOMAIN part : back(i) = back(j) => i = j
        /\ \A i, j \in DOMAIN part : i < j => back(i) < back(j)
    BY <1>1, <2>1, <2>4
  <2> HIDE DEF back
  <2>6. OneEach(part)
    BY <1>1, <2>4, <2>5 DEF OneEach
  <2>7. InOrder(part)
    BY <1>1, <2>4, <2>5 DEF InOrder
  <2>8. \A i \in DOMAIN part : part[i].name # name
    BY <1>1, <2>1, <2>4, <2>5 DEF OneEach
  <2>9. \A i \in DOMAIN part : \E j \in DOMAIN list :
            1 <= j /\ j <= Len(list) /\ part[i] = list[j]
    BY <1>1, <2>4, <2>5
  <2> QED
    BY <2>2, <2>3, <2>6, <2>7, <2>8, <2>9 DEF From, Good
<1> QED
  BY <1>2, <1>3

(* Two good lists and an entry between them.                               *)
LEMMA JoinGood ==
    ASSUME NEW l, NEW r, Good(l), Good(r), NEW e \in Entries,
           \A i \in DOMAIN l : l[i].name # e.name /\ l[i].order <= e.order,
           \A j \in DOMAIN r : r[j].name # e.name /\ e.order <= r[j].order,
           \A i \in DOMAIN l, j \in DOMAIN r : l[i].name # r[j].name
    PROVE  /\ Good(l \o <<e>> \o r)
           /\ \A i \in DOMAIN (l \o <<e>> \o r) :
                  \/ (l \o <<e>> \o r)[i] = e
                  \/ \E j \in DOMAIN l : (l \o <<e>> \o r)[i] = l[j]
                  \/ \E j \in DOMAIN r : (l \o <<e>> \o r)[i] = r[j]
           /\ e.name \in NamesIn(l \o <<e>> \o r)
<1> DEFINE s == l \o <<e>> \o r
           m == Len(l)
           n == Len(r)
<1>1. /\ l \in Seq(Entries) /\ m \in Nat /\ DOMAIN l = 1 .. m /\ OneEach(l) /\ InOrder(l)
      /\ \A i \in DOMAIN l : l[i] \in Entries /\ l[i].order \in Int
  BY GoodFacts
<1>2. /\ r \in Seq(Entries) /\ n \in Nat /\ DOMAIN r = 1 .. n /\ OneEach(r) /\ InOrder(r)
      /\ \A i \in DOMAIN r : r[i] \in Entries /\ r[i].order \in Int
  BY GoodFacts
<1>3. e.order \in Int
  BY EntryFacts
<1>4. <<e>> \in Seq(Entries) /\ Len(<<e>>) = 1 /\ <<e>>[1] = e
  OBVIOUS
<1>5. /\ l \o <<e>> \in Seq(Entries) /\ Len(l \o <<e>>) = m + 1
      /\ \A i \in 1 .. m + 1 :
             (l \o <<e>>)[i] = IF i <= m THEN l[i] ELSE <<e>>[i - m]
  BY <1>1, <1>4, ConcatProperties
<1>6. /\ s \in Seq(Entries) /\ Len(s) = m + 1 + n
      /\ \A i \in 1 .. m + 1 + n :
             s[i] = IF i <= m + 1 THEN (l \o <<e>>)[i] ELSE r[i - (m + 1)]
  BY <1>2, <1>5, ConcatProperties
<1> HIDE DEF s, m, n
<1>7. /\ DOMAIN s = 1 .. m + 1 + n
      /\ \A i \in 1 .. m : s[i] = l[i] /\ i \in DOMAIN l
      /\ s[m + 1] = e
      /\ \A i \in m + 2 .. m + 1 + n : s[i] = r[i - (m + 1)] /\ i - (m + 1) \in DOMAIN r
  <2>1. DOMAIN s = 1 .. m + 1 + n
    BY <1>1, <1>2, <1>6
  <2>2. \A i \in 1 .. m : s[i] = l[i] /\ i \in DOMAIN l
    BY <1>1, <1>2, <1>5, <1>6
  <2>3. s[m + 1] = e
    <3>1. s[m + 1] = (l \o <<e>>)[m + 1]
      BY <1>1, <1>2, <1>6
    <3>2. (l \o <<e>>)[m + 1] = <<e>>[(m + 1) - m] /\ (m + 1) - m = 1
      BY <1>1, <1>5
    <3> QED
      BY <1>4, <3>1, <3>2
  <2>4. \A i \in m + 2 .. m + 1 + n : s[i] = r[i - (m + 1)] /\ i - (m + 1) \in DOMAIN r
    BY <1>1, <1>2, <1>6
  <2> QED
    BY <2>1, <2>2, <2>3, <2>4
<1>8. \A i \in DOMAIN s : \/ i \in 1 .. m
                          \/ i = m + 1
                          \/ i \in m + 2 .. m + 1 + n
  BY <1>1, <1>2, <1>7
<1>9. ASSUME NEW i \in DOMAIN s, NEW j \in DOMAIN s, i < j
      PROVE  s[i].name # s[j].name /\ s[i].order <= s[j].order
  <2>1. i \in Int /\ j \in Int /\ m \in Nat /\ n \in Nat
    BY <1>1, <1>2, <1>7
  <2>2. CASE i \in 1 .. m /\ j \in 1 .. m
    BY <1>1, <1>7, <1>9, <2>1, <2>2 DEF OneEach, InOrder
  <2>3. CASE i \in 1 .. m /\ j = m + 1
    BY <1>7, <2>3
  <2>4. CASE i \in 1 .. m /\ j \in m + 2 .. m + 1 + n
    <3>1. s[i] = l[i] /\ i \in DOMAIN l /\ s[j] = r[j - (m + 1)] /\ j - (m + 1) \in DOMAIN r
      BY <1>7, <2>4
    <3>2. l[i].name # r[j - (m + 1)].name
      BY <3>1
    <3>3. l[i].order <= e.order /\ e.order <= r[j - (m + 1)].order
      BY <3>1
    <3>4. l[i].order \in Int /\ r[j - (m + 1)].order \in Int
      BY <1>1, <1>2, <3>1
    <3>5. l[i].order <= r[j - (m + 1)].order
      BY <1>3, <3>3, <3>4
    <3> QED
      BY <3>1, <3>2, <3>5
  <2>5. CASE i = m + 1 /\ j \in m + 2 .. m + 1 + n
    BY <1>7, <2>5
  <2>6. CASE i \in m + 2 .. m + 1 + n /\ j \in m + 2 .. m + 1 + n
    <3>1. /\ s[i] = r[i - (m + 1)] /\ i - (m + 1) \in DOMAIN r
          /\ s[j] = r[j - (m + 1)] /\ j - (m + 1) \in DOMAIN r
      BY <1>7, <2>6
    <3>2. i - (m + 1) < j - (m + 1) /\ i - (m + 1) # j - (m + 1)
      BY <1>9, <2>1
    <3> QED
      BY <1>2, <3>1, <3>2 DEF OneEach, InOrder
  <2>7. \/ i \in 1 .. m /\ j \in 1 .. m
        \/ i \in 1 .. m /\ j = m + 1
        \/ i \in 1 .. m /\ j \in m + 2 .. m + 1 + n
        \/ i = m + 1 /\ j \in m + 2 .. m + 1 + n
        \/ i \in m + 2 .. m + 1 + n /\ j \in m + 2 .. m + 1 + n
    BY <1>8, <1>9, <2>1
  <2> QED
    BY <2>2, <2>3, <2>4, <2>5, <2>6, <2>7
<1>10. OneEach(s)
  <2> SUFFICES ASSUME NEW i \in DOMAIN s, NEW j \in DOMAIN s, i # j
               PROVE  s[i].name # s[j].name
    BY DEF OneEach
  <2>1. i < j \/ j < i
    BY <1>1, <1>2, <1>7
  <2> QED
    BY <1>9, <2>1
<1>11. InOrder(s)
  BY <1>9 DEF InOrder
<1>12. Good(s)
  BY <1>6, <1>10, <1>11 DEF Good
<1>13. ASSUME NEW i \in DOMAIN s
       PROVE  \/ s[i] = e
              \/ \E j \in DOMAIN l : s[i] = l[j]
              \/ \E j \in DOMAIN r : s[i] = r[j]
  BY <1>7, <1>8
<1>14. e.name \in NamesIn(s)
  <2>1. m + 1 \in DOMAIN s
    BY <1>1, <1>2, <1>7
  <2> QED
    BY <1>7, <2>1 DEF NamesIn
<1> QED
  BY <1>12, <1>13, <1>14 DEF s

(* A finite set of integers has a least element.                           *)
LEMMA MinFacts ==
    ASSUME NEW S, IsFiniteSet(S), S # {}, S \subseteq Int
    PROVE  Min(S) \in S /\ \A y \in S : Min(S) <= y
<1> DEFINE Below(x) == {y \in S : y < x}
           T == {Below(x) : x \in S}
<1>1. IsWellFoundedOn(StrictSubsetOrdering(S), SUBSET S)
  BY FS_StrictSubsetOrderingWellFounded, FS_FiniteSubsetsOfFinite, Zenon
<1>2. T \subseteq SUBSET S /\ T # {}
  OBVIOUS
<1> HIDE DEF T
<1>3. PICK U \in T : \A V \in T : ~(<<V, U>> \in StrictSubsetOrdering(S))
  BY <1>1, <1>2, WFMin, Zenon
<1>4. PICK x \in S : U = Below(x)
  BY DEF T
<1>5. ASSUME NEW y \in S, ~(x <= y) PROVE FALSE
  <2>1. Below(y) \in T
    BY DEF T
  <2>2. x \in Int /\ y \in Int /\ y < x /\ \A z \in S : z \in Int
    BY <1>5
  <2>3. \A z \in S : z < y => z < x
    BY <2>2
  <2>4. ~(y < y)
    BY <2>2
  <2>5. Below(y) \subseteq U /\ y \in U /\ y \notin Below(y)
    BY <1>4, <2>2, <2>3, <2>4, Zenon
  <2>6. <<Below(y), U>> \in StrictSubsetOrdering(S)
    BY <1>2, <2>1, <2>5, Zenon DEF StrictSubsetOrdering
  <2> QED
    BY <1>3, <2>1, <2>6
<1>6. \A y \in S : x <= y
  BY <1>5
<1> QED
  BY <1>6, Zenon DEF Min

(* What is known of a call of setConfig.                                   *)
LEMMA CommandFacts ==
    ASSUME NEW call \in Commands
    PROVE  /\ call.name \in AllNames /\ call.config \in Configurations
           /\ Fits(call.name, call.config) /\ call.name # "basic"
           /\ call.order # NoOrder => call.order \in AllOrders /\ call.name # "synchronous"
BY ConfigsAssumption DEF Commands, AllOrders, NoOrder

(* The entry a call puts into the list.                                    *)
LEMMA NewEntry ==
    ASSUME NEW call \in Commands, NEW order \in AllOrders,
           call.name = "synchronous" => order > 2
    PROVE  /\ Entry(call.name, call.config, order) \in Entries
           /\ Entry(call.name, call.config, order).name = call.name
           /\ Entry(call.name, call.config, order).config = call.config
           /\ Entry(call.name, call.config, order).order = order
BY CommandFacts DEF Entries, Placed, Entry

(* setConfig with an order.                                                *)
LEMMA SetOrderedEdits ==
    ASSUME NEW list, Good(list), NEW call \in Commands, call.order # NoOrder
    PROVE  EditOf(SetOrdered(list, call.name, call.config, call.order), list, call)
<1> DEFINE order == call.order
           e == Entry(call.name, call.config, order)
           greater == {i \in DOMAIN list : order < list[i].order}
           place == Min(greater \cup {Len(list) + 1})
           l == Without(SubSeq(list, 1, place - 1), call.name)
           r == Without(SubSeq(list, place + 1, Len(list)), call.name)
<1>1. /\ list \in Seq(Entries) /\ Len(list) \in Nat /\ DOMAIN list = 1 .. Len(list)
      /\ OneEach(list) /\ InOrder(list)
      /\ \A i \in DOMAIN list : list[i] \in Entries /\ list[i].order \in Int
  BY GoodFacts
<1>2. order \in AllOrders /\ order \in Int /\ call.name # "synchronous"
  BY CommandFacts, IntMax DEF AllOrders
<1>3. e \in Entries /\ e.name = call.name /\ e.config = call.config /\ e.order = order
  BY <1>2, NewEntry
<1>4. /\ place \in greater \cup {Len(list) + 1}
      /\ \A y \in greater \cup {Len(list) + 1} : place <= y
  <2>1. IsFiniteSet(greater \cup {Len(list) + 1})
    <3>1. IsFiniteSet(1 .. Len(list) + 1)
      BY <1>1, FS_Interval
    <3>2. greater \cup {Len(list) + 1} \subseteq 1 .. Len(list) + 1
      BY <1>1
    <3> QED
      BY <3>1, <3>2, FS_Subset
  <2>2. greater \cup {Len(list) + 1} \subseteq Int
    BY <1>1
  <2> HIDE DEF greater
  <2> QED
    BY <2>1, <2>2, MinFacts
<1>5. place \in 1 .. Len(list) + 1
  BY <1>1, <1>4
<1> HIDE DEF place
<1>6. \A i \in DOMAIN list : i < place => list[i].order <= order
  <2> SUFFICES ASSUME NEW i \in DOMAIN list, i < place
               PROVE  list[i].order <= order
    OBVIOUS
  <2>1. i \notin greater
    BY <1>1, <1>4, <1>5
  <2> QED
    BY <1>1, <1>2, <2>1
<1>7. \A i \in DOMAIN list : place < i => order <= list[i].order
  <2> SUFFICES ASSUME NEW i \in DOMAIN list, place < i
               PROVE  order <= list[i].order
    OBVIOUS
  <2>1. place \in DOMAIN list /\ order < list[place].order
    BY <1>1, <1>4, <1>5
  <2>2. list[place].order <= list[i].order
    BY <1>1, <2>1 DEF InOrder
  <2> QED
    BY <1>1, <1>2, <2>1, <2>2
<1> HIDE DEF greater
<1>8. /\ Good(l)
      /\ \A i \in DOMAIN l : l[i].name # call.name
      /\ \A i \in DOMAIN l : \E j \in DOMAIN list : j < place /\ l[i] = list[j]
  <2> DEFINE part == SubSeq(list, 1, place - 1)
  <2>1. From(part, list, 1, place - 1)
    BY <1>1, <1>5, StretchGood
  <2>2. \A i \in DOMAIN part : \E j \in DOMAIN list : j < place /\ part[i] = list[j]
    BY <1>1, <1>5, <2>1 DEF From
  <2>3. Good(part)
    BY <2>1 DEF From
  <2> HIDE DEF part
  <2>4. /\ From(Without(part, call.name), part, 1, Len(part))
        /\ \A i \in DOMAIN Without(part, call.name) :
               Without(part, call.name)[i].name # call.name
    BY <2>3, WithoutGood
  <2>5. l = Without(part, call.name)
    BY DEF part
  <2> HIDE DEF l
  <2> QED
    BY <2>2, <2>4, <2>5 DEF From
<1>9. /\ Good(r)
      /\ \A i \in DOMAIN r : r[i].name # call.name
      /\ \A i \in DOMAIN r : \E j \in DOMAIN list : place < j /\ r[i] = list[j]
  <2> DEFINE part == SubSeq(list, place + 1, Len(list))
  <2>1. /\ Good(part)
        /\ \A i \in DOMAIN part : \E j \in DOMAIN list : place < j /\ part[i] = list[j]
    <3>1. CASE place = Len(list) + 1
      <4>1. part = <<>>
        BY <1>1, <3>1
      <4>2. Good(<<>>)
        BY EmptyGood
      <4> HIDE DEF part
      <4> QED
        BY <4>1, <4>2
    <3>2. CASE place # Len(list) + 1
      <4>1. place + 1 \in 1 .. Len(list) + 1
        BY <1>1, <1>5, <3>2
      <4>2. From(part, list, place + 1, Len(list))
        BY <1>1, <4>1, StretchGood
      <4> QED
        BY <1>1, <1>5, <4>2 DEF From
    <3> QED
      BY <3>1, <3>2
  <2> HIDE DEF part
  <2>2. /\ From(Without(part, call.name), part, 1, Len(part))
        /\ \A i \in DOMAIN Without(part, call.name) :
               Without(part, call.name)[i].name # call.name
    BY <2>1, WithoutGood
  <2>3. r = Without(part, call.name)
    BY DEF part
  <2> HIDE DEF r
  <2> QED
    BY <2>1, <2>2, <2>3 DEF From
<1>10. SetOrdered(list, call.name, call.config, order) = l \o <<e>> \o r
  BY DEF SetOrdered, place, greater
<1> HIDE DEF l, r, e
<1>11. /\ \A i \in DOMAIN l : l[i].name # e.name /\ l[i].order <= e.order
       /\ \A j \in DOMAIN r : r[j].name # e.name /\ e.order <= r[j].order
  BY <1>3, <1>6, <1>7, <1>8, <1>9
<1>12. \A i \in DOMAIN l, j \in DOMAIN r : l[i].name # r[j].name
  <2> SUFFICES ASSUME NEW i \in DOMAIN l, NEW j \in DOMAIN r
               PROVE  l[i].name # r[j].name
    OBVIOUS
  <2>1. PICK a \in DOMAIN list : a < place /\ l[i] = list[a]
    BY <1>8
  <2>2. PICK b \in DOMAIN list : place < b /\ r[j] = list[b]
    BY <1>9
  <2>3. a # b
    BY <1>1, <1>5, <2>1, <2>2
  <2> QED
    BY <1>1, <2>1, <2>2, <2>3 DEF OneEach
<1> DEFINE s == l \o <<e>> \o r
<1>13. /\ Good(s)
       /\ \A i \in DOMAIN s : \/ s[i] = e
                              \/ \E j \in DOMAIN l : s[i] = l[j]
                              \/ \E j \in DOMAIN r : s[i] = r[j]
       /\ e.name \in NamesIn(s)
  BY <1>3, <1>8, <1>9, <1>11, <1>12, JoinGood
<1> HIDE DEF s
<1>14. \A i \in DOMAIN s :
           \/ s[i].name = call.name /\ s[i].config = call.config
           \/ s[i].name # call.name /\ \E j \in DOMAIN list : s[i] = list[j]
  BY <1>3, <1>8, <1>9, <1>13
<1> QED
  BY <1>3, <1>10, <1>13, <1>14 DEF EditOf, s

(* setConfig without an order.                                             *)
LEMMA SetNamedEdits ==
    ASSUME NEW list, Good(list), NEW call \in Commands, call.order = NoOrder
    PROVE  EditOf(SetNamed(list, call.name, call.config), list, call)
<1> DEFINE new == SetNamed(list, call.name, call.config)
           n == Len(list)
<1>1. /\ list \in Seq(Entries) /\ n \in Nat /\ DOMAIN list = 1 .. n
      /\ OneEach(list) /\ InOrder(list)
      /\ \A i \in DOMAIN list : /\ list[i] \in Entries
                                /\ list[i].order \in Int /\ list[i].order <= INT_MAX
  BY GoodFacts
<1>2. CASE call.name \in NamesIn(list)
  <2> DEFINE edit(i) == IF list[i].name = call.name
                        THEN Entry(call.name, call.config, list[i].order)
                        ELSE list[i]
  <2>1. new = [i \in DOMAIN list |-> edit(i)]
    BY <1>2 DEF SetNamed
  <2>2. ASSUME NEW i \in DOMAIN list
        PROVE  /\ edit(i) \in Entries
               /\ edit(i).name = list[i].name /\ edit(i).order = list[i].order
               /\ \/ edit(i).name = call.name /\ edit(i).config = call.config
                  \/ edit(i).name # call.name /\ edit(i) = list[i]
    <3>1. CASE list[i].name = call.name
      <4>1. list[i].order \in AllOrders
        BY <1>1 DEF Entries
      <4>2. call.name = "synchronous" => list[i].order > 2
        BY <1>1, <3>1, EntryFacts DEF Placed
      <4> DEFINE e == Entry(call.name, call.config, list[i].order)
      <4>3. /\ e \in Entries /\ e.name = call.name
            /\ e.config = call.config /\ e.order = list[i].order
        BY <4>1, <4>2, NewEntry
      <4>4. edit(i) = e
        BY <3>1
      <4> HIDE DEF e, edit
      <4> QED
        BY <3>1, <4>3, <4>4
    <3>2. CASE list[i].name # call.name
      BY <1>1, <3>2
    <3> QED
      BY <3>1, <3>2
  <2> HIDE DEF edit, new
  <2>3. /\ new \in Seq(Entries) /\ DOMAIN new = DOMAIN list
        /\ \A i \in DOMAIN list : new[i] = edit(i)
    <3>1. DOMAIN new = DOMAIN list /\ \A i \in DOMAIN list : new[i] = edit(i)
      BY <2>1
    <3>2. new \in [1 .. n -> Entries]
      BY <1>1, <2>1, <2>2
    <3>3. new \in Seq(Entries)
      BY <1>1, <3>2
    <3> QED
      BY <3>1, <3>3
  <2>4. OneEach(new)
    BY <1>1, <2>2, <2>3 DEF OneEach
  <2>5. InOrder(new)
    BY <1>1, <2>2, <2>3 DEF InOrder
  <2>6. call.name \in NamesIn(new)
    <3>1. PICK i \in DOMAIN list : list[i].name = call.name
      BY <1>2 DEF NamesIn
    <3> QED
      BY <2>2, <2>3, <3>1 DEF NamesIn
  <2>7. \A j \in DOMAIN list :
            list[j].name # call.name => \E i \in DOMAIN new : new[i] = list[j]
    <3> SUFFICES ASSUME NEW j \in DOMAIN list, list[j].name # call.name
                 PROVE  new[j] = list[j] /\ j \in DOMAIN new
      OBVIOUS
    <3> QED
      BY <2>2, <2>3
  <2>8. \A i \in DOMAIN new :
            \/ new[i].name = call.name /\ new[i].config = call.config
            \/ new[i].name # call.name /\ \E j \in DOMAIN list : new[i] = list[j]
    BY <2>2, <2>3
  <2> QED
    BY <2>3, <2>4, <2>5, <2>6, <2>7, <2>8 DEF EditOf, Good, new
<1>3. CASE call.name \notin NamesIn(list)
  <2> DEFINE e == Entry(call.name, call.config, INT_MAX)
  <2>1. INT_MAX \in AllOrders /\ INT_MAX > 2
    BY IntMax DEF AllOrders
  <2>2. e \in Entries /\ e.name = call.name /\ e.config = call.config /\ e.order = INT_MAX
    BY <2>1, NewEntry
  <2>3. new = Append(list, e)
    BY <1>3 DEF SetNamed
  <2> HIDE DEF e, new
  <2>4. /\ new \in Seq(Entries) /\ Len(new) = n + 1
        /\ \A i \in 1 .. n : new[i] = list[i]
        /\ new[n + 1] = e
    BY <1>1, <2>2, <2>3, AppendProperties
  <2>5. DOMAIN new = 1 .. n + 1
    BY <1>1, <2>4
  <2>6. \A i \in 1 .. n : list[i].name # call.name
    BY <1>1, <1>3 DEF NamesIn
  <2>7. \A i \in DOMAIN new : i \in 1 .. n \/ i = n + 1
    BY <1>1, <2>5
  <2>8. OneEach(new)
    BY <1>1, <2>2, <2>4, <2>6, <2>7, Zenon DEF OneEach
  <2>9. InOrder(new)
    <3> SUFFICES ASSUME NEW i \in DOMAIN new, NEW j \in DOMAIN new, i < j
                 PROVE  new[i].order <= new[j].order
      BY DEF InOrder
    <3>1. i \in 1 .. n
      BY <1>1, <2>5
    <3>2. CASE j \in 1 .. n
      BY <1>1, <2>4, <3>1, <3>2 DEF InOrder
    <3>3. CASE j = n + 1
      BY <1>1, <2>2, <2>4, <3>1, <3>3
    <3> QED
      BY <2>7, <3>2, <3>3
  <2>10. call.name \in NamesIn(new)
    BY <1>1, <2>2, <2>4, <2>5 DEF NamesIn
  <2>11. /\ \A i \in DOMAIN new :
                \/ new[i].name = call.name /\ new[i].config = call.config
                \/ new[i].name # call.name /\ \E j \in DOMAIN list : new[i] = list[j]
         /\ \A j \in DOMAIN list : \E i \in DOMAIN new : new[i] = list[j]
    BY <1>1, <2>2, <2>4, <2>5, <2>6, <2>7
  <2> QED
    BY <2>4, <2>8, <2>9, <2>10, <2>11 DEF EditOf, Good, new
<1> QED
  BY <1>2, <1>3

(* What a thread does with the list it has copied.                         *)
LEMMA ApplyEdits ==
    ASSUME NEW list, Good(list), NEW call \in Commands
    PROVE  EditOf(Apply(list, call), list, call)
<1>1. CASE call.order = NoOrder
  BY <1>1, SetNamedEdits DEF Apply
<1>2. CASE call.order # NoOrder
  BY <1>2, SetOrderedEdits DEF Apply
<1> QED
  BY <1>1, <1>2

(* getConfigByName finds the config of the name.                           *)
LEMMA ConfigIs ==
    ASSUME NEW list, Good(list), NEW i \in DOMAIN list
    PROVE  list[i].name \in NamesIn(list) /\ ConfigOf(list, list[i].name) = list[i].config
<1>1. OneEach(list)
  BY GoodFacts
<1>2. list[i].name \in NamesIn(list)
  BY DEF NamesIn
<1>3. IndexOf(list, list[i].name) = i
  BY <1>1 DEF IndexOf, OneEach
<1> QED
  BY <1>2, <1>3 DEF ConfigOf

(* And what getConfigByName returns is the config of an entry.             *)
LEMMA ConfigTypes ==
    ASSUME NEW list, Good(list), NEW name \in NamesIn(list)
    PROVE  \E i \in DOMAIN list : list[i].name = name /\ ConfigOf(list, name) = list[i].config
<1>1. PICK i \in DOMAIN list : list[i].name = name
  BY DEF NamesIn
<1> QED
  BY <1>1, ConfigIs

(* What an edit makes of the configs of the list.                          *)
LEMMA EditConfigs ==
    ASSUME NEW list, Good(list), NEW call \in Commands, NEW new, EditOf(new, list, call)
    PROVE  /\ call.name \in NamesIn(new) /\ ConfigOf(new, call.name) = call.config
           /\ \A name \in NamesIn(new) \ {call.name} :
                  name \in NamesIn(list) /\ ConfigOf(new, name) = ConfigOf(list, name)
           /\ call.order = NoOrder =>
                  \A name \in NamesIn(list) \ {call.name} :
                      name \in NamesIn(new) /\ ConfigOf(new, name) = ConfigOf(list, name)
<1>1. Good(new) /\ call.name \in NamesIn(new)
  BY DEF EditOf
<1>2. ConfigOf(new, call.name) = call.config
  <2>1. PICK i \in DOMAIN new :
            new[i].name = call.name /\ ConfigOf(new, call.name) = new[i].config
    BY <1>1, ConfigTypes
  <2> QED
    BY <2>1 DEF EditOf
<1>3. ASSUME NEW name \in NamesIn(new), name # call.name
      PROVE  name \in NamesIn(list) /\ ConfigOf(new, name) = ConfigOf(list, name)
  <2>1. PICK i \in DOMAIN new : new[i].name = name /\ ConfigOf(new, name) = new[i].config
    BY <1>1, ConfigTypes
  <2>2. PICK j \in DOMAIN list : new[i] = list[j]
    BY <1>3, <2>1 DEF EditOf
  <2>3. list[j].name \in NamesIn(list) /\ ConfigOf(list, list[j].name) = list[j].config
    BY ConfigIs
  <2> QED
    BY <2>1, <2>2, <2>3
<1>4. ASSUME call.order = NoOrder, NEW name \in NamesIn(list), name # call.name
      PROVE  name \in NamesIn(new) /\ ConfigOf(new, name) = ConfigOf(list, name)
  <2>1. PICK j \in DOMAIN list : list[j].name = name /\ ConfigOf(list, name) = list[j].config
    BY ConfigTypes
  <2>2. PICK i \in DOMAIN new : new[i] = list[j]
    BY <1>4, <2>1 DEF EditOf
  <2>3. new[i].name \in NamesIn(new) /\ ConfigOf(new, new[i].name) = new[i].config
    BY <1>1, ConfigIs
  <2> QED
    BY <2>1, <2>2, <2>3
<1> QED
  BY <1>1, <1>2, <1>3, <1>4

-----------------------------------------------------------------------------

\* The level a list asks for.
LevelIn(list) == IF ConfigOf(list, "synchronous") = "full" THEN "full" ELSE "normal"

(* The invariant, whatever threads there are: every list anybody has made is *)
(* good, every call still to make is one of Commands, and the connection has *)
(* the level that the list it has run asks for.                            *)
CInv ==
    /\ Good(m_configs)
    /\ newConfigs \in [Threads -> Seq(Entries)]
    /\ \A t \in Threads : Good(newConfigs[t])
    /\ copied \in [Threads -> BOOLEAN]
    /\ todo \in [Threads -> Seq(Commands)]
    /\ \A t \in Threads : copied[t] => todo[t] # <<>>
    /\ level \in {"none", "normal", "full"}
    /\ ran \in BOOLEAN /\ hooked \in BOOLEAN
    /\ calls \in 0 .. MaxCalls
    /\ ran /\ "basic" \in NamesIn(m_configs) => level = LevelIn(m_configs)

(* What invoke leaves of a good list.                                      *)
LEMMA InvokeSets ==
    ASSUME NEW list, Good(list), NEW handle,
           handle.level \in {"none", "normal", "full"}, handle.hooked \in BOOLEAN
    PROVE  /\ Invoke(list, handle).level \in {"none", "normal", "full"}
           /\ Invoke(list, handle).hooked \in BOOLEAN
           /\ "basic" \in NamesIn(list) => Invoke(list, handle).level = LevelIn(list)
<1> DEFINE levels == SetsLevel(list)
<1>1. /\ Len(list) \in Nat /\ DOMAIN list = 1 .. Len(list) /\ OneEach(list) /\ InOrder(list)
      /\ \A i \in DOMAIN list : list[i] \in Entries
  BY GoodFacts
<1>2. Invoke(list, handle).hooked \in BOOLEAN
  BY DEF Invoke
<1>3. Invoke(list, handle).level =
          IF levels = {} THEN handle.level ELSE list[Max(levels)].config
  BY DEF Invoke
<1>4. levels # {} => Max(levels) \in levels /\ \A i \in levels : Max(levels) >= i
  <2> SUFFICES ASSUME levels # {}
               PROVE  \E x \in levels : \A y \in levels : x >= y
    BY Zenon DEF Max
  <2>1. PICK x \in levels : TRUE
    OBVIOUS
  <2>2. \A y \in levels : /\ y \in Int /\ y \in DOMAIN list
                          /\ list[y].name \in {"basic", "synchronous"}
    BY <1>1, EntryFacts DEF SetsLevel, Fits
  <2>3. \A y, z \in levels : list[y].name = list[z].name => y = z
    BY <1>1, <2>2 DEF OneEach
  <2> HIDE DEF levels
  <2>4. CASE \E y \in levels : y > x
    <3>1. PICK y \in levels : y > x
      BY <2>4
    <3>2. ASSUME NEW z \in levels PROVE z = x \/ z = y
      <4>1. x # y
        BY <2>2, <3>1
      <4> QED
        BY <2>2, <2>3, <4>1
    <3>3. \A z \in levels : y >= z
      BY <2>2, <3>1, <3>2
    <3> QED
      BY <3>3
  <2>5. CASE \A y \in levels : ~(y > x)
    <3>1. \A z \in levels : x >= z
      BY <2>1, <2>2, <2>5
    <3> QED
      BY <2>1, <3>1
  <2> QED
    BY <2>4, <2>5
<1>5. Invoke(list, handle).level \in {"none", "normal", "full"}
  BY <1>3, <1>4 DEF SetsLevel
<1>6. ASSUME "basic" \in NamesIn(list)
      PROVE  Invoke(list, handle).level = LevelIn(list)
  <2>1. PICK b \in DOMAIN list : list[b].name = "basic"
    BY <1>6 DEF NamesIn
  <2>2. list[b].config = "normal" /\ list[b].order = 2
    BY <1>1, <2>1, EntryFacts DEF Fits, Placed
  <2>3. b \in levels
    BY <2>2 DEF SetsLevel
  <2>4. PICK m \in levels : m = Max(levels) /\ \A i \in levels : m >= i
    BY <1>4, <2>3
  <2>5. m \in DOMAIN list /\ list[m].config \in {"normal", "full"} /\ b \in Nat /\ m \in Nat
    BY <1>1, <2>4 DEF SetsLevel
  <2>6. Invoke(list, handle).level = list[m].config
    BY <1>3, <2>3, <2>4
  <2>7. CASE list[m].config = "full"
    <3>1. list[m].name = "synchronous"
      BY <1>1, <2>5, <2>7, EntryFacts DEF Fits
    <3>2. ConfigOf(list, "synchronous") = "full"
      BY <2>5, <2>7, <3>1, ConfigIs
    <3> QED
      BY <2>6, <2>7, <3>2 DEF LevelIn
  <2>8. CASE list[m].config = "normal"
    <3>1. list[m].name = "basic"
      BY <1>1, <2>5, <2>8, EntryFacts DEF Fits
    <3>2. m = b
      BY <1>1, <2>1, <2>5, <3>1 DEF OneEach
    <3>3. ASSUME ConfigOf(list, "synchronous") = "full" PROVE FALSE
      <4>1. "synchronous" \in NamesIn(list)
        BY <3>3, ConfigsAssumption DEF ConfigOf, Settings
      <4>2. PICK s \in DOMAIN list : list[s].name = "synchronous" /\ list[s].config = "full"
        BY <3>3, <4>1, ConfigTypes
      <4>3. list[s].order > 2 /\ list[s].order \in Int
        BY <1>1, <4>2, EntryFacts DEF Placed
      <4>4. s \in levels
        BY <4>2 DEF SetsLevel
      <4>5. s # b /\ s <= b /\ s \in Nat
        BY <1>1, <2>1, <2>4, <3>2, <4>2, <4>4, <2>5
      <4>6. list[s].order <= list[b].order
        BY <1>1, <2>5, <4>5 DEF InOrder
      <4> QED
        BY <2>2, <4>3, <4>6
    <3> QED
      BY <2>6, <2>8, <3>3 DEF LevelIn
  <2> QED
    BY <2>5, <2>7, <2>8
<1> QED
  BY <1>2, <1>5, <1>6

(* The requests of the application are calls of setConfig.                 *)
LEMMA RequestsFit ==
    ASSUME NEW request \in Requests
    PROVE  request \in Seq(Commands) /\ request # <<>>
<1>1. ASSUME NEW name \in AllNames, NEW config \in Configurations,
             Fits(name, config), name # "basic"
      PROVE  Named(name, config) \in Commands
  BY <1>1 DEF Commands, Named, NoOrder
<1>2. NULL \in Configurations /\ NULL # "normal" /\ NULL # "full"
  BY ConfigsAssumption DEF Configurations, Settings
<1>3. /\ Named("synchronous", "full") \in Commands
      /\ Named("synchronous", NULL) \in Commands
      /\ Named("checkpoint", "hook") \in Commands
      /\ Named("checkpoint", NULL) \in Commands
  BY <1>1, <1>2 DEF Fits, AllNames, DefaultNames, Configurations, Settings
<1>4. /\ Named("cipher", "key") \in Commands
      /\ Named("trace", "own") \in Commands
      /\ Named("tokenize", "own") \in Commands
  BY <1>1 DEF Fits, AllNames, DefaultNames, Configurations, Settings
<1>5. \A name \in Names : name \notin KeptNames
  BY ConfigsAssumption
<1>6. \A name \in Names : Fits(name, "own") /\ name \in AllNames /\ name # "basic"
  BY <1>5 DEF Fits, AllNames, KeptNames
<1>7. \A name \in Names : Named(name, "own") \in Commands
  BY <1>1, <1>6 DEF Configurations, Settings
<1>8. ASSUME NEW name \in Names, NEW order \in Orders
      PROVE  [name |-> name, config |-> "own", order |-> order] \in Commands
  BY <1>5, <1>6 DEF Commands, Configurations, Settings, KeptNames
<1>9. CASE request \in {setSynchronousFull(full) : full \in BOOLEAN}
  BY <1>3, <1>9 DEF setSynchronousFull
<1>10. CASE request \in setConfig
  <2>1. CASE request \in {<<Named(name, "own")>> : name \in Names}
    BY <1>7, <2>1
  <2>2. CASE request \in {<<[name |-> name, config |-> "own", order |-> order]>> :
                              name \in Names, order \in Orders}
    <3>1. PICK name \in Names, order \in Orders :
              request = <<[name |-> name, config |-> "own", order |-> order]>>
      BY <2>2
    <3> DEFINE c == [name |-> name, config |-> "own", order |-> order]
    <3>2. c \in Commands /\ request = <<c>>
      BY <1>8, <3>1
    <3> HIDE DEF c
    <3> QED
      BY <3>2
  <2> QED
    BY <1>10, <2>1, <2>2 DEF setConfig
<1>11. CASE request \in {setCipher, setPerformanceTrace, setTokenizes}
  <2>1. \A c \in Commands : <<c>> \in Seq(Commands) /\ <<c>> # <<>>
    OBVIOUS
  <2>2. setCipher \in Seq(Commands) /\ setCipher # <<>>
    BY <1>4, <2>1, Zenon DEF setCipher
  <2>3. setPerformanceTrace \in Seq(Commands) /\ setPerformanceTrace # <<>>
    BY <1>4, <2>1, Zenon DEF setPerformanceTrace
  <2>4. setTokenizes \in Seq(Commands) /\ setTokenizes # <<>>
    BY <1>4, <2>1, Zenon DEF setTokenizes
  <2> QED
    BY <1>11, <2>2, <2>3, <2>4
<1> QED
  BY <1>9, <1>10, <1>11 DEF Requests

(* defaultConfigs is a good list.                                          *)
LEMMA DefaultsGood ==
    /\ Good(defaultConfigs)
    /\ ConfigOf(defaultConfigs, "synchronous") = NULL
    /\ ConfigOf(defaultConfigs, "checkpoint") = "hook"
<1> DEFINE e1 == Entry("trace", "traced", 0)
           e2 == Entry("cipher", "placeholder", 1)
           e3 == Entry("basic", "normal", 2)
           e4 == Entry("synchronous", NULL, 3)
           e5 == Entry("checkpoint", "hook", 4)
           e6 == Entry("tokenize", NULL, 5)
<1>1. defaultConfigs = <<e1, e2, e3, e4, e5, e6>>
  BY DEF defaultConfigs
<1>2. NULL \in Configurations /\ NULL # "normal" /\ NULL # "full"
  BY ConfigsAssumption DEF Configurations, Settings
<1>3. \A n \in 0 .. 5 : n \in AllOrders
  BY IntMax DEF AllOrders
<1>4. /\ e1 \in Entries /\ e2 \in Entries /\ e3 \in Entries
      /\ e4 \in Entries /\ e5 \in Entries /\ e6 \in Entries
  <2>1. ASSUME NEW name \in DefaultNames, NEW config \in Configurations,
               NEW order \in 0 .. 5, Fits(name, config), Placed(name, order)
        PROVE  Entry(name, config, order) \in Entries
    BY <1>3, <2>1 DEF Entry, Entries, AllNames
  <2>2. e1 \in Entries /\ e2 \in Entries
    BY <2>1 DEF DefaultNames, Configurations, Settings, Fits, Placed
  <2>3. e3 \in Entries
    BY <2>1 DEF DefaultNames, Configurations, Settings, Fits, Placed
  <2>4. e4 \in Entries
    BY <1>2, <2>1 DEF DefaultNames, Fits, Placed
  <2>5. e5 \in Entries
    BY <2>1 DEF DefaultNames, Configurations, Settings, Fits, Placed
  <2>6. e6 \in Entries
    BY <1>2, <2>1 DEF DefaultNames, Fits, Placed
  <2> QED
    BY <2>2, <2>3, <2>4, <2>5, <2>6
<1>5. /\ e1.name = "trace" /\ e1.order = 0
      /\ e2.name = "cipher" /\ e2.order = 1
      /\ e3.name = "basic" /\ e3.order = 2
      /\ e4.name = "synchronous" /\ e4.order = 3 /\ e4.config = NULL
      /\ e5.name = "checkpoint" /\ e5.order = 4 /\ e5.config = "hook"
      /\ e6.name = "tokenize" /\ e6.order = 5
  BY DEF Entry
<1> HIDE DEF e1, e2, e3, e4, e5, e6
<1>6. defaultConfigs \in Seq(Entries)
  BY <1>1, <1>4
<1>7. /\ \A i \in DOMAIN defaultConfigs : i \in 1 .. 6
      /\ defaultConfigs[1] = e1 /\ defaultConfigs[2] = e2 /\ defaultConfigs[3] = e3
      /\ defaultConfigs[4] = e4 /\ defaultConfigs[5] = e5 /\ defaultConfigs[6] = e6
      /\ 4 \in DOMAIN defaultConfigs /\ 5 \in DOMAIN defaultConfigs
  BY <1>1
<1>8. \A i \in 1 .. 6 : \/ i = 1 \/ i = 2 \/ i = 3 \/ i = 4 \/ i = 5 \/ i = 6
  OBVIOUS
<1>9. \A i \in DOMAIN defaultConfigs : defaultConfigs[i].order = i - 1
  BY <1>5, <1>7, <1>8
<1>10. InOrder(defaultConfigs)
  BY <1>7, <1>9 DEF InOrder
<1>11. OneEach(defaultConfigs)
  BY <1>5, <1>7, <1>8 DEF OneEach
<1>12. Good(defaultConfigs)
  BY <1>6, <1>10, <1>11 DEF Good
<1>13. /\ ConfigOf(defaultConfigs, "synchronous") = NULL
       /\ ConfigOf(defaultConfigs, "checkpoint") = "hook"
  BY <1>5, <1>7, <1>12, ConfigIs
<1> QED
  BY <1>12, <1>13

(* The list of defaultConfigs is good.                                     *)
LEMMA InitConfigs == Init => CInv
<1> SUFFICES ASSUME Init PROVE CInv
  OBVIOUS
<1>1. Good(m_configs)
  BY DefaultsGood DEF Init
<1>2. \A t \in Threads : Good(newConfigs[t])
  BY EmptyGood DEF Init
<1>3. /\ newConfigs \in [Threads -> Seq(Entries)]
      /\ copied \in [Threads -> BOOLEAN]
      /\ todo \in [Threads -> Seq(Commands)]
      /\ \A t \in Threads : copied[t] => todo[t] # <<>>
  <2>1. \A S : <<>> \in Seq(S)
    OBVIOUS
  <2>2. <<>> \in Seq(Entries) /\ <<>> \in Seq(Commands)
    BY <2>1, Zenon
  <2> QED
    BY <2>2 DEF Init
<1>4. level \in {"none", "normal", "full"} /\ hooked \in BOOLEAN /\ calls \in 0 .. MaxCalls
  <2>1. MaxCalls \in Nat
    BY ConfigsAssumption
  <2>2. level = "none" /\ hooked = FALSE /\ calls = 0
    BY DEF Init
  <2>3. 0 \in 0 .. MaxCalls
    BY <2>1
  <2> QED
    BY <2>2, <2>3
<1>5. ran = FALSE
  BY DEF Init
<1> QED
  BY <1>1, <1>2, <1>3, <1>4, <1>5 DEF CInv

(* Copy keeps the invariant by ApplyEdits and FlowOut by InvokeSets.       *)
LEMMA NextConfigs == CInv /\ [Next]_vars => CInv'
<1> SUFFICES ASSUME CInv, [Next]_vars PROVE CInv'
  OBVIOUS
<1>1. ASSUME NEW t \in Threads, Call(t) PROVE CInv'
  <2>1. PICK request \in Requests :
            calls < MaxCalls /\ calls' = calls + 1
            /\ todo[t] = <<>> /\ todo' = [todo EXCEPT ![t] = request]
    BY <1>1 DEF Call
  <2>2. request \in Seq(Commands) /\ request # <<>>
    BY RequestsFit
  <2>3. todo' \in [Threads -> Seq(Commands)]
    BY <2>1, <2>2 DEF CInv
  <2>4. \A u \in Threads : copied[u] => todo'[u] # <<>>
    BY <2>1, <2>2 DEF CInv
  <2>5. calls' \in 0 .. MaxCalls
    BY <2>1, ConfigsAssumption DEF CInv
  <2>6. UNCHANGED <<m_configs, ran, level, hooked, newConfigs, copied>>
    BY <1>1 DEF Call, handleVars
  <2> QED
    BY <2>3, <2>4, <2>5, <2>6 DEF CInv, Good, OneEach, InOrder, NamesIn, LevelIn, ConfigOf,
           IndexOf
<1>2. ASSUME NEW t \in Threads, Copy(t) PROVE CInv'
  <2> DEFINE new == Apply(m_configs, Head(todo[t]))
  <2>1. Head(todo[t]) \in Commands
    BY <1>2 DEF Copy, CInv
  <2>2. EditOf(new, m_configs, Head(todo[t]))
    BY <2>1, ApplyEdits DEF CInv
  <2>3. Good(new) /\ new \in Seq(Entries)
    BY <2>2 DEF EditOf, Good
  <2>4. newConfigs' = [newConfigs EXCEPT ![t] = new]
    BY <1>2 DEF Copy
  <2> HIDE DEF new
  <2>5. /\ newConfigs' \in [Threads -> Seq(Entries)]
        /\ \A u \in Threads : newConfigs'[u] = IF u = t THEN new ELSE newConfigs[u]
    BY <2>3, <2>4 DEF CInv
  <2>6. \A u \in Threads : Good(newConfigs'[u])
    BY <2>3, <2>5 DEF CInv
  <2>7. /\ copied' \in [Threads -> BOOLEAN]
        /\ \A u \in Threads : copied'[u] => todo[u] # <<>>
    BY <1>2 DEF Copy, CInv
  <2>8. UNCHANGED <<m_configs, ran, level, hooked, todo, calls>>
    BY <1>2 DEF Copy, handleVars
  <2> QED
    BY <2>5, <2>6, <2>7, <2>8 DEF CInv, Good, OneEach, InOrder, NamesIn, LevelIn, ConfigOf,
           IndexOf
<1>3. ASSUME NEW t \in Threads, Assign(t) PROVE CInv'
  <2>1. m_configs' = newConfigs[t] /\ newConfigs' = [newConfigs EXCEPT ![t] = <<>>]
        /\ copied' = [copied EXCEPT ![t] = FALSE] /\ todo' = [todo EXCEPT ![t] = Tail(@)]
        /\ copied[t]
    BY <1>3 DEF Assign
  <2>2. Good(m_configs')
    BY <2>1 DEF CInv
  <2>3. /\ newConfigs' \in [Threads -> Seq(Entries)]
        /\ \A u \in Threads : newConfigs'[u] = IF u = t THEN <<>> ELSE newConfigs[u]
    BY <2>1 DEF CInv
  <2>4. \A u \in Threads : Good(newConfigs'[u])
    BY <2>3, EmptyGood DEF CInv
  <2>5. todo[t] \in Seq(Commands) /\ todo[t] # <<>>
    BY <2>1 DEF CInv
  <2>6. Tail(todo[t]) \in Seq(Commands)
    BY <2>5
  <2>7. /\ copied' \in [Threads -> BOOLEAN] /\ todo' \in [Threads -> Seq(Commands)]
        /\ \A u \in Threads : copied'[u] => todo'[u] # <<>>
    BY <2>1, <2>6 DEF CInv
  <2>8. ran' = FALSE /\ UNCHANGED <<level, hooked, calls>>
    BY <1>3 DEF Assign
  <2> QED
    BY <2>2, <2>3, <2>4, <2>7, <2>8 DEF CInv, Good, OneEach, InOrder, NamesIn, LevelIn,
           ConfigOf, IndexOf
<1>4. ASSUME FlowOut PROVE CInv'
  <2> DEFINE h == [level |-> level, hooked |-> hooked]
             g == Invoke(m_configs, h)
  <2>1. ran' = TRUE /\ level' = g.level /\ hooked' = g.hooked
        /\ UNCHANGED <<m_configs, todo, newConfigs, copied, calls>>
    BY <1>4 DEF FlowOut
  <2>2. h.level \in {"none", "normal", "full"} /\ h.hooked \in BOOLEAN /\ Good(m_configs)
    BY DEF CInv
  <2> HIDE DEF h
  <2>3. /\ g.level \in {"none", "normal", "full"} /\ g.hooked \in BOOLEAN
        /\ "basic" \in NamesIn(m_configs) => g.level = LevelIn(m_configs)
    BY <2>2, InvokeSets
  <2> HIDE DEF g
  <2>4. Good(m_configs')
    BY <2>1, <2>2
  <2>5. (ran /\ "basic" \in NamesIn(m_configs) => level = LevelIn(m_configs))'
    BY <2>1, <2>3 DEF LevelIn, NamesIn, ConfigOf, IndexOf
  <2>6. (\A t \in Threads : Good(newConfigs[t]))'
    BY <2>1 DEF CInv, Good, OneEach, InOrder
  <2> QED
    BY <2>1, <2>3, <2>4, <2>5, <2>6 DEF CInv
<1>5. CASE UNCHANGED vars
  BY <1>5 DEF vars, CInv, Good, OneEach, InOrder, NamesIn, LevelIn, ConfigOf, IndexOf
<1> QED
  BY <1>1, <1>2, <1>3, <1>4, <1>5 DEF Next

(* Whatever threads set, and over whatever list, the lists are good        *)
(* (config.cpp:37-75).                                                     *)
THEOREM ConfigsInvariance == Spec => []CInv
BY InitConfigs, NextConfigs, PTL DEF Spec

(* What the runs check follows.                                            *)
LEMMA ConfigsMean == CInv => Sorted /\ LevelAsConfigured
<1> SUFFICES ASSUME CInv PROVE Sorted /\ LevelAsConfigured
  OBVIOUS
<1>1. /\ \A i \in DOMAIN m_configs : m_configs[i] \in Entries
      /\ OneEach(m_configs) /\ InOrder(m_configs)
  BY GoodFacts DEF CInv
<1>2. TypeOK
  BY <1>1, EntryFacts DEF TypeOK, CInv, OneEach
<1>3. Sorted
  BY <1>1, <1>2 DEF Sorted, InOrder
<1>4. LevelAsConfigured
  BY DEF CInv, LevelAsConfigured, LevelIn
<1> QED
  BY <1>3, <1>4

(* The list is sorted and has one entry for a name, for any names, orders  *)
(* and threads (WCTDatabase+Core.h, "The smaller number is called first"). *)
THEOREM SortedAlways == Spec => []Sorted
BY ConfigsInvariance, ConfigsMean, PTL

(* A connection that has run the current list has the synchronous level that *)
(* list asks for, whatever it ran before: Basic, with its NORMAL, never comes *)
(* after the config that sets FULL (database_config.cpp:137-146 and 290-319). *)
THEOREM LevelAlwaysConfigured == Spec => []LevelAsConfigured
BY ConfigsInvariance, ConfigsMean, PTL

-----------------------------------------------------------------------------
(* Setters called one at a time.  With two threads neither theorem holds:  *)
(* of two edits of the same list one is undone.                            *)

\* The copy under way is an edit of the list there is.
Fresh == \A t \in Threads :
    copied[t] => newConfigs[t] = Apply(m_configs, Head(todo[t]))

\* FULL or the hook.
Halves(list) == {"synchronous", "checkpoint"} \subseteq NamesIn(list) =>
    (ConfigOf(list, "synchronous") = NULL <=> ConfigOf(list, "checkpoint") = "hook")

(* Where a thread is: not in setSynchronousFull, before its first set, or  *)
(* between the two.                                                        *)
Outside(calling) ==
    /\ Halves(m_configs)
    /\ calling # <<>> =>
           Len(calling) = 1 /\ Head(calling).name \notin {"synchronous", "checkpoint"}

Between(calling) == \E full \in BOOLEAN :
    /\ calling = <<setSynchronousFull(full)[2]>>
    /\ "synchronous" \in NamesIn(m_configs)
    /\ ConfigOf(m_configs, "synchronous") = setSynchronousFull(full)[1].config

Place(calling) ==
    Outside(calling) \/ calling \in {setSynchronousFull(full) : full \in BOOLEAN}
    \/ Between(calling)

(* What a single thread keeps true besides CInv.                           *)
SInv == Fresh /\ \A t \in Threads : Place(todo[t])

(* A set of another config leaves the two as they are.                     *)
LEMMA OtherSet ==
    ASSUME NEW list, Good(list), NEW call \in Commands, Halves(list),
           call.name \notin {"synchronous", "checkpoint"}
    PROVE  Halves(Apply(list, call))
<1> DEFINE new == Apply(list, call)
<1>1. EditOf(new, list, call)
  BY ApplyEdits
<1> HIDE DEF new
<1>2. \A name \in NamesIn(new) \ {call.name} :
          name \in NamesIn(list) /\ ConfigOf(new, name) = ConfigOf(list, name)
  BY <1>1, EditConfigs
<1>3. Halves(new)
  BY <1>2 DEF Halves
<1> QED
  BY <1>3 DEF new

(* The two sets of setSynchronousFull.                                     *)
LEMMA FullSets ==
    ASSUME NEW full \in BOOLEAN
    PROVE  /\ setSynchronousFull(full)[1] \in Commands
           /\ setSynchronousFull(full)[2] \in Commands
           /\ setSynchronousFull(full)
                  = <<setSynchronousFull(full)[1], setSynchronousFull(full)[2]>>
           /\ setSynchronousFull(full)[1].name = "synchronous"
           /\ setSynchronousFull(full)[2].name = "checkpoint"
           /\ setSynchronousFull(full)[1].order = NoOrder
           /\ setSynchronousFull(full)[2].order = NoOrder
           /\ setSynchronousFull(full)[1].config = NULL
                  <=> setSynchronousFull(full)[2].config = "hook"
<1>1. NULL # "full" /\ NULL # "hook"
  BY ConfigsAssumption DEF Settings
<1>2. setSynchronousFull(full) \in Seq(Commands)
  BY RequestsFit DEF Requests
<1>3. CASE full = TRUE
  <2> DEFINE a == Named("synchronous", "full")
             b == Named("checkpoint", NULL)
  <2>1. setSynchronousFull(full) = <<a, b>>
    BY <1>3 DEF setSynchronousFull
  <2>2. a.name = "synchronous" /\ b.name = "checkpoint" /\ a.order = NoOrder
        /\ b.order = NoOrder /\ a.config = "full" /\ b.config = NULL
    BY DEF Named
  <2> HIDE DEF a, b
  <2>3. a \in Commands /\ b \in Commands
    BY <1>2, <2>1
  <2> QED
    BY <1>1, <2>1, <2>2, <2>3
<1>4. CASE full = FALSE
  <2> DEFINE a == Named("synchronous", NULL)
             b == Named("checkpoint", "hook")
  <2>1. setSynchronousFull(full) = <<a, b>>
    BY <1>4 DEF setSynchronousFull
  <2>2. a.name = "synchronous" /\ b.name = "checkpoint" /\ a.order = NoOrder
        /\ b.order = NoOrder /\ a.config = NULL /\ b.config = "hook"
    BY DEF Named
  <2> HIDE DEF a, b
  <2>3. a \in Commands /\ b \in Commands
    BY <1>2, <2>1
  <2> QED
    BY <1>1, <2>1, <2>2, <2>3
<1> QED
  BY <1>3, <1>4

(* The library starts with the hook and without FULL.                      *)
LEMMA InitOneThread == Init => SInv
<1> SUFFICES ASSUME Init PROVE SInv
  OBVIOUS
<1>1. Halves(m_configs)
  BY DefaultsGood DEF Init, Halves
<1>2. \A t \in Threads : todo[t] = <<>> /\ ~copied[t]
  BY DEF Init
<1> QED
  BY <1>1, <1>2 DEF SInv, Fresh, Place, Outside

(* An assignment of a thread that is alone.                                *)
LEMMA AssignAlone ==
    ASSUME CInv, SInv, NEW t \in Threads, Assign(t)
    PROVE  /\ Head(todo[t]) \in Commands
           /\ EditOf(m_configs', m_configs, Head(todo[t]))
           /\ Place(todo[t])' /\ ~copied'[t]
<1> DEFINE call == Head(todo[t])
<1>1. /\ copied[t] /\ m_configs' = newConfigs[t] /\ todo'[t] = Tail(todo[t]) /\ ~copied'[t]
  BY DEF Assign, CInv
<1>2. todo[t] \in Seq(Commands) /\ todo[t] # <<>> /\ call \in Commands
  BY <1>1 DEF CInv
<1>3. m_configs' = Apply(m_configs, call)
  BY <1>1 DEF SInv, Fresh
<1>4. EditOf(m_configs', m_configs, call)
  BY <1>2, <1>3, ApplyEdits DEF CInv
<1>5. /\ call.name \in NamesIn(m_configs') /\ ConfigOf(m_configs', call.name) = call.config
      /\ call.order = NoOrder =>
             \A name \in NamesIn(m_configs) \ {call.name} :
                 /\ name \in NamesIn(m_configs')
                 /\ ConfigOf(m_configs', name) = ConfigOf(m_configs, name)
  <2> DEFINE new == Apply(m_configs, call)
  <2>1. EditOf(new, m_configs, call) /\ m_configs' = new
    BY <1>3, <1>4
  <2> HIDE DEF new
  <2>2. Good(m_configs)
    BY DEF CInv
  <2>3. /\ call.name \in NamesIn(new) /\ ConfigOf(new, call.name) = call.config
        /\ call.order = NoOrder =>
               \A name \in NamesIn(m_configs) \ {call.name} :
                   name \in NamesIn(new) /\ ConfigOf(new, name) = ConfigOf(m_configs, name)
    BY <1>2, <2>1, <2>2, EditConfigs
  <2> QED
    BY <2>1, <2>3
<1>6. Place(todo[t])'
  <2>1. CASE Outside(todo[t])
    <3>1. Halves(Apply(m_configs, call))
      BY <1>2, <2>1, OtherSet DEF Outside, CInv
    <3>2. todo'[t] = <<>>
      <4>1. Len(todo[t]) = 1
        BY <1>2, <2>1 DEF Outside
      <4>2. Tail(todo[t]) \in Seq(Commands) /\ Len(Tail(todo[t])) = 0
        BY <1>2, <4>1
      <4>3. Tail(todo[t]) = <<>>
        BY <4>2, EmptySeq
      <4> QED
        BY <1>1, <4>3
    <3>3. Halves(m_configs)'
      BY <1>3, <3>1 DEF Halves, NamesIn, ConfigOf, IndexOf
    <3> QED
      BY <3>2, <3>3 DEF Place, Outside
  <2>2. CASE todo[t] \in {setSynchronousFull(full) : full \in BOOLEAN}
    <3>1. PICK full \in BOOLEAN : todo[t] = setSynchronousFull(full)
      BY <2>2
    <3> DEFINE first == setSynchronousFull(full)[1]
               second == setSynchronousFull(full)[2]
    <3>2. setSynchronousFull(full) = <<first, second>> /\ first.name = "synchronous"
      BY FullSets
    <3> HIDE DEF first, second
    <3>3. call = first /\ Tail(todo[t]) = <<second>>
      BY <3>1, <3>2
    <3>4. /\ todo'[t] = <<second>> /\ "synchronous" \in NamesIn(m_configs')
          /\ ConfigOf(m_configs', "synchronous") = first.config
      BY <1>1, <1>5, <3>2, <3>3
    <3>5. Between(todo[t])'
      BY <3>4 DEF Between, first, second
    <3> QED
      BY <3>5 DEF Place
  <2>3. CASE Between(todo[t])
    <3>1. PICK full \in BOOLEAN :
              /\ todo[t] = <<setSynchronousFull(full)[2]>>
              /\ "synchronous" \in NamesIn(m_configs)
              /\ ConfigOf(m_configs, "synchronous") = setSynchronousFull(full)[1].config
      BY <2>3 DEF Between
    <3> DEFINE first == setSynchronousFull(full)[1]
               second == setSynchronousFull(full)[2]
    <3>2. /\ second.name = "checkpoint" /\ second.order = NoOrder
          /\ first.config = NULL <=> second.config = "hook"
      BY FullSets
    <3>3. todo[t] = <<second>> /\ ConfigOf(m_configs, "synchronous") = first.config
      BY <3>1
    <3> HIDE DEF first, second
    <3>4. call = second /\ Tail(todo[t]) = <<>>
      BY <3>3
    <3>5. /\ ConfigOf(m_configs', "checkpoint") = second.config
          /\ ConfigOf(m_configs', "synchronous") = first.config
      BY <1>5, <3>1, <3>2, <3>3, <3>4
    <3>6. Halves(m_configs)'
      BY <3>2, <3>5 DEF Halves
    <3>7. todo'[t] = <<>>
      BY <1>1, <3>4
    <3> QED
      BY <3>6, <3>7 DEF Place, Outside
  <2> QED
    BY <2>1, <2>2, <2>3 DEF SInv, Place
<1> QED
  BY <1>1, <1>2, <1>4, <1>6

(* The steps of a single thread, and the connections that flow out meanwhile. *)
LEMMA NextOneThread ==
    ASSUME NEW thread, Threads = {thread}
    PROVE  CInv /\ SInv /\ [Next]_vars => SInv'
<1> SUFFICES ASSUME CInv, SInv, [Next]_vars PROVE SInv'
  OBVIOUS
<1>1. ASSUME NEW t \in Threads, Call(t) PROVE SInv'
  <2>1. PICK request \in Requests : todo[t] = <<>> /\ todo' = [todo EXCEPT ![t] = request]
    BY <1>1 DEF Call
  <2>2. m_configs' = m_configs /\ copied' = copied /\ newConfigs' = newConfigs
    BY <1>1 DEF Call
  <2>3. todo'[t] = request /\ ~copied[t]
    BY <2>1 DEF CInv
  <2>4. \A u \in Threads : u = t
    OBVIOUS
  <2>5. Fresh'
    BY <2>2, <2>3, <2>4 DEF Fresh
  <2>6. Halves(m_configs)
    BY <2>1, FullSets DEF SInv, Place, Outside, Between
  <2>7. Halves(m_configs)'
    BY <2>2, <2>6 DEF Halves, NamesIn, ConfigOf, IndexOf
  <2>8. Place(todo[t])'
    <3>1. CASE request \in {setSynchronousFull(full) : full \in BOOLEAN}
      BY <2>3, <3>1 DEF Place
    <3>2. CASE request \notin {setSynchronousFull(full) : full \in BOOLEAN}
      <4>1. Len(request) = 1 /\ Head(request).name \notin {"synchronous", "checkpoint"}
        <5>1. CASE request \in setConfig
          <6>1. PICK c : request = <<c>> /\ c.name \in Names
            BY <5>1 DEF setConfig, Named
          <6>2. c.name \notin KeptNames
            BY <6>1, ConfigsAssumption
          <6> QED
            BY <6>1, <6>2 DEF KeptNames
        <5>2. CASE request \in {setCipher, setPerformanceTrace, setTokenizes}
          BY <5>2 DEF setCipher, setPerformanceTrace, setTokenizes, Named
        <5> QED
          BY <3>2, <5>1, <5>2 DEF Requests
      <4> QED
        BY <2>3, <2>7, <4>1 DEF Place, Outside
    <3> QED
      BY <3>1, <3>2
  <2> QED
    BY <2>4, <2>5, <2>8 DEF SInv
<1>2. ASSUME NEW t \in Threads, Copy(t) PROVE SInv'
  <2>1. newConfigs' = [newConfigs EXCEPT ![t] = Apply(m_configs, Head(todo[t]))]
        /\ todo' = todo /\ m_configs' = m_configs
    BY <1>2 DEF Copy
  <2>2. \A u \in Threads : u = t
    OBVIOUS
  <2>3. newConfigs'[t] = Apply(m_configs, Head(todo[t]))
    BY <2>1 DEF CInv
  <2>4. (\A u \in Threads : copied[u] => newConfigs[u] = Apply(m_configs, Head(todo[u])))'
    BY <2>1, <2>2, <2>3
  <2>5. (\A u \in Threads : Place(todo[u]))'
    BY <2>1 DEF SInv, Place, Outside, Between, Halves
  <2> QED
    BY <2>4, <2>5 DEF SInv, Fresh
<1>3. ASSUME NEW t \in Threads, Assign(t) PROVE SInv'
  <2>1. Place(todo[t])' /\ ~copied'[t]
    BY <1>3, AssignAlone
  <2>2. \A u \in Threads : u = t
    OBVIOUS
  <2> QED
    BY <2>1, <2>2 DEF SInv, Fresh
<1>4. ASSUME FlowOut \/ UNCHANGED vars PROVE SInv'
  <2>1. UNCHANGED <<m_configs, todo, newConfigs, copied>>
    BY <1>4 DEF FlowOut, vars
  <2>2. Fresh'
    BY <2>1 DEF SInv, Fresh
  <2>3. (\A u \in Threads : Place(todo[u]))'
    BY <2>1 DEF SInv, Place, Outside, Between, Halves
  <2> QED
    BY <2>2, <2>3 DEF SInv
<1> QED
  BY <1>1, <1>2, <1>3, <1>4 DEF Next

(* Both invariants, for a single thread.                                   *)
LEMMA OneThreadInvariance ==
    ASSUME NEW thread, Threads = {thread}
    PROVE  Spec => [](CInv /\ SInv)
<1>1. CInv /\ SInv /\ [Next]_vars => (CInv /\ SInv)'
  BY NextConfigs, NextOneThread
<1>2. Init => CInv /\ SInv
  BY InitConfigs, InitOneThread
<1> QED
  BY <1>1, <1>2, PTL DEF Spec

(* setSynchronousFull leaves FULL or the checkpoint hook, and not both, where *)
(* a single thread calls setters (database_config.cpp:290-319).            *)
THEOREM FullOrHook ==
    ASSUME NEW thread, Threads = {thread}
    PROVE  Spec => []SynchronousConsistent
<1>1. CInv /\ SInv => SynchronousConsistent
  <2> SUFFICES ASSUME SInv, \A t \in Threads : todo[t] = <<>>
               PROVE  Halves(m_configs)
    BY DEF SynchronousConsistent, Halves
  <2>1. Place(<<>>)
    BY DEF SInv
  <2>2. \A full \in BOOLEAN : <<>> # setSynchronousFull(full)
    BY DEF setSynchronousFull
  <2>3. \A c : <<>> # <<c>>
    OBVIOUS
  <2> QED
    BY <2>1, <2>2, <2>3 DEF Place, Outside, Between
<1> QED
  BY <1>1, OneThreadInvariance, PTL

(* A set without an order, which all setters of the library are, loses no  *)
(* other config, where a single thread sets (config.cpp:58-75).            *)
THEOREM OneThreadKeepsOthers ==
    ASSUME NEW thread, Threads = {thread}
    PROVE  Spec => NamedKeepsOthers
<1>1. ASSUME CInv, SInv, [Next]_vars,
             NEW t \in Threads, copied[t], ~copied'[t], Head(todo[t]).order = NoOrder
      PROVE  KeepsOthers(Head(todo[t]))
  <2>1. Assign(t)
    <3>1. ASSUME NEW u \in Threads, Call(u) \/ Copy(u) PROVE FALSE
      BY <1>1, <3>1 DEF Call, Copy, CInv
    <3>2. ASSUME NEW u \in Threads, Assign(u) PROVE Assign(t)
      BY <3>2
    <3>3. ~FlowOut /\ ~UNCHANGED vars
      BY <1>1 DEF FlowOut, vars
    <3> QED
      BY <1>1, <3>1, <3>2, <3>3 DEF Next
  <2> DEFINE call == Head(todo[t])
  <2>2. call \in Commands /\ EditOf(m_configs', m_configs, call) /\ Good(m_configs)
    BY <1>1, <2>1, AssignAlone DEF CInv
  <2>3. PICK new : new = m_configs'
    OBVIOUS
  <2>4. EditOf(new, m_configs, call) /\ call.order = NoOrder
    BY <1>1, <2>2, <2>3
  <2> HIDE DEF call
  <2>5. \A name \in NamesIn(m_configs) \ {call.name} :
            name \in NamesIn(new) /\ ConfigOf(new, name) = ConfigOf(m_configs, name)
    BY <2>2, <2>4, EditConfigs
  <2> QED
    BY <2>3, <2>5 DEF KeepsOthers, call
<1>2. CInv /\ SInv /\ [Next]_vars =>
          [\A t \in Threads : copied[t] /\ ~copied'[t] /\ Head(todo[t]).order = NoOrder
              => KeepsOthers(Head(todo[t]))]_vars
  BY <1>1
<1> QED
  BY <1>2, OneThreadInvariance, PTL DEF Spec, NamedKeepsOthers

-----------------------------------------------------------------------------
(* The invariant of the queue.                                             *)
Elements == [key : Keys, expires : 0 .. MaxTime]

QueueTypes ==
    /\ m_list \in Seq(Elements)
    /\ m_map \in [Keys -> Elements \cup {End}]
    /\ clock \in 0 .. MaxTime
    /\ last \in [Keys -> 0 .. clock]
    /\ pc \in {"enter", "wait", "readClock", "look", "sleep", "asleep", "onExpired"}
    /\ now \in 0 .. clock
    /\ left \in 0 .. MaxTime

(* Whatever list it is: one element for each key, which the map has, with  *)
(* the time of the last reQueue of the key.                                *)
Held(list, map) ==
    /\ \A i, j \in DOMAIN list : list[i].key = list[j].key => i = j
    /\ \A i \in DOMAIN list : map[list[i].key] = list[i]
    /\ \A key \in Keys : map[key] # End =>
           \E i \in DOMAIN list : list[i] = map[key] /\ list[i].key = key

Stamped(list, at) ==
    \A i \in DOMAIN list : list[i].expires = at[list[i].key] + Delay

Ordered(list) ==
    \A i, j \in DOMAIN list : i < j => list[i].expires >= list[j].expires

Sleeper ==
    /\ pc \in {"readClock", "look", "sleep", "asleep"} => m_list # <<>>
    /\ pc = "sleep" => element \in Elements /\ now <= element.expires

QInv ==
    /\ QueueTypes
    /\ Held(m_list, m_map)
    /\ Stamped(m_list, last)
    /\ Ordered(m_list)
    /\ Sleeper

-----------------------------------------------------------------------------

(* What push_front makes.                                                  *)
LEMMA PushFront ==
    ASSUME NEW S, NEW list \in Seq(S), NEW e \in S
    PROVE  /\ <<e>> \o list \in Seq(S)
           /\ Len(<<e>> \o list) = Len(list) + 1
           /\ (<<e>> \o list)[1] = e
           /\ \A i \in 2 .. Len(list) + 1 : (<<e>> \o list)[i] = list[i - 1]
OBVIOUS

(* What reQueue keeps of the list: all but the element of its key, in the  *)
(* same order.                                                             *)
Shortened(list, key) ==
    /\ list \in Seq(Elements)
    /\ \A n \in DOMAIN list : \E a \in DOMAIN m_list : list[n] = m_list[a]
    /\ \A n, k \in DOMAIN list : n < k =>
           \E a, b \in DOMAIN m_list : a < b /\ list[n] = m_list[a] /\ list[k] = m_list[b]
    /\ \A n \in DOMAIN list : list[n].key # key
    /\ \A a \in DOMAIN m_list :
           m_list[a].key # key => \E n \in DOMAIN list : list[n] = m_list[a]

(* reQueue erases the element that m_map has for the key, and no other.    *)
LEMMA WithoutShortens ==
    ASSUME QInv, NEW key \in Keys
    PROVE  Shortened(Erased(m_list, m_map[key]), key)
<1>1. /\ m_list \in Seq(Elements) /\ m_map \in [Keys -> Elements \cup {End}]
      /\ Len(m_list) \in Nat /\ DOMAIN m_list = 1 .. Len(m_list)
  BY DEF QInv, QueueTypes
<1>2. End \notin Elements
  BY QueueAssumption DEF Elements
<1>3. /\ \A a, b \in DOMAIN m_list : m_list[a].key = m_list[b].key => a = b
      /\ \A a \in DOMAIN m_list : m_map[m_list[a].key] = m_list[a]
      /\ m_map[key] # End =>
             \E a \in DOMAIN m_list : m_list[a] = m_map[key] /\ m_list[a].key = key
  BY DEF QInv, Held
<1>4. \A a \in DOMAIN m_list : m_list[a] \in Elements
  BY <1>1
<1>5. CASE m_map[key] = End
  <2>1. Erased(m_list, m_map[key]) = m_list
    BY <1>5 DEF Erased
  <2>2. \A a \in DOMAIN m_list : m_list[a].key # key
    BY <1>2, <1>3, <1>4, <1>5
  <2> QED
    BY <1>1, <2>1, <2>2 DEF Shortened
<1>6. CASE m_map[key] # End
  <2> DEFINE k == CHOOSE n \in DOMAIN m_list : m_list[n] = m_map[key]
             list == RemoveAt(m_list, k)
  <2>1. k \in DOMAIN m_list /\ m_list[k] = m_map[key]
    BY <1>3, <1>6
  <2>2. Erased(m_list, m_map[key]) = list
    BY <1>6 DEF Erased
  <2>3. /\ list \in Seq(Elements) /\ Len(list) = Len(m_list) - 1
        /\ \A n \in 1 .. Len(m_list) - 1 :
               list[n] = m_list[IF n < k THEN n ELSE n + 1]
    BY <1>1, <2>1, RemoveAtLeaves
  <2> HIDE DEF list
  <2>4. m_list[k].key = key
    BY <1>3, <1>6, <2>1
  <2> HIDE DEF k
  <2>5. DOMAIN list = 1 .. Len(m_list) - 1
    BY <1>1, <2>3
  <2>6. ASSUME NEW n \in DOMAIN list
        PROVE  \E a \in DOMAIN m_list :
                  a = (IF n < k THEN n ELSE n + 1) /\ list[n] = m_list[a]
    BY <1>1, <2>1, <2>3, <2>5
  <2>7. ASSUME NEW n \in DOMAIN list PROVE list[n].key # key
    <3>1. PICK a \in DOMAIN m_list : a = (IF n < k THEN n ELSE n + 1) /\ list[n] = m_list[a]
      BY <2>6
    <3>2. a # k
      BY <1>1, <2>1, <2>5, <3>1
    <3> QED
      BY <1>3, <2>1, <2>4, <3>1, <3>2
  <2>8. ASSUME NEW n \in DOMAIN list, NEW m \in DOMAIN list, n < m
        PROVE  \E a, b \in DOMAIN m_list : a < b /\ list[n] = m_list[a] /\ list[m] = m_list[b]
    <3>1. PICK a \in DOMAIN m_list : a = (IF n < k THEN n ELSE n + 1) /\ list[n] = m_list[a]
      BY <2>6
    <3>2. PICK b \in DOMAIN m_list : b = (IF m < k THEN m ELSE m + 1) /\ list[m] = m_list[b]
      BY <2>6
    <3>3. a < b
      BY <1>1, <2>1, <2>5, <2>8, <3>1, <3>2
    <3> QED
      BY <3>1, <3>2, <3>3
  <2>9. ASSUME NEW a \in DOMAIN m_list, m_list[a].key # key
        PROVE  \E n \in DOMAIN list : list[n] = m_list[a]
    <3>1. a # k
      BY <2>4, <2>9
    <3>2. CASE a < k
      BY <1>1, <2>1, <2>3, <2>5, <3>2
    <3>3. CASE a > k
      <4>1. a - 1 \in DOMAIN list /\ ~(a - 1 < k) /\ (a - 1) + 1 = a
        BY <1>1, <2>1, <2>5, <3>3
      <4>2. list[a - 1] = m_list[a]
        BY <2>3, <2>5, <4>1
      <4> QED
        BY <4>1, <4>2
    <3> QED
      BY <1>1, <2>1, <3>1, <3>2, <3>3
  <2> QED
    BY <2>2, <2>3, <2>6, <2>7, <2>8, <2>9 DEF Shortened
<1> QED
  BY <1>5, <1>6

(* reQueue puts the key in at the front, the youngest of the list.         *)
LEMMA ReQueuePreserves ==
    ASSUME QInv, NEW key \in Keys, ReQueue(key)
    PROVE  QInv'
<1> DEFINE e == Element(key, clock + Delay)
<1>1. PICK rest : rest = Erased(m_list, m_map[key])
  OBVIOUS
<1>2. Shortened(rest, key)
  BY <1>1, WithoutShortens
<1>3. /\ m_list' = <<e>> \o rest /\ m_map' = [m_map EXCEPT ![key] = e]
      /\ last' = [last EXCEPT ![key] = clock]
      /\ UNCHANGED <<clock, now, element, left>>
      /\ clock + Delay < MaxTime
      /\ pc' = IF m_list = <<>> /\ pc = "wait" THEN "enter" ELSE pc
  BY <1>1 DEF ReQueue, Put, Signal
<1>4. /\ m_list \in Seq(Elements) /\ m_map \in [Keys -> Elements \cup {End}]
      /\ clock \in 0 .. MaxTime /\ last \in [Keys -> 0 .. clock]
      /\ Delay \in Nat \ {0} /\ MaxTime \in Nat
  BY QueueAssumption DEF QInv, QueueTypes
<1>5. e \in Elements /\ e.key = key /\ e.expires = clock + Delay
  BY <1>3, <1>4 DEF Element, Elements
<1> HIDE DEF e
<1>6. rest \in Seq(Elements) /\ Len(rest) \in Nat /\ DOMAIN rest = 1 .. Len(rest)
  BY <1>2 DEF Shortened
<1>7. /\ m_list' \in Seq(Elements) /\ Len(m_list') = Len(rest) + 1 /\ m_list'[1] = e
      /\ \A n \in 2 .. Len(rest) + 1 : m_list'[n] = rest[n - 1]
  BY <1>3, <1>5, <1>6, PushFront
<1>8. DOMAIN m_list' = 1 .. Len(rest) + 1
  BY <1>7
<1>9. ASSUME NEW n \in DOMAIN m_list'
      PROVE  n = 1 \/ (n > 1 /\ n - 1 \in DOMAIN rest /\ m_list'[n] = rest[n - 1])
  BY <1>6, <1>7, <1>8
<1>10. QueueTypes'
  <2>1. clock' = clock /\ now' = now /\ left' = left
    BY <1>3
  <2>2. m_map' \in [Keys -> Elements \cup {End}]
    BY <1>3, <1>4, <1>5
  <2>3. last' \in [Keys -> 0 .. clock]
    BY <1>3, <1>4
  <2>4. pc' \in {"enter", "wait", "readClock", "look", "sleep", "asleep", "onExpired"}
    BY <1>3 DEF QInv, QueueTypes
  <2> QED
    BY <1>7, <2>1, <2>2, <2>3, <2>4 DEF QInv, QueueTypes, Elements
<1>11. ASSUME NEW n \in DOMAIN rest
       PROVE  rest[n].key # key /\ \E a \in DOMAIN m_list : rest[n] = m_list[a]
  BY <1>2 DEF Shortened
<1>12. Held(m_list', m_map')
  <2>1. ASSUME NEW n \in DOMAIN m_list', NEW k \in DOMAIN m_list', n < k
        PROVE  m_list'[n].key # m_list'[k].key
    <3>1. k > 1 /\ k - 1 \in DOMAIN rest /\ m_list'[k] = rest[k - 1]
      BY <1>8, <1>9, <2>1
    <3>2. CASE n = 1
      BY <1>5, <1>7, <1>11, <3>1, <3>2
    <3>3. CASE n > 1 /\ n - 1 \in DOMAIN rest /\ m_list'[n] = rest[n - 1]
      <4>1. n - 1 < k - 1
        BY <1>8, <2>1
      <4>2. PICK a, b \in DOMAIN m_list :
                a < b /\ rest[n - 1] = m_list[a] /\ rest[k - 1] = m_list[b]
        BY <1>2, <3>1, <3>3, <4>1 DEF Shortened
      <4>3. a # b
        BY <1>4, <4>2
      <4> QED
        BY <3>1, <3>3, <4>2, <4>3 DEF QInv, Held
    <3> QED
      BY <1>9, <3>2, <3>3
  <2>2. ASSUME NEW n \in DOMAIN m_list', NEW k \in DOMAIN m_list',
               m_list'[n].key = m_list'[k].key
        PROVE  n = k
    BY <1>8, <2>1, <2>2
  <2>3. ASSUME NEW n \in DOMAIN m_list' PROVE m_map'[m_list'[n].key] = m_list'[n]
    <3>1. CASE n = 1
      BY <1>3, <1>4, <1>5, <1>7, <3>1
    <3>2. CASE n - 1 \in DOMAIN rest /\ m_list'[n] = rest[n - 1]
      <4>1. PICK a \in DOMAIN m_list : rest[n - 1] = m_list[a]
        BY <1>11, <3>2
      <4>2. m_list[a].key # key /\ m_map[m_list[a].key] = m_list[a]
        BY <1>11, <3>2, <4>1 DEF QInv, Held
      <4> QED
        BY <1>3, <1>4, <3>2, <4>1, <4>2
    <3> QED
      BY <1>9, <3>1, <3>2
  <2>4. ASSUME NEW p \in Keys, m_map'[p] # End
        PROVE  \E n \in DOMAIN m_list' : m_list'[n] = m_map'[p] /\ m_list'[n].key = p
    <3>1. CASE p = key
      <4>1. 1 \in DOMAIN m_list' /\ m_map'[p] = e
        BY <1>3, <1>4, <1>6, <1>8, <3>1
      <4> QED
        BY <1>5, <1>7, <3>1, <4>1
    <3>2. CASE p # key
      <4>1. m_map'[p] = m_map[p]
        BY <1>3, <1>4, <3>2
      <4>2. PICK a \in DOMAIN m_list : m_list[a] = m_map[p] /\ m_list[a].key = p
        BY <2>4, <4>1 DEF QInv, Held
      <4>3. PICK n \in DOMAIN rest : rest[n] = m_list[a]
        BY <1>2, <3>2, <4>2 DEF Shortened
      <4>4. n + 1 \in DOMAIN m_list' /\ m_list'[n + 1] = rest[n]
        BY <1>6, <1>7, <1>8
      <4> QED
        BY <4>1, <4>2, <4>3, <4>4
    <3> QED
      BY <3>1, <3>2
  <2> QED
    BY <2>2, <2>3, <2>4 DEF Held
<1>13. Stamped(m_list', last')
  <2> SUFFICES ASSUME NEW n \in DOMAIN m_list'
               PROVE  m_list'[n].expires = last'[m_list'[n].key] + Delay
    BY DEF Stamped
  <2>1. CASE n = 1
    BY <1>3, <1>4, <1>5, <1>7, <2>1
  <2>2. CASE n - 1 \in DOMAIN rest /\ m_list'[n] = rest[n - 1]
    <3>1. PICK a \in DOMAIN m_list : rest[n - 1] = m_list[a]
      BY <1>11, <2>2
    <3>2. m_list[a].key # key /\ m_list[a].expires = last[m_list[a].key] + Delay
      BY <1>11, <2>2, <3>1 DEF QInv, Stamped
    <3> QED
      BY <1>3, <1>4, <2>2, <3>1, <3>2
  <2> QED
    BY <1>9, <2>1, <2>2
<1>14. Ordered(m_list')
  <2> SUFFICES ASSUME NEW n \in DOMAIN m_list', NEW k \in DOMAIN m_list', n < k
               PROVE  m_list'[n].expires >= m_list'[k].expires
    BY DEF Ordered
  <2>1. k > 1 /\ k - 1 \in DOMAIN rest /\ m_list'[k] = rest[k - 1]
    BY <1>8, <1>9
  <2>2. PICK a \in DOMAIN m_list : rest[k - 1] = m_list[a]
    BY <1>11, <2>1
  <2>3. CASE n = 1
    <3>1. m_list[a] \in Elements
      BY <1>4
    <3>2. m_list[a].expires = last[m_list[a].key] + Delay
      BY DEF QInv, Stamped
    <3>3. m_list[a].key \in Keys
      BY <3>1 DEF Elements
    <3>4. last[m_list[a].key] \in 0 .. clock
      BY <1>4, <3>3
    <3>5. clock + Delay >= m_list[a].expires
      BY <1>4, <3>2, <3>4
    <3> QED
      BY <1>5, <1>7, <2>1, <2>2, <2>3, <3>5
  <2>4. CASE n > 1 /\ n - 1 \in DOMAIN rest /\ m_list'[n] = rest[n - 1]
    <3>1. n - 1 < k - 1
      BY <1>8
    <3>2. PICK b, c \in DOMAIN m_list :
              b < c /\ rest[n - 1] = m_list[b] /\ rest[k - 1] = m_list[c]
      BY <1>2, <2>1, <2>4, <3>1 DEF Shortened
    <3> QED
      BY <2>1, <2>4, <3>2 DEF QInv, Ordered
  <2> QED
    BY <1>9, <2>3, <2>4
<1>15. Sleeper'
  <2>1. m_list' # <<>>
    BY <1>6, <1>7
  <2> QED
    BY <1>3, <2>1 DEF QInv, Sleeper, Elements
<1> QED
  BY <1>10, <1>12, <1>13, <1>14, <1>15 DEF QInv

(* The element at the back, and what pop_back leaves.                      *)
LEMMA PopBack ==
    ASSUME NEW S, NEW list \in Seq(S), list # <<>>
    PROVE  /\ Len(list) \in DOMAIN list /\ Last(list) = list[Len(list)] /\ Last(list) \in S
           /\ Front(list) \in Seq(S) /\ DOMAIN Front(list) = 1 .. Len(list) - 1
           /\ \A n \in 1 .. Len(list) - 1 : Front(list)[n] = list[n] /\ n \in DOMAIN list
<1>1. Len(list) \in Nat /\ Len(list) # 0 /\ DOMAIN list = 1 .. Len(list)
  OBVIOUS
<1>2. Len(list) \in DOMAIN list /\ Last(list) = list[Len(list)] /\ Last(list) \in S
  BY <1>1 DEF Last
<1>3. /\ Front(list) \in Seq(S) /\ Len(Front(list)) = Len(list) - 1
      /\ \A n \in 1 .. Len(list) - 1 : Front(list)[n] = list[n]
  BY <1>1 DEF Front
<1> QED
  BY <1>1, <1>2, <1>3

(* waitUntilExpired takes the element at the back out of the list and the map, *)
(* or sleeps until it expires.                                             *)
LEMMA LookPreserves ==
    ASSUME QInv, Look
    PROVE  /\ QInv'
           /\ pc' = "onExpired" => clock > last[element'.key] + Delay
<1>1. /\ m_list # <<>> /\ pc = "look"
      /\ element' = Last(m_list)
      /\ UNCHANGED <<clock, last, now, left>>
  BY DEF Look, QInv, Sleeper
<1>2. /\ m_list \in Seq(Elements) /\ m_map \in [Keys -> Elements \cup {End}]
      /\ clock \in Nat /\ now \in 0 .. clock /\ last \in [Keys -> 0 .. clock]
      /\ Delay \in Nat /\ MaxTime \in Nat
  BY QueueAssumption DEF QInv, QueueTypes
<1>3. PICK z \in DOMAIN m_list : z = Len(m_list) /\ element' = m_list[z]
  BY <1>1, <1>2, PopBack
<1>4. element' \in Elements
  BY <1>2, <1>3
<1>5. element'.expires = last[element'.key] + Delay
  BY <1>3 DEF QInv, Stamped
<1>6. CASE /\ now > element'.expires
           /\ m_list' = Front(m_list)
           /\ m_map' = [m_map EXCEPT ![element'.key] = End]
           /\ pc' = "onExpired"
  <2>1. /\ m_list' \in Seq(Elements) /\ DOMAIN m_list' = 1 .. Len(m_list) - 1
        /\ \A n \in 1 .. Len(m_list) - 1 : m_list'[n] = m_list[n] /\ n \in DOMAIN m_list
    BY <1>1, <1>2, <1>6, PopBack
  <2>2. QueueTypes'
    BY <1>1, <1>2, <1>6, <2>1 DEF QInv, QueueTypes, Elements
  <2>3. ASSUME NEW n \in DOMAIN m_list'
        PROVE  m_list'[n] = m_list[n] /\ n \in DOMAIN m_list /\ n # z
    BY <1>2, <1>3, <2>1
  <2>4. Held(m_list', m_map')
    <3>1. ASSUME NEW n \in DOMAIN m_list'
          PROVE  m_map'[m_list'[n].key] = m_list'[n]
      <4>1. m_list[n].key # element'.key /\ m_map[m_list[n].key] = m_list[n]
        BY <1>3, <2>3 DEF QInv, Held
      <4>2. m_list[n] \in Elements /\ m_list[n].key \in Keys
        <5>1. m_list[n] \in Elements
          BY <1>2, <2>3
        <5> QED
          BY <5>1 DEF Elements
      <4> QED
        BY <1>2, <1>6, <2>3, <4>1, <4>2
    <3>2. ASSUME NEW p \in Keys, m_map'[p] # End
          PROVE  \E n \in DOMAIN m_list' : m_list'[n] = m_map'[p] /\ m_list'[n].key = p
      <4>1. p # element'.key /\ m_map'[p] = m_map[p]
        BY <1>2, <1>6, <3>2
      <4>2. PICK n \in DOMAIN m_list : m_list[n] = m_map[p] /\ m_list[n].key = p
        BY <3>2, <4>1 DEF QInv, Held
      <4>3. n \in DOMAIN m_list'
        <5>1. n # z
          BY <1>3, <4>1, <4>2
        <5>2. DOMAIN m_list = 1 .. Len(m_list) /\ Len(m_list) \in Nat
          BY <1>2
        <5> QED
          BY <1>3, <2>1, <5>1, <5>2
      <4> QED
        BY <2>3, <4>1, <4>2, <4>3
    <3>3. ASSUME NEW n \in DOMAIN m_list', NEW k \in DOMAIN m_list',
                 m_list'[n].key = m_list'[k].key
          PROVE  n = k
      BY <2>3, <3>3 DEF QInv, Held
    <3> QED
      BY <3>1, <3>2, <3>3 DEF Held
  <2>5. Stamped(m_list', last') /\ Ordered(m_list')
    BY <1>1, <2>3 DEF QInv, Stamped, Ordered
  <2>6. Sleeper'
    BY <1>6 DEF Sleeper
  <2>7. clock > last[element'.key] + Delay
    <3>1. element'.key \in Keys
      BY <1>4 DEF Elements
    <3>2. last[element'.key] \in 0 .. clock
      BY <1>2, <3>1
    <3> QED
      BY <1>2, <1>5, <1>6, <3>2
  <2> QED
    BY <2>2, <2>4, <2>5, <2>6, <2>7 DEF QInv
<1>7. CASE /\ now <= element'.expires
           /\ pc' = "sleep"
           /\ UNCHANGED <<m_list, m_map>>
  <2>1. QueueTypes' /\ Held(m_list', m_map') /\ Stamped(m_list', last') /\ Ordered(m_list')
    BY <1>1, <1>7 DEF QInv, QueueTypes, Elements
  <2>2. Sleeper'
    BY <1>1, <1>4, <1>7 DEF Sleeper, Elements
  <2> QED
    BY <1>7, <2>1, <2>2 DEF QInv
<1> QED
  BY <1>6, <1>7 DEF Look

-----------------------------------------------------------------------------

(* An empty list and an empty map.                                         *)
LEMMA InitQueue == QueueInit => QInv
<1> SUFFICES ASSUME QueueInit PROVE QInv
  OBVIOUS
<1>1. m_list = <<>> /\ m_list \in Seq(Elements) /\ DOMAIN m_list = {}
  BY DEF QueueInit
<1>2. QueueTypes
  BY <1>1, QueueAssumption DEF QueueInit, QueueTypes
<1> QED
  BY <1>1, <1>2 DEF QueueInit, QInv, Held, Stamped, Ordered, Sleeper

(* Only reQueue and a look of the checkpoint thread change the list.       *)
LEMMA NextQueue == QInv /\ [QueueNext]_queueVars => QInv'
<1> SUFFICES ASSUME QInv, [QueueNext]_queueVars PROVE QInv'
  OBVIOUS
<1>1. CASE \E key \in Keys : ReQueue(key)
  BY <1>1, ReQueuePreserves
<1>2. CASE Look
  BY <1>2, LookPreserves
<1>3. CASE \/ Enter \/ ReadClock \/ Sleep \/ WakeUp \/ OnExpired \/ SpuriousWake \/ Tick
           \/ UNCHANGED queueVars
  <2>1. UNCHANGED <<m_list, m_map, last>>
    BY <1>3 DEF Enter, ReadClock, Sleep, WakeUp, OnExpired, SpuriousWake, Tick, queueVars
  <2>2. Held(m_list', m_map') /\ Stamped(m_list', last') /\ Ordered(m_list')
    BY <2>1 DEF QInv
  <2>3. QueueTypes'
    <3>1. /\ clock \in 0 .. MaxTime /\ last \in [Keys -> 0 .. clock] /\ now \in 0 .. clock
          /\ left \in 0 .. MaxTime /\ MaxTime \in Nat
          /\ pc = "sleep" => element \in Elements /\ now <= element.expires
      BY QueueAssumption DEF QInv, QueueTypes, Sleeper
    <3>2. clock' \in clock .. MaxTime
      BY <1>3, <3>1 DEF Enter, ReadClock, Sleep, WakeUp, OnExpired, SpuriousWake, Tick,
             queueVars
    <3>3. now' \in 0 .. clock'
      BY <1>3, <3>1, <3>2 DEF Enter, ReadClock, Sleep, WakeUp, OnExpired, SpuriousWake,
             Tick, queueVars
    <3>4. left' \in 0 .. MaxTime
      BY <1>3, <3>1 DEF Enter, ReadClock, Sleep, WakeUp, OnExpired, SpuriousWake, Tick,
             queueVars, Elements
    <3>5. last' \in [Keys -> 0 .. clock']
      BY <2>1, <3>1, <3>2
    <3>6. pc' \in {"enter", "wait", "readClock", "look", "sleep", "asleep", "onExpired"}
      BY <1>3 DEF QInv, QueueTypes, Enter, ReadClock, Sleep, WakeUp, OnExpired,
             SpuriousWake, Tick, queueVars
    <3> QED
      BY <2>1, <3>1, <3>2, <3>3, <3>4, <3>5, <3>6 DEF QInv, QueueTypes, Elements
  <2>4. Sleeper'
    BY <1>3, <2>1 DEF QInv, Sleeper, Elements, Enter, ReadClock, Sleep, WakeUp, OnExpired,
                      SpuriousWake, Tick, queueVars
  <2> QED
    BY <2>2, <2>3, <2>4 DEF QInv
<1> QED
  BY <1>1, <1>2, <1>3 DEF QueueNext, CheckpointThread

(* What the run checks follows.                                            *)
LEMMA QueueMeans == QInv => MapMatchesList /\ OldestLast
<1> SUFFICES ASSUME QInv PROVE MapMatchesList /\ OldestLast
  OBVIOUS
<1>1. /\ m_list \in Seq(Elements) /\ m_map \in [Keys -> Elements \cup {End}]
      /\ clock \in 0 .. MaxTime /\ last \in [Keys -> 0 .. clock] /\ MaxTime \in Nat
  BY QueueAssumption DEF QInv, QueueTypes
<1>2. End \notin Elements
  BY QueueAssumption DEF Elements
<1>3. QueueTypeOK
  <2>1. \A n \in DOMAIN m_list : m_list[n].key \in Keys
    <3>1. \A n \in DOMAIN m_list : m_list[n] \in Elements
      BY <1>1
    <3> QED
      BY <3>1 DEF Elements
  <2>2. last \in [Keys -> 0 .. MaxTime]
    BY <1>1
  <2>3. ASSUME NEW e \in Elements
        PROVE  e \in {Element(key, at) : key \in Keys, at \in 0 .. MaxTime}
    <3>1. e.key \in Keys /\ e.expires \in 0 .. MaxTime /\ e = Element(e.key, e.expires)
      BY DEF Elements, Element
    <3> QED
      BY <3>1
  <2> QED
    BY <1>1, <2>1, <2>2, <2>3 DEF QInv, QueueTypes, QueueTypeOK
<1>4. ASSUME NEW key \in Keys
      PROVE  m_map[key] = IF \E n \in DOMAIN m_list : m_list[n].key = key
                          THEN CHOOSE e \in Range(m_list) : e.key = key
                          ELSE End
  <2>1. CASE \E n \in DOMAIN m_list : m_list[n].key = key
    <3>1. PICK n \in DOMAIN m_list : m_list[n].key = key
      BY <2>1
    <3>2. m_list[n] \in Range(m_list) /\ m_list[n].key = key
      BY <3>1 DEF Range
    <3>3. ASSUME NEW e \in Range(m_list), e.key = key PROVE e = m_list[n]
      BY <3>1, <3>3 DEF Range, QInv, Held
    <3>4. m_map[key] = m_list[n]
      BY <3>1 DEF QInv, Held
    <3> QED
      BY <2>1, <3>2, <3>3, <3>4
  <2>2. CASE ~ \E n \in DOMAIN m_list : m_list[n].key = key
    BY <2>2 DEF QInv, Held
  <2> QED
    BY <2>1, <2>2
<1> QED
  BY <1>3, <1>4 DEF MapMatchesList, OldestLast, QInv, Held, Ordered, Sleeper

(* reQueue and waitUntilExpired keep list, map and times together          *)
(* (timed_queue.hpp:42-91).                                                *)
THEOREM QueueInvariance == QueueSpec => []QInv
BY InitQueue, NextQueue, PTL DEF QueueSpec

(* The map has an iterator for each element of the list and no other, for  *)
(* any paths: reQueue never erases what waitUntilExpired has popped        *)
(* (timed_queue.hpp:46-51 and 80-82).                                      *)
THEOREM MapAlwaysMatches == QueueSpec => []MapMatchesList
BY QueueInvariance, QueueMeans, PTL

(* back() is there whenever the checkpoint thread looks, and the first to  *)
(* expire (timed_queue.hpp:78-80).                                         *)
THEOREM OldestAlwaysLast == QueueSpec => []OldestLast
BY QueueInvariance, QueueMeans, PTL

(* A database is checkpointed only after the delay since the last commit   *)
(* that put it in, though the clock is read before the lock is taken       *)
(* (timed_queue.hpp:75-83).                                                *)
THEOREM OnlyWhenLeftAlone == QueueSpec => LeftAlone
<1>1. QInv /\ [QueueNext]_queueVars => [pc = "look" /\ pc' = "onExpired"
                    => clock > last[element'.key] + Delay]_queueVars
  <2> SUFFICES ASSUME QInv, QueueNext, pc = "look", pc' = "onExpired"
               PROVE  clock > last[element'.key] + Delay
    OBVIOUS
  <2>1. Look
    BY DEF QueueNext, CheckpointThread, ReQueue, Signal, Enter, ReadClock, Look, Sleep,
           WakeUp, OnExpired, SpuriousWake, Tick
  <2> QED
    BY <2>1, LookPreserves
<1> QED
  BY <1>1, QueueInvariance, PTL DEF QueueSpec, LeftAlone

=============================================================================
