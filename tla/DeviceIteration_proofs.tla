------------------------ MODULE DeviceIteration_proofs ------------------------
(***************************************************************************)
(* The assembly brings the same numbers together in every build, on every  *)
(* grid and for every number of threads: theorems about Assembly; and with *)
(* those of DeviceSum what a Newton iteration computes in parallel is      *)
(* complete.                                                               *)
(***************************************************************************)
EXTENDS DeviceIteration, FunctionTheorems, WellFoundedInduction, TLAPS

(***************************************************************************)
(* The loops of a thread.                                                  *)
(***************************************************************************)

(* A set of natural numbers has a least one.                               *)
LEMMA Least ==
  ASSUME NEW S, S \subseteq Nat, S # {}
  PROVE  \E a \in S : \A c \in S : a <= c
<1>1. PICK a \in S : \A c \in S : ~(<<c, a>> \in OpToRel(<, Nat))
  BY NatLessThanWellFounded, WFMin
<1>2. \A c \in S : ~(c < a)
  BY <1>1 DEF OpToRel
<1>. QED
  BY <1>2

LEMMA ElementType ==
  \A el \in Element : /\ el = <<el[1], el[2], el[3]>>
                      /\ el[1] \in Nat /\ el[2] \in Nat /\ el[3] \in Nat
BY GridAssumption DEF GridAssumption, Element

(* The three nested loops have a next element as long as one is left.      *)
LEMMA FirstIsNext ==
  ASSUME NEW S, S \subseteq Element, S # {}
  PROVE  First(S) \in S
<1>. DEFINE A == {el[1] : el \in S}
<1>1. PICK a \in A : \A c \in A : a <= c
  <2>1. A \subseteq Nat /\ A # {}
    BY ElementType
  <2>. HIDE DEF A
  <2>. QED
    BY <2>1, Least
<1>. DEFINE B == {el[2] : el \in {f \in S : f[1] = a}}
<1>2. PICK b \in B : \A c \in B : b <= c
  <2>1. B \subseteq Nat /\ B # {}
    BY <1>1, ElementType
  <2>. HIDE DEF B
  <2>. QED
    BY <2>1, Least
<1>. DEFINE C == {el[3] : el \in {f \in S : f[1] = a /\ f[2] = b}}
<1>3. PICK c \in C : \A d \in C : c <= d
  <2>1. C \subseteq Nat /\ C # {}
    BY <1>1, <1>2, ElementType
  <2>. HIDE DEF C
  <2>. QED
    BY <2>1, Least
<1>4. PICK f \in S : f[1] = a /\ f[2] = b /\ f[3] = c
  OBVIOUS
<1>5. ASSUME NEW g \in S \ {f} PROVE Before(f, g)
  <2>1. /\ f = <<f[1], f[2], f[3]>> /\ g = <<g[1], g[2], g[3]>>
        /\ f[1] \in Nat /\ f[2] \in Nat /\ f[3] \in Nat
        /\ g[1] \in Nat /\ g[2] \in Nat /\ g[3] \in Nat
    BY ElementType
  <2>2. f[1] <= g[1]
    BY <1>1, <1>4
  <2>3. g[1] = f[1] => f[2] <= g[2]
    BY <1>2, <1>4
  <2>4. g[1] = f[1] /\ g[2] = f[2] => f[3] <= g[3]
    BY <1>3, <1>4
  <2>5. f[1] # g[1] \/ f[2] # g[2] \/ f[3] # g[3]
    BY <2>1
  <2>. QED
    BY <2>1, <2>2, <2>3, <2>4, <2>5 DEF Before
<1>. QED
  BY <1>4, <1>5 DEF First

(***************************************************************************)
(* Each element belongs to one thread.                                     *)
(***************************************************************************)

LEMMA StridesCover ==
  ASSUME NEW n \in Nat \ {0}, NEW a \in Nat
  PROVE  \E d \in 0 .. n - 1 : (a - d) % n = 0
<1>. DEFINE d == a % n
            q == a \div n
<1>1. d \in 0 .. n - 1 /\ q \in Int /\ a = n * q + d
  OBVIOUS
<1>2. a - d = n * q
  BY <1>1
<1>3. (n * q) % n = 0
  BY <1>1
<1>. QED
  BY <1>1, <1>2, <1>3

LEMMA StridesApart ==
  ASSUME NEW n \in Nat \ {0}, NEW a \in Nat, NEW c \in 0 .. n - 1, NEW d \in 0 .. n - 1,
         (a - c) % n = 0, (a - d) % n = 0
  PROVE  c = d
<1>. DEFINE i == (a - c) \div n
            j == (a - d) \div n
<1>1. i \in Int /\ j \in Int /\ a - c = n * i /\ a - d = n * j
  OBVIOUS
<1>. HIDE DEF i, j
<1>2. d - c = n * (i - j)
  BY <1>1
<1>3. ASSUME NEW m \in Int, -n < n * m, n * m < n PROVE m = 0
  BY <1>3
<1>4. i - j = 0
  BY <1>1, <1>2, <1>3
<1>. QED
  BY <1>2, <1>4

ParametersOK == build \in {"cpu", "openacc", "cuda"} /\ what \in {"mat", "rhs"}

LEMMA ElementsShared ==
  ASSUME ParametersOK, NEW el \in Element
  PROVE  /\ \E t \in Thread : el \in Mine(t)
         /\ \A t, w \in Thread : el \in Mine(t) /\ el \in Mine(w) => t = w
<1>1. CASE build = "cuda"
  <2>1. /\ el[1] \in Nat /\ el[2] \in Nat /\ el[3] \in Nat
        /\ tx \in Nat \ {0} /\ ty \in Nat \ {0} /\ tz \in Nat \ {0}
    BY ElementType, AssemblyAssumption DEF AssemblyAssumption
  <2>2. Thread = (0 .. tx - 1) \X (0 .. ty - 1) \X (0 .. tz - 1)
    BY <1>1 DEF Thread
  <2>3. \A t : el \in Mine(t) <=> /\ (el[1] - t[1]) % tx = 0
                                  /\ (el[2] - t[2]) % ty = 0
                                  /\ (el[3] - t[3]) % tz = 0
    BY <1>1 DEF Mine
  <2>4. PICK a \in 0 .. tx - 1 : (el[1] - a) % tx = 0
    BY <2>1, StridesCover
  <2>5. PICK b \in 0 .. ty - 1 : (el[2] - b) % ty = 0
    BY <2>1, StridesCover
  <2>6. PICK c \in 0 .. tz - 1 : (el[3] - c) % tz = 0
    BY <2>1, StridesCover
  <2>7. <<a, b, c>> \in Thread /\ el \in Mine(<<a, b, c>>)
    BY <2>2, <2>3, <2>4, <2>5, <2>6
  <2>8. ASSUME NEW t \in Thread, NEW w \in Thread, el \in Mine(t), el \in Mine(w)
        PROVE  t = w
    <3>1. /\ t = <<t[1], t[2], t[3]>> /\ w = <<w[1], w[2], w[3]>>
          /\ t[1] \in 0 .. tx - 1 /\ t[2] \in 0 .. ty - 1 /\ t[3] \in 0 .. tz - 1
          /\ w[1] \in 0 .. tx - 1 /\ w[2] \in 0 .. ty - 1 /\ w[3] \in 0 .. tz - 1
      BY <2>2, <2>8
    <3>2. t[1] = w[1]
      BY <2>1, <2>3, <2>8, <3>1, StridesApart
    <3>3. t[2] = w[2]
      BY <2>1, <2>3, <2>8, <3>1, StridesApart
    <3>4. t[3] = w[3]
      BY <2>1, <2>3, <2>8, <3>1, StridesApart
    <3>. QED
      BY <3>1, <3>2, <3>3, <3>4
  <2>. QED
    BY <2>7, <2>8
<1>2. CASE build = "openacc" /\ what = "mat"
  <2>. DEFINE size == (nx - 1) * (ny - 1) * (nz - 1)
  <2>1. Thread = (0 .. size - 1) \X {0} \X {0}
    BY <1>2 DEF Thread
  <2>2. \A t : el \in Mine(t) <=> Flat(el) = t[1]
    BY <1>2 DEF Mine
  <2>3. Flat(el) \in 0 .. size - 1
    <3>. DEFINE X == nx - 1
                Y == ny - 1
                Z == nz - 1
    <3>1. /\ el[1] \in 0 .. X - 1 /\ el[2] \in 0 .. Y - 1 /\ el[3] \in 0 .. Z - 1
          /\ X \in Nat /\ Y \in Nat /\ Z \in Nat
      BY GridAssumption DEF GridAssumption, Element
    <3>2. Flat(el) = el[1] * Y * Z + el[2] * Z + el[3]
      BY DEF Flat
    <3>. HIDE DEF X, Y, Z
    <3>3. ASSUME NEW i \in 0 .. X - 1, NEW j \in 0 .. Y - 1, NEW m \in 0 .. Z - 1
          PROVE  i * Y * Z + j * Z + m \in 0 .. X * Y * Z - 1
      <4>1. j * Z + m \in 0 .. Y * Z - 1
        <5>1. j * Z >= 0 /\ (Y - 1 - j) * Z >= 0
          BY <3>1
        <5>2. (Y - 1 - j) * Z = Y * Z - Z - j * Z
          BY <3>1
        <5>3. j * Z \in Int /\ Y * Z \in Int
          BY <3>1
        <5>. QED
          BY <3>1, <5>1, <5>2, <5>3
      <4>2. Y * Z \in Nat /\ i * (Y * Z) >= 0 /\ (X - 1 - i) * (Y * Z) >= 0
        BY <3>1
      <4>3. (X - 1 - i) * (Y * Z) = X * Y * Z - Y * Z - i * Y * Z
        BY <3>1
      <4>4. i * (Y * Z) = i * Y * Z /\ i * Y * Z \in Int /\ X * Y * Z \in Int
            /\ j * Z \in Int
        BY <3>1
      <4>. QED
        BY <3>1, <4>1, <4>2, <4>3, <4>4
    <3>. QED
      BY <3>1, <3>2, <3>3 DEF X, Y, Z
  <2>4. <<Flat(el), 0, 0>> \in Thread /\ el \in Mine(<<Flat(el), 0, 0>>)
    BY <2>1, <2>2, <2>3
  <2>5. \A t \in Thread : t = <<t[1], 0, 0>>
    BY <2>1
  <2>. QED
    BY <2>2, <2>4, <2>5
<1>3. CASE ~(build = "cuda") /\ ~(build = "openacc" /\ what = "mat")
  BY <1>3 DEF Thread, Mine
<1>. QED
  BY <1>1, <1>2, <1>3

(***************************************************************************)
(* Sums as bags.                                                           *)
(***************************************************************************)

LEMMA Join ==
  ASSUME NEW S, NEW T, S \cap T = {}
  PROVE  SetToBag(S) (+) SetToBag(T) = SetToBag(S \cup T)
BY DEF SetToBag, (+)

(* The numbers there are, and the sums that the numbers S make.            *)
Numbers == Element \X (0 .. Count - 1)

Sums(S) == [n \in GridNode |-> [q \in Slot |->
              SetToBag({c \in S : RowOf(c[1], c[2]) = n /\ SlotOf(c[2]) = q})]]

LEMMA NoSums ==
  [n \in GridNode |-> [q \in Slot |-> EmptyBag]] = Sums({})
<1>1. EmptyBag = SetToBag({})
  BY DEF EmptyBag, SetToBag
<1>. QED
  BY <1>1 DEF Sums

(* One number more.                                                        *)
LEMMA OneMore ==
  ASSUME NEW S, NEW el, NEW i, <<el, i>> \notin S
  PROVE  [Sums(S) EXCEPT ![RowOf(el, i)][SlotOf(i)] = @ (+) SetToBag({<<el, i>>})]
           = Sums(S \cup {<<el, i>>})
<1>. DEFINE c0 == <<el, i>>
            r0 == RowOf(el, i)
            q0 == SlotOf(i)
            At(U, n, q) == {c \in U : RowOf(c[1], c[2]) = n /\ SlotOf(c[2]) = q}
            new == [Sums(S) EXCEPT ![r0][q0] = @ (+) SetToBag({c0})]
<1>1. /\ Sums(S) = [n \in GridNode |-> [q \in Slot |-> SetToBag(At(S, n, q))]]
      /\ Sums(S \cup {c0})
           = [n \in GridNode |-> [q \in Slot |-> SetToBag(At(S \cup {c0}, n, q))]]
  BY DEF Sums
<1>2. ASSUME NEW n \in GridNode, NEW q \in Slot
      PROVE  new[n][q] = SetToBag(At(S \cup {c0}, n, q))
  <2>1. CASE n = r0 /\ q = q0
    <3>1. At(S \cup {c0}, n, q) = At(S, n, q) \cup {c0}
      BY <2>1
    <3>2. At(S, n, q) \cap {c0} = {}
      OBVIOUS
    <3>3. new[n][q] = SetToBag(At(S, n, q)) (+) SetToBag({c0})
      BY <1>1, <2>1
    <3>. HIDE DEF At, c0, new
    <3>. QED
      BY <3>1, <3>2, <3>3, Join
  <2>2. CASE ~(n = r0 /\ q = q0)
    <3>1. At(S \cup {c0}, n, q) = At(S, n, q)
      BY <2>2
    <3>2. new[n][q] = SetToBag(At(S, n, q))
      BY <1>1, <2>2
    <3>. QED
      BY <3>1, <3>2
  <2>. QED
    BY <2>1, <2>2
<1>3. new = [n \in GridNode |-> [q \in Slot |-> new[n][q]]]
  <2>1. new = [n \in GridNode |-> IF n = r0 THEN [Sums(S)[n] EXCEPT ![q0] = @ (+) SetToBag({c0})]
                                            ELSE Sums(S)[n]]
    BY <1>1
  <2>2. ASSUME NEW n \in GridNode PROVE new[n] = [q \in Slot |-> new[n][q]]
    <3>1. Sums(S)[n] = [q \in Slot |-> SetToBag(At(S, n, q))]
      BY <1>1
    <3>. HIDE DEF At
    <3>2. CASE n = r0
      <4>1. new[n] = [Sums(S)[n] EXCEPT ![q0] = @ (+) SetToBag({c0})]
        BY <2>1, <3>2
      <4>. HIDE DEF new
      <4>. QED
        BY <4>1, <3>1
    <3>3. CASE n # r0
      <4>1. new[n] = Sums(S)[n]
        BY <2>1, <3>3
      <4>. HIDE DEF new
      <4>. QED
        BY <4>1, <3>1
    <3>. QED
      BY <3>2, <3>3
  <2>3. new = [n \in GridNode |-> new[n]]
    BY <2>1
  <2>. HIDE DEF new
  <2>. QED
    BY <2>2, <2>3
<1>4. new = [n \in GridNode |-> [q \in Slot |-> SetToBag(At(S \cup {c0}, n, q))]]
  <2>. HIDE DEF new, At, c0
  <2>. QED
    BY <1>2, <1>3
<1>5. new = Sums(S \cup {c0})
  <2>. HIDE DEF new, At
  <2>. QED
    BY <1>1, <1>4
<1>. QED
  BY <1>5

(***************************************************************************)
(* What has been added: the numbers of the elements a thread has taken,    *)
(* except those of the element it is at that it has not come to.           *)
(***************************************************************************)

Busy(t) == pc[t] \in {"add", "swap"}

GivenBy(t, at, left, el, i) ==
  {c \in Numbers : /\ c[1] \in Mine(t) /\ c[1] \notin left
                   /\ at \in {"add", "swap"} /\ c[1] = el => c[2] < i}

Given(t) == GivenBy(t, pc[t], todo[t], e[t], k[t])

Entered == UNION {Given(t) : t \in Thread}

ThreadsOK ==
  /\ pc \in [Thread -> {"element", "add", "swap", "done"}]
  /\ todo \in [Thread -> SUBSET Element]
  /\ e \in [Thread -> Element \cup {<<0, 0, 0>>}]
  /\ k \in [Thread -> Nat]
  /\ \A t \in Thread :
       /\ todo[t] \subseteq Mine(t)
       /\ Busy(t) => /\ e[t] \in Mine(t) /\ e[t] \notin todo[t]
                     /\ k[t] \in 0 .. Count - 1
       /\ pc[t] = "done" => todo[t] = {}

AddedUp == vals = Sums(Entered)

AssemblyInv == ParametersOK /\ ThreadsOK /\ AddedUp

LEMMA MineAreElements ==
  \A t : Mine(t) \subseteq Element
BY DEF Mine

LEMMA CountPositive == Count \in Nat \ {0}
BY DEF Count

LEMMA AssemblyInit == Init => AssemblyInv
<1>. SUFFICES ASSUME Init PROVE AssemblyInv
  OBVIOUS
<1>. USE DEF Init
<1>1. ParametersOK
  BY AssemblyAssumption DEF ParametersOK, AssemblyAssumption
<1>2. ThreadsOK
  <2>1. todo \in [Thread -> SUBSET Element]
    BY MineAreElements
  <2>2. \A t \in Thread : pc[t] = "element" /\ todo[t] = Mine(t)
    OBVIOUS
  <2>. QED
    BY <2>1, <2>2 DEF ThreadsOK, Busy
<1>3. Entered = {}
  <2>1. \A t \in Thread : todo[t] = Mine(t)
    OBVIOUS
  <2>. QED
    BY <2>1, Zenon DEF Entered, Given, GivenBy
<1>4. vals = Sums({})
  BY NoSums
<1>. QED
  BY <1>1, <1>2, <1>3, <1>4 DEF AssemblyInv, AddedUp

(* While the parameters stay, these only depend on the threads.            *)
LEMMA EnteredNext ==
  ASSUME UNCHANGED parameters
  PROVE  Entered' = UNION {GivenBy(t, pc'[t], todo'[t], e'[t], k'[t]) : t \in Thread}
<1>1. build' = build /\ what' = what
  BY DEF parameters
<1>2. Thread' = Thread /\ Numbers' = Numbers
  BY <1>1 DEF Thread, Numbers, Count
<1>3. ASSUME NEW t PROVE Mine(t)' = Mine(t)
  BY <1>1 DEF Mine
<1>4. ASSUME NEW t PROVE Given(t)' = GivenBy(t, pc'[t], todo'[t], e'[t], k'[t])
  BY <1>2, <1>3 DEF Given, GivenBy
<1>5. Entered' = UNION {Given(t)' : t \in Thread}
  BY <1>2 DEF Entered
<1>. QED
  BY <1>4, <1>5

LEMMA AddedUpNext ==
  ASSUME UNCHANGED parameters, vals' = Sums(Entered')
  PROVE  AddedUp'
BY DEF parameters, AddedUp, Sums, RowOf, SlotOf

LEMMA ThreadsNext ==
  ASSUME UNCHANGED parameters,
         pc' \in [Thread -> {"element", "add", "swap", "done"}],
         todo' \in [Thread -> SUBSET Element],
         e' \in [Thread -> Element \cup {<<0, 0, 0>>}],
         k' \in [Thread -> Nat],
         \A t \in Thread :
           /\ todo'[t] \subseteq Mine(t)
           /\ pc'[t] \in {"add", "swap"} =>
                /\ e'[t] \in Mine(t) /\ e'[t] \notin todo'[t]
                /\ k'[t] \in 0 .. Count - 1
           /\ pc'[t] = "done" => todo'[t] = {}
  PROVE  ThreadsOK'
<1>1. Thread' = Thread /\ Count' = Count
  BY DEF parameters, Thread, Count
<1>2. ASSUME NEW t \in Thread PROVE Mine(t)' = Mine(t)
  BY DEF parameters, Mine
<1>. QED
  BY <1>1, <1>2 DEF ThreadsOK, Busy

(* A step that adds nothing.                                               *)
LEMMA NothingAdded ==
  ASSUME AddedUp, UNCHANGED <<parameters, vals>>,
         \A t \in Thread : GivenBy(t, pc'[t], todo'[t], e'[t], k'[t]) = Given(t)
  PROVE  AddedUp'
<1>1. UNCHANGED parameters
  OBVIOUS
<1>2. Entered' = Entered
  BY <1>1, EnteredNext DEF Entered
<1>3. vals' = Sums(Entered')
  BY <1>2 DEF AddedUp
<1>. QED
  BY <1>1, <1>3, AddedUpNext

LEMMA TakeElementStep ==
  ASSUME AssemblyInv, NEW t \in Thread, TakeElement(t)
  PROVE  ThreadsOK' /\ AddedUp'
<1>. DEFINE f == First(todo[t])
<1>1. f \in todo[t] /\ f \in Mine(t) /\ f \in Element
  BY FirstIsNext DEF AssemblyInv, ThreadsOK, TakeElement
<1>2. /\ UNCHANGED <<parameters, vals>> /\ pc[t] = "element"
      /\ pc' = [pc EXCEPT ![t] = "add"] /\ todo' = [todo EXCEPT ![t] = @ \ {f}]
      /\ e' = [e EXCEPT ![t] = f] /\ k' = [k EXCEPT ![t] = 0]
  BY DEF TakeElement
<1>. HIDE DEF f
<1>3. ThreadsOK'
  <2>1. /\ pc' \in [Thread -> {"element", "add", "swap", "done"}]
        /\ todo' \in [Thread -> SUBSET Element]
        /\ e' \in [Thread -> Element \cup {<<0, 0, 0>>}]
        /\ k' \in [Thread -> Nat]
    BY <1>1, <1>2 DEF AssemblyInv, ThreadsOK
  <2>2. ASSUME NEW w \in Thread
        PROVE  /\ todo'[w] \subseteq Mine(w)
               /\ pc'[w] \in {"add", "swap"} =>
                    /\ e'[w] \in Mine(w) /\ e'[w] \notin todo'[w]
                    /\ k'[w] \in 0 .. Count - 1
               /\ pc'[w] = "done" => todo'[w] = {}
    BY <1>1, <1>2, CountPositive DEF AssemblyInv, ThreadsOK, Busy
  <2>. QED
    BY <1>2, <2>1, <2>2, ThreadsNext
<1>4. ASSUME NEW w \in Thread
      PROVE  GivenBy(w, pc'[w], todo'[w], e'[w], k'[w]) = Given(w)
  <2>1. CASE w = t
    <3>1. /\ pc'[w] = "add" /\ todo'[w] = todo[w] \ {f} /\ e'[w] = f /\ k'[w] = 0
          /\ pc[w] = "element"
      BY <1>2, <2>1 DEF AssemblyInv, ThreadsOK
    <3>2. \A c \in Numbers : ~(c[2] < 0)
      BY CountPositive DEF Numbers
    <3>3. \A c \in Numbers : c \in GivenBy(w, "add", todo[w] \ {f}, f, 0)
                               <=> c \in GivenBy(w, "element", todo[w], e[w], k[w])
      BY <1>1, <2>1, <3>2 DEF GivenBy
    <3>. QED
      BY <3>1, <3>3 DEF Given, GivenBy
  <2>2. CASE w # t
    BY <1>2, <2>2 DEF AssemblyInv, ThreadsOK, Given
  <2>. QED
    BY <2>1, <2>2
<1>. QED
  BY <1>2, <1>3, <1>4, NothingAdded DEF AssemblyInv

LEMMA NoMoreElementsStep ==
  ASSUME AssemblyInv, NEW t \in Thread, NoMoreElements(t)
  PROVE  ThreadsOK' /\ AddedUp'
<1>1. /\ UNCHANGED <<parameters, vals>> /\ UNCHANGED <<todo, e, k>>
      /\ pc[t] = "element" /\ todo[t] = {} /\ pc' = [pc EXCEPT ![t] = "done"]
  BY DEF NoMoreElements
<1>2. ThreadsOK'
  BY <1>1, ThreadsNext DEF AssemblyInv, ThreadsOK, Busy
<1>3. ASSUME NEW w \in Thread
      PROVE  GivenBy(w, pc'[w], todo'[w], e'[w], k'[w]) = Given(w)
  BY <1>1 DEF AssemblyInv, ThreadsOK, Given, GivenBy
<1>. QED
  BY <1>1, <1>2, <1>3, NothingAdded DEF AssemblyInv

(* A thread that is busy adds its number, and it was not added before.     *)
LEMMA NumberAdded ==
  ASSUME AssemblyInv, NEW t \in Thread, Busy(t), vals' = Added(t), NextNumber(t),
         UNCHANGED <<parameters, todo, e>>
  PROVE  ThreadsOK' /\ AddedUp'
<1>. DEFINE c0 == <<e[t], k[t]>>
            next == IF k[t] + 1 < Count THEN "add" ELSE "element"
<1>1. /\ e[t] \in Mine(t) /\ e[t] \notin todo[t] /\ e[t] \in Element
      /\ k[t] \in 0 .. Count - 1 /\ Count \in Nat \ {0}
  BY CountPositive, MineAreElements DEF AssemblyInv, ThreadsOK
<1>2. c0 \in Numbers
  BY <1>1 DEF Numbers
<1>3. k' = [k EXCEPT ![t] = @ + 1] /\ pc' = [pc EXCEPT ![t] = next]
  BY DEF NextNumber
<1>4. ThreadsOK'
  <2>1. /\ pc' \in [Thread -> {"element", "add", "swap", "done"}]
        /\ k' \in [Thread -> Nat]
    BY <1>1, <1>3 DEF AssemblyInv, ThreadsOK
  <2>2. ASSUME NEW w \in Thread
        PROVE  /\ todo'[w] \subseteq Mine(w)
               /\ pc'[w] \in {"add", "swap"} =>
                    /\ e'[w] \in Mine(w) /\ e'[w] \notin todo'[w]
                    /\ k'[w] \in 0 .. Count - 1
               /\ pc'[w] = "done" => todo'[w] = {}
    BY <1>1, <1>3 DEF AssemblyInv, ThreadsOK, Busy
  <2>3. todo' \in [Thread -> SUBSET Element] /\ e' \in [Thread -> Element \cup {<<0, 0, 0>>}]
    BY DEF AssemblyInv, ThreadsOK
  <2>4. UNCHANGED parameters
    OBVIOUS
  <2>. QED
    BY <2>1, <2>2, <2>3, <2>4, ThreadsNext
<1>5. GivenBy(t, pc'[t], todo'[t], e'[t], k'[t]) = Given(t) \cup {c0}
  <2>1. /\ pc'[t] = next /\ todo'[t] = todo[t] /\ e'[t] = e[t] /\ k'[t] = k[t] + 1
        /\ pc[t] \in {"add", "swap"}
    BY <1>3 DEF AssemblyInv, ThreadsOK, Busy
  <2>2. ASSUME NEW c \in Numbers
        PROVE  c \in GivenBy(t, next, todo[t], e[t], k[t] + 1) <=> c \in Given(t) \/ c = c0
    <3>1. c = <<c[1], c[2]>> /\ c[2] \in 0 .. Count - 1
      BY DEF Numbers
    <3>2. c = c0 <=> c[1] = e[t] /\ c[2] = k[t]
      BY <3>1
    <3>3. c \in Given(t) <=> /\ c[1] \in Mine(t) /\ c[1] \notin todo[t]
                             /\ c[1] = e[t] => c[2] < k[t]
      BY <2>1 DEF Given, GivenBy
    <3>4. c \in GivenBy(t, next, todo[t], e[t], k[t] + 1) <=>
            /\ c[1] \in Mine(t) /\ c[1] \notin todo[t]
            /\ next \in {"add", "swap"} /\ c[1] = e[t] => c[2] < k[t] + 1
      BY DEF GivenBy
    <3>5. next \in {"add", "swap"} <=> k[t] + 1 < Count
      OBVIOUS
    <3>. HIDE DEF next, c0
    <3>. QED
      BY <1>1, <3>1, <3>2, <3>3, <3>4, <3>5
  <2>3. /\ GivenBy(t, next, todo[t], e[t], k[t] + 1) \subseteq Numbers
        /\ Given(t) \subseteq Numbers
    BY DEF Given, GivenBy
  <2>. HIDE DEF c0, next
  <2>. QED
    BY <1>2, <2>1, <2>2, <2>3
<1>6. ASSUME NEW w \in Thread, w # t
      PROVE  GivenBy(w, pc'[w], todo'[w], e'[w], k'[w]) = Given(w)
  BY <1>3, <1>6 DEF AssemblyInv, ThreadsOK, Given
<1>7. Entered' = Entered \cup {c0}
  <2>1. Entered' = UNION {GivenBy(w, pc'[w], todo'[w], e'[w], k'[w]) : w \in Thread}
    BY EnteredNext
  <2>. HIDE DEF c0
  <2>. QED
    BY <1>5, <1>6, <2>1, Zenon DEF Entered
<1>8. c0 \notin Entered
  <2>1. ASSUME NEW w \in Thread, c0 \in Given(w) PROVE FALSE
    <3>1. e[t] \in Mine(w)
      BY <2>1 DEF Given, GivenBy
    <3>2. w = t
      BY <1>1, <3>1, ElementsShared DEF AssemblyInv
    <3>3. k[t] < k[t]
      BY <2>1, <3>2 DEF Given, GivenBy, Busy
    <3>. QED
      BY <1>1, <3>3
  <2>. QED
    BY <2>1 DEF Entered
<1>9. vals' = Sums(Entered')
  <2>1. vals' = [Sums(Entered) EXCEPT ![RowOf(e[t], k[t])][SlotOf(k[t])] = @ (+) SetToBag({c0})]
    BY DEF AssemblyInv, AddedUp, Added, Row, Place, Number
  <2>2. [Sums(Entered) EXCEPT ![RowOf(e[t], k[t])][SlotOf(k[t])] = @ (+) SetToBag({c0})]
          = Sums(Entered \cup {c0})
    BY <1>8, OneMore
  <2>. QED
    BY <1>7, <2>1, <2>2, Zenon
<1>. QED
  BY <1>4, <1>9, AddedUpNext

LEMMA ReadOldStep ==
  ASSUME AssemblyInv, NEW t \in Thread, pc[t] = "add", pc' = [pc EXCEPT ![t] = "swap"],
         UNCHANGED <<parameters, todo, e, k, vals>>
  PROVE  ThreadsOK' /\ AddedUp'
<1>1. ThreadsOK'
  BY ThreadsNext DEF AssemblyInv, ThreadsOK, Busy
<1>2. ASSUME NEW w \in Thread
      PROVE  GivenBy(w, pc'[w], todo'[w], e'[w], k'[w]) = Given(w)
  BY DEF AssemblyInv, ThreadsOK, Given, GivenBy
<1>. QED
  BY <1>1, <1>2, NothingAdded DEF AssemblyInv

LEMMA CopyBackStep ==
  ASSUME AssemblyInv, CopyBack
  PROVE  ThreadsOK' /\ AddedUp'
<1>1. /\ \A t \in Thread : pc[t] = "done"
      /\ e' = [t \in Thread |-> <<0, 0, 0>>]
      /\ UNCHANGED <<parameters, vals>> /\ UNCHANGED <<pc, todo, k>>
  BY DEF CopyBack
<1>2. ThreadsOK'
  BY <1>1, ThreadsNext DEF AssemblyInv, ThreadsOK, Busy
<1>3. ASSUME NEW w \in Thread
      PROVE  GivenBy(w, pc'[w], todo'[w], e'[w], k'[w]) = Given(w)
  BY <1>1 DEF Given, GivenBy
<1>. QED
  BY <1>1, <1>2, <1>3, NothingAdded DEF AssemblyInv

LEMMA AssemblyStep ==
  ASSUME AssemblyInv, [Next]_vars
  PROVE  AssemblyInv'
<1>1. ParametersOK'
  BY DEF AssemblyInv, ParametersOK, Next, vars, parameters, TakeElement, NoMoreElements,
         Add, ReadOld, CompareAndSwap, CopyBack
<1>2. ThreadsOK' /\ AddedUp'
  <2>1. ASSUME NEW t \in Thread, TakeElement(t) PROVE ThreadsOK' /\ AddedUp'
    BY <2>1, TakeElementStep
  <2>2. ASSUME NEW t \in Thread, NoMoreElements(t) PROVE ThreadsOK' /\ AddedUp'
    BY <2>2, NoMoreElementsStep
  <2>3. ASSUME NEW t \in Thread, Add(t) PROVE ThreadsOK' /\ AddedUp'
    <3>1. /\ Busy(t) /\ vals' = Added(t) /\ NextNumber(t)
          /\ UNCHANGED <<parameters, todo, e>>
      BY <2>3 DEF Add, Busy
    <3>. QED
      BY <3>1, NumberAdded
  <2>4. ASSUME NEW t \in Thread, ReadOld(t) PROVE ThreadsOK' /\ AddedUp'
    <3>1. /\ pc[t] = "add" /\ pc' = [pc EXCEPT ![t] = "swap"]
          /\ UNCHANGED <<parameters, todo, e, k, vals>>
      BY <2>4 DEF ReadOld
    <3>. QED
      BY <3>1, ReadOldStep
  <2>5. ASSUME NEW t \in Thread, CompareAndSwap(t) PROVE ThreadsOK' /\ AddedUp'
    <3>1. CASE assumed[t] = vals[Row(t)][Place(t)]
      <4>1. /\ Busy(t) /\ vals' = Added(t) /\ NextNumber(t)
            /\ UNCHANGED <<parameters, todo, e>>
        BY <2>5, <3>1 DEF CompareAndSwap, Busy
      <4>. QED
        BY <4>1, NumberAdded
    <3>2. CASE assumed[t] # vals[Row(t)][Place(t)]
      <4>1. UNCHANGED <<parameters, pc, todo, e, k, vals>>
        BY <2>5, <3>2 DEF CompareAndSwap
      <4>2. ThreadsOK'
        BY <4>1, ThreadsNext DEF AssemblyInv, ThreadsOK, Busy
      <4>3. ASSUME NEW w \in Thread
            PROVE  GivenBy(w, pc'[w], todo'[w], e'[w], k'[w]) = Given(w)
        BY <4>1 DEF Given
      <4>. QED
        BY <4>1, <4>2, <4>3, NothingAdded DEF AssemblyInv
    <3>. QED
      BY <3>1, <3>2
  <2>6. CASE CopyBack
    BY <2>6, CopyBackStep
  <2>7. CASE UNCHANGED vars
    <3>1. UNCHANGED <<parameters, pc, todo, e, k, vals>>
      BY <2>7 DEF vars
    <3>2. ThreadsOK'
      BY <3>1, ThreadsNext DEF AssemblyInv, ThreadsOK, Busy
    <3>3. ASSUME NEW w \in Thread
          PROVE  GivenBy(w, pc'[w], todo'[w], e'[w], k'[w]) = Given(w)
      BY <3>1 DEF Given
    <3>. QED
      BY <3>1, <3>2, <3>3, NothingAdded DEF AssemblyInv
  <2>. QED
    BY <2>1, <2>2, <2>3, <2>4, <2>5, <2>6, <2>7 DEF Next
<1>. QED
  BY <1>1, <1>2 DEF AssemblyInv

(* Every sum is made of exactly the numbers that have been added so far.    *)
THEOREM AssemblyInvariance == Spec => []AssemblyInv
BY AssemblyInit, AssemblyStep, PTL DEF Spec

(***************************************************************************)
(* What the host gets.                                                     *)
(***************************************************************************)

(* When all threads are done, all numbers have been added.                 *)
LEMMA AllEntered ==
  ASSUME AssemblyInv, \A t \in Thread : pc[t] = "done"
  PROVE  vals = Sums(Numbers)
<1>1. ASSUME NEW c \in Numbers PROVE c \in Entered
  <2>1. c[1] \in Element
    BY DEF Numbers
  <2>2. PICK t \in Thread : c[1] \in Mine(t)
    BY <2>1, ElementsShared DEF AssemblyInv
  <2>3. todo[t] = {} /\ pc[t] = "done"
    BY DEF AssemblyInv, ThreadsOK
  <2>4. c \in Given(t)
    BY <2>2, <2>3 DEF Given, GivenBy
  <2>. QED
    BY <2>4 DEF Entered
<1>2. Entered \subseteq Numbers
  BY DEF Entered, Given, GivenBy
<1>3. Entered = Numbers
  BY <1>1, <1>2
<1>. QED
  BY <1>3 DEF AssemblyInv, AddedUp

(* Where node j of an element is, seen from its node i.                    *)
LEMMA ColsRowOffsets ==
  ASSUME NEW el \in Element, NEW i \in 1 .. 8, NEW j \in 1 .. 8
  PROVE  /\ ColsRow[i][j] \in Slot
         /\ Neighbour(Corner(el, i), ColsRow[i][j]) = Corner(el, j)
BY SMTT(60), GridAssumption
   DEF GridAssumption, Element, ColsRow, Slot, Neighbour, Offset, Corner

LEMMA CornersAreNodes ==
  ASSUME NEW el \in Element, NEW i \in 1 .. 8
  PROVE  Corner(el, i) \in GridNode
BY GridAssumption DEF GridAssumption, Element, GridNode, Plane, Corner

(* Different slots are different neighbours.                               *)
LEMMA SlotsApart ==
  ASSUME NEW n \in GridNode, NEW q \in Slot, NEW r \in Slot,
         Neighbour(n, q) = Neighbour(n, r)
  PROVE  q = r
<1>1. n[1] \in Int /\ n[2] \in Int /\ n[3] \in Int
  BY GridAssumption DEF GridAssumption, GridNode, Plane
<1>2. /\ q % 3 = r % 3 /\ (q \div 3) % 3 = (r \div 3) % 3 /\ q \div 9 = r \div 9
  BY <1>1 DEF Neighbour, Offset, Slot
<1>. QED
  BY <1>2 DEF Slot

LEMMA MatrixOfAll ==
  ASSUME what = "mat"
  PROVE  Sums(Numbers) = WholeMatrix
<1>1. Count = 64 /\ Numbers = Element \X (0 .. 63)
  BY DEF Count, Numbers
<1>2. ASSUME NEW n \in GridNode, NEW q \in Slot, NEW c \in Numbers
      PROVE  RowOf(c[1], c[2]) = n /\ SlotOf(c[2]) = q
               <=> /\ Corner(c[1], (c[2] \div 8) + 1) = n
                   /\ Corner(c[1], (c[2] % 8) + 1) = Neighbour(n, q)
  <2>. DEFINE el == c[1]
              i == (c[2] \div 8) + 1
              j == (c[2] % 8) + 1
  <2>1. el \in Element /\ c[2] \in 0 .. 63
    BY <1>1
  <2>2. i \in 1 .. 8 /\ j \in 1 .. 8
    BY <2>1
  <2>3. RowOf(c[1], c[2]) = Corner(el, i) /\ SlotOf(c[2]) = ColsRow[i][j]
    BY DEF RowOf, SlotOf
  <2>. HIDE DEF el, i, j
  <2>4. /\ ColsRow[i][j] \in Slot
        /\ Neighbour(Corner(el, i), ColsRow[i][j]) = Corner(el, j)
    BY <2>1, <2>2, ColsRowOffsets
  <2>5. Corner(el, i) = n => (Corner(el, j) = Neighbour(n, q) => ColsRow[i][j] = q)
    BY <2>4, SlotsApart
  <2>. QED
    BY <2>3, <2>4, <2>5 DEF el, i, j
<1>3. ASSUME NEW n \in GridNode, NEW q \in Slot
      PROVE  {c \in Numbers : RowOf(c[1], c[2]) = n /\ SlotOf(c[2]) = q}
               = {c \in Element \X (0 .. 63) :
                    /\ Corner(c[1], (c[2] \div 8) + 1) = n
                    /\ Corner(c[1], (c[2] % 8) + 1) = Neighbour(n, q)}
  BY <1>1, <1>2
<1>. QED
  BY <1>3 DEF Sums, WholeMatrix

LEMMA ResidualOfAll ==
  ASSUME what = "rhs", NEW n \in GridNode
  PROVE  Sums(Numbers)[n][Shift] = WholeResidual[n]
<1>1. Numbers = Element \X (0 .. 7)
  BY DEF Count, Numbers
<1>2. \A c : RowOf(c[1], c[2]) = Corner(c[1], c[2] + 1) /\ SlotOf(c[2]) = Shift
  BY DEF RowOf, SlotOf
<1>3. Shift \in Slot
  BY DEF Shift, Slot
<1>4. {c \in Numbers : RowOf(c[1], c[2]) = n /\ SlotOf(c[2]) = Shift}
        = {c \in Element \X (0 .. 7) : Corner(c[1], c[2] + 1) = n}
  BY <1>1, <1>2
<1>. QED
  BY <1>3, <1>4 DEF Sums, WholeResidual

LEMMA Returning == [Next]_vars /\ ~copied /\ copied' =>
  /\ \A t \in Thread : pc[t] = "done"
  /\ UNCHANGED <<parameters, vals>>
BY DEF Next, vars, TakeElement, NoMoreElements, Add, ReadOld, CompareAndSwap, CopyBack

(* In every build, for every grid and number of threads, the matrix has    *)
(* the numbers of its elements where they belong.                          *)
THEOREM MatrixIsAssembled == Spec => MatrixAssembled
<1>1. AssemblyInv /\ [Next]_vars => [~copied /\ copied' /\ what = "mat" => vals' = WholeMatrix]_vars
  BY AllEntered, MatrixOfAll, Returning
<1>. QED
  BY <1>1, AssemblyInvariance, PTL DEF Spec, MatrixAssembled

(* And so is the residual.                                                 *)
THEOREM ResidualIsAssembled == Spec => ResidualAssembled
<1>1. AssemblyInv /\ [Next]_vars =>
        [~copied /\ copied' /\ what = "rhs" =>
           \A n \in GridNode : vals'[n][Shift] = WholeResidual[n]]_vars
  BY AllEntered, ResidualOfAll, Returning
<1>. QED
  BY <1>1, AssemblyInvariance, PTL DEF Spec, ResidualAssembled

(* An iteration is an assembly, with the kernels of the solver after it.    *)
LEMMA IterationAssembles == FairIteration => Spec
<1>1. IterationInit => Init
  BY DEF IterationInit
<1>2. [IterationNext]_<<vars, sumVars>> => [Next]_vars
  BY DEF IterationNext, Assemble, Solve
<1>. QED
  BY <1>1, <1>2, PTL DEF FairIteration, Spec

(* So in an iteration the matrix is assembled, whatever the kernels do.     *)
THEOREM IterationMatrix == FairIteration => MatrixAssembled
BY IterationAssembles, MatrixIsAssembled, PTL

(* The residual, likewise.                                                 *)
THEOREM IterationResidual == FairIteration => ResidualAssembled
BY IterationAssembles, ResidualIsAssembled, PTL

(***************************************************************************)
(* The kernels.                                                            *)
(***************************************************************************)

KernelProofs == INSTANCE DeviceSum_proofs WITH pc <- thread

(* KernelProofs is the module of Kernels, with its theorems.               *)
LEMMA IterationSums == FairIteration => KernelProofs!Spec
<1>1. IterationInit => KernelProofs!Init
  BY Zenon DEF IterationInit, Kernels!Init, KernelProofs!Init, Kernels!Starting,
         KernelProofs!Starting, Kernels!Grid, KernelProofs!Grid, Kernels!Block,
         KernelProofs!Block, Kernels!Junk, KernelProofs!Junk, Kernels!SetToBag,
         KernelProofs!SetToBag
<1>2. Kernels!Next => KernelProofs!Next
  BY Zenon DEF Kernels!Next, KernelProofs!Next, Kernels!Step, KernelProofs!Step,
         Kernels!Tree, KernelProofs!Tree, Kernels!Reduce, KernelProofs!Reduce,
         Kernels!Syncthreads, KernelProofs!Syncthreads, Kernels!Host, KernelProofs!Host,
         Kernels!LoadTerm, KernelProofs!LoadTerm, Kernels!NoMoreRows,
         KernelProofs!NoMoreRows, Kernels!AddPair, KernelProofs!AddPair,
         Kernels!SaveRow, KernelProofs!SaveRow, Kernels!SaveBlock,
         KernelProofs!SaveBlock, Kernels!ClearCell, KernelProofs!ClearCell,
         Kernels!Gather, KernelProofs!Gather, Kernels!Gathered, KernelProofs!Gathered,
         Kernels!Total, KernelProofs!Total, Kernels!LaunchDot, KernelProofs!LaunchDot,
         Kernels!LaunchReduce, KernelProofs!LaunchReduce, Kernels!ReadResult,
         KernelProofs!ReadResult, Kernels!KernelEnded, KernelProofs!KernelEnded,
         Kernels!Launch, KernelProofs!Launch, Kernels!Starting, KernelProofs!Starting,
         Kernels!Term, KernelProofs!Term, Kernels!Thread, KernelProofs!Thread,
         Kernels!Blocks, KernelProofs!Blocks, Kernels!Lanes, KernelProofs!Lanes,
         Kernels!Grid, KernelProofs!Grid, Kernels!Block, KernelProofs!Block,
         Kernels!Junk, KernelProofs!Junk, Kernels!SetToBag, KernelProofs!SetToBag,
         Kernels!EmptyBag, KernelProofs!EmptyBag, Kernels!(+), KernelProofs!(+)
<1>3. [IterationNext]_<<vars, sumVars>> => [KernelProofs!Next]_(KernelProofs!vars)
  BY <1>2 DEF IterationNext, Assemble, Solve, sumVars, KernelProofs!vars
<1>. QED
  BY <1>1, <1>3, PTL DEF FairIteration, KernelProofs!Spec

(* What an iteration gives to reduce is complete, in any order of the       *)
(* threads, for every launch the assumption allows.                        *)
THEOREM IterationSumsAreComplete == FairIteration => []PartialSumsComplete
<1>1. KernelProofs!LaunchesFit
  BY IterationAssumption DEF Kernels!LaunchesFit, KernelProofs!LaunchesFit,
                             Kernels!PowersOfTwo, KernelProofs!PowersOfTwo
<1>2. KernelProofs!LaunchesFit => (KernelProofs!Spec => []KernelProofs!PartialSumsComplete)
  BY KernelProofs!SumsAreComplete
<1>3. KernelProofs!PartialSumsComplete => PartialSumsComplete
  BY Zenon DEF PartialSumsComplete, Kernels!PartialSumsComplete,
         KernelProofs!PartialSumsComplete, Kernels!SetToBag, KernelProofs!SetToBag
<1>. QED
  BY <1>1, <1>2, <1>3, IterationSums, PTL

=============================================================================
