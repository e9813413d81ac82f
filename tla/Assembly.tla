------------------------------ MODULE Assembly ------------------------------
(***************************************************************************)
(* How the element matrices and vectors of a cell are added up, in the     *)
(* three builds there are: the loop of src/assembly.cpp over all elements, *)
(* the OpenACC loop of src/openacc/assembly.cpp that gives each element to *)
(* a thread of its own, and the CUDA kernels of src/cuda/assembly.cu, in   *)
(* which a thread takes every so many-th element in each direction and     *)
(* adds with a compare-and-swap loop.  Neighbouring elements add into the  *)
(* same places; whose numbers come together has to be the same in all.     *)
(*                                                                         *)
(* Data.  A sum is the bag of the numbers added into it, and <<e, k>> is   *)
(* the k-th number of element e, so that a sum tells whose numbers are in  *)
(* it, and how often.  What the numbers are is left out, and it is not the *)
(* same in all builds: the element routines of CUDA take the material to   *)
(* have no history (vars is a null pointer there), the others vars_old.    *)
(***************************************************************************)
EXTENDS Grid, Bags

CONSTANTS
  Builds,      \* the builds considered: "cpu", "openacc", "cuda"
  tx, ty, tz   \* CUDA threads in each direction, gridDim * blockDim

ASSUME AssemblyAssumption ==
  /\ Builds \subseteq {"cpu", "openacc", "cuda"}
  /\ tx \in Nat \ {0} /\ ty \in Nat \ {0} /\ tz \in Nat \ {0}

VARIABLES
  build,
  what,      \* "mat" or "rhs": assembly_mat or assembly_rhs
  pc,        \* of each thread: "element", "add", "swap" or "done"
  todo,      \* elements the thread's loops have not come to
  e,         \* the element it adds
  k,         \* how many of the element's numbers it has added
  assumed,   \* the old value its compare-and-swap relies on
  vals,      \* A->vals (rhs: b) on the device, a row of slots for each node
  copied     \* the host has the result

parameters == <<build, what>>
vars == <<parameters, pc, todo, e, k, assumed, vals, copied>>

(***************************************************************************)
(* Who adds which element.                                                 *)
(***************************************************************************)

(* The place of an element in the arrays of the OpenACC build.             *)
Flat(el) == el[1] * (ny - 1) * (nz - 1) + el[2] * (nz - 1) + el[3]

(* Only the matrix is added in parallel by the OpenACC build.              *)
Thread ==
  CASE build = "cuda" -> (0 .. tx - 1) \X (0 .. ty - 1) \X (0 .. tz - 1)
    [] build = "openacc" /\ what = "mat" ->
         (0 .. (nx - 1) * (ny - 1) * (nz - 1) - 1) \X {0} \X {0}
    [] OTHER -> {<<0, 0, 0>>}

(* Mutant: the stride in x is forgotten.                                   *)
MineTwice(t) ==
  CASE build = "cuda" ->
         {el \in Element : /\ el[1] >= t[1]
                           /\ (el[2] - t[2]) % ty = 0
                           /\ (el[3] - t[3]) % tz = 0}
    [] build = "openacc" /\ what = "mat" -> {el \in Element : Flat(el) = t[1]}
    [] OTHER -> Element

Mine(t) ==
  CASE build = "cuda" ->
         {el \in Element : /\ (el[1] - t[1]) % tx = 0
                           /\ (el[2] - t[2]) % ty = 0
                           /\ (el[3] - t[3]) % tz = 0}
    [] build = "openacc" /\ what = "mat" -> {el \in Element : Flat(el) = t[1]}
    [] OTHER -> Element

(* The three nested loops, x outermost as in the parallel builds.          *)
Before(f, g) == \/ f[1] < g[1]
                \/ f[1] = g[1] /\ f[2] < g[2]
                \/ f[1] = g[1] /\ f[2] = g[2] /\ f[3] < g[3]

First(S) == CHOOSE f \in S : \A g \in S \ {f} : Before(f, g)

Init ==
  /\ build \in Builds
  /\ what \in {"mat", "rhs"}
  /\ pc = [t \in Thread |-> "element"]
  /\ todo = [t \in Thread |-> Mine(t)]
  /\ e = [t \in Thread |-> <<0, 0, 0>>]
  /\ k = [t \in Thread |-> 0]
  /\ assumed = [t \in Thread |-> EmptyBag]
  /\ vals = [n \in GridNode |-> [s \in Slot |-> EmptyBag]]
  /\ copied = FALSE

TakeElement(t) ==
  /\ pc[t] = "element"
  /\ todo[t] # {}
  /\ e' = [e EXCEPT ![t] = First(todo[t])]
  /\ todo' = [todo EXCEPT ![t] = @ \ {First(@)}]
  /\ k' = [k EXCEPT ![t] = 0]
  /\ pc' = [pc EXCEPT ![t] = "add"]
  /\ UNCHANGED <<parameters, assumed, vals, copied>>

NoMoreElements(t) ==
  /\ pc[t] = "element"
  /\ todo[t] = {}
  /\ pc' = [pc EXCEPT ![t] = "done"]
  /\ UNCHANGED <<parameters, todo, e, k, assumed, vals, copied>>

(***************************************************************************)
(* Adding an element's numbers, one after another.                         *)
(***************************************************************************)

Count == IF what = "mat" THEN 64 ELSE 8

(* The row and the slot number i of an element goes to: entry (i \div 8,    *)
(* i % 8) of the element matrix, or component i of the element vector,     *)
(* which has no slots.                                                     *)
RowOf(el, i) == Corner(el, IF what = "mat" THEN (i \div 8) + 1 ELSE i + 1)
SlotOf(i) == IF what = "mat" THEN ColsRow[(i \div 8) + 1][(i % 8) + 1] ELSE Shift

Row(t) == RowOf(e[t], k[t])
Place(t) == SlotOf(k[t])

(* A number stands for its place in the element: two builds may have       *)
(* different values for it.                                                *)
Number(t) == SetToBag({<<e[t], k[t]>>})

Added(t) == [vals EXCEPT ![Row(t)][Place(t)] = @ (+) Number(t)]

NextNumber(t) ==
  /\ k' = [k EXCEPT ![t] = @ + 1]
  /\ pc' = [pc EXCEPT ![t] = IF k[t] + 1 < Count THEN "add" ELSE "element"]

(* += of the CPU build, and the atomic update of the OpenACC build.        *)
Add(t) ==
  /\ pc[t] = "add"
  /\ build # "cuda"
  /\ vals' = Added(t)
  /\ NextNumber(t)
  /\ UNCHANGED <<parameters, todo, e, assumed, copied>>

(* atomicAdd_d: the first read of the old value.                           *)
ReadOld(t) ==
  /\ pc[t] = "add"
  /\ build = "cuda"
  /\ assumed' = [assumed EXCEPT ![t] = vals[Row(t)][Place(t)]]
  /\ pc' = [pc EXCEPT ![t] = "swap"]
  /\ UNCHANGED <<parameters, todo, e, k, vals, copied>>

(* Mutant: a swap that fails is not tried again.                           *)
CompareAndSwapOnce(t) ==
  /\ pc[t] = "swap"
  /\ vals' = IF assumed[t] = vals[Row(t)][Place(t)] THEN Added(t) ELSE vals
  /\ NextNumber(t)
  /\ UNCHANGED <<parameters, todo, e, assumed, copied>>

(* Mutant: the value the failed swap returns is not taken over.            *)
CompareAndSwapForever(t) ==
  /\ pc[t] = "swap"
  /\ assumed[t] = vals[Row(t)][Place(t)]
  /\ vals' = Added(t)
  /\ NextNumber(t)
  /\ UNCHANGED <<parameters, todo, e, assumed, copied>>

(* atomicCAS: it adds if the value is still the old one; if not, the loop  *)
(* goes on from the value found.                                           *)
CompareAndSwap(t) ==
  /\ pc[t] = "swap"
  /\ IF assumed[t] = vals[Row(t)][Place(t)]
       THEN /\ vals' = Added(t)
            /\ NextNumber(t)
            /\ UNCHANGED assumed
       ELSE /\ assumed' = [assumed EXCEPT ![t] = vals[Row(t)][Place(t)]]
            /\ UNCHANGED <<k, pc, vals>>
  /\ UNCHANGED <<parameters, todo, e, copied>>

(* The host waits for the threads, whose registers end with them, and has  *)
(* the result (copied back from the device, if there is one).  A kernel is *)
(* taken to find its data: that assembly_rhs gives its own the host's      *)
(* pointer u, and looks at no error, is a matter of the memory spaces.     *)
CopyBack ==
  /\ \A t \in Thread : pc[t] = "done"
  /\ ~copied
  /\ copied' = TRUE
  /\ e' = [t \in Thread |-> <<0, 0, 0>>]
  /\ assumed' = [t \in Thread |-> EmptyBag]
  /\ UNCHANGED <<parameters, pc, todo, k, vals>>

Next == \/ \E t \in Thread : \/ TakeElement(t) \/ NoMoreElements(t)
                             \/ Add(t) \/ ReadOld(t) \/ CompareAndSwap(t)
        \/ CopyBack

Spec == Init /\ [][Next]_vars

(***************************************************************************)
(* Properties.                                                             *)
(***************************************************************************)

(* The sum for row n and the neighbour m is made of the entries (a, b) of  *)
(* the elements that have n for corner a and m for corner b, each of them  *)
(* once; absent neighbours have none.                                      *)
WholeMatrix ==
  [n \in GridNode |-> [s \in Slot |->
     SetToBag({c \in Element \X (0 .. 63) :
                 /\ Corner(c[1], (c[2] \div 8) + 1) = n
                 /\ Corner(c[1], (c[2] % 8) + 1) = Neighbour(n, s)})]]

(* The residual of a node has that of each element around it.              *)
WholeResidual ==
  [n \in GridNode |->
     SetToBag({c \in Element \X (0 .. 7) : Corner(c[1], c[2] + 1) = n})]

(* When assembly_mat returns, in every build, the numbers of all elements  *)
(* are where they belong: no element is left out, taken twice, added into  *)
(* a slot of another neighbour, or lost between a read and a write of two  *)
(* threads.                                                                *)
MatrixAssembled == [][~copied /\ copied' /\ what = "mat" => vals' = WholeMatrix]_vars

(* So with the residual when assembly_rhs returns.                         *)
ResidualAssembled ==
  [][~copied /\ copied' /\ what = "rhs" =>
       \A n \in GridNode : vals'[n][Shift] = WholeResidual[n]]_vars
=============================================================================
