----------------------------- MODULE OrderSlice -----------------------------
(***************************************************************************)
(* order-service keeps its orders in one slice, s.orders, which all the    *)
(* handlers of all the requests read and write without a lock.             *)
(*                                                                         *)
(* A step is one access to shared memory, in the order in which the Go     *)
(* compiler emits them: append in place stores the new length before the   *)
(* element; append to a grown array stores the capacity, the array, the    *)
(* length and the element.  The header of the slice is these three words,  *)
(* so that a load may straddle a growth, and two growths may leave words   *)
(* that do not fit together.  An index beyond the array reads whatever the *)
(* memory holds (Wild) and writes where nobody looks.  An order is copied  *)
(* in one step: a torn one mixes the fields of two orders and counts as    *)
(* one of them.  A DELETE works in place: its append has room in any array *)
(* but one whose capacity racing POSTs have left below the length.         *)
(*                                                                         *)
(* The process keeps nothing on disk: a restart begins with no orders.     *)
(***************************************************************************)
EXTENDS Integers, FiniteSets, SequencesExt

CONSTANTS
  Requests,
  Asks,   \* what a request may see AllAsks
  None

AllAsks ==
  [op : {"POST", "LIST"}] \cup [op : {"GET", "PUT", "DELETE"}, id : Nat]

ASSUME OrderSliceAssumption ==
  /\ IsFiniteSet(Requests)
  /\ Asks \subseteq AllAsks
  /\ None \notin Requests

VARIABLES
  arrays,   \* the arrays allocated so far
  orders,   \* s.orders: its array, length and capacity
  pc,
  my,       \* a handler's question, its copy of the header, its index i and
            \* what it has read
  reply,    \* what the last step of a handler replied, or None
  alone,    \* history: requests no writer has overlapped
  raced,    \* history: two writers have overlapped
  ideal,    \* history: the list of a service that serves one at a time
  values    \* history: what the order of a GET has been since the GET began, or
            \* {} when it was in no list or a DELETE is at work

memory    == <<arrays, orders>>
history   == <<alone, raced, ideal, values>>
sliceVars == <<memory, pc, my, reply, history>>

Order    == [id : Nat, data : Requests \cup {None}]
Zero     == [id |-> 0, data |-> None]
Wild     == {[id |-> n, data |-> None] : n \in 0..(Cardinality(Requests) + 1)}
NotFound == [code |-> 404]
BadRequest == [code |-> 400]
Panic    == [code |-> 500]  \* gin's Recovery
Found(x) == [code |-> 200, order |-> x]
Listed(s) == [code |-> 200, list |-> s]
Deleted  == [code |-> 200]

Fresh == [ask |-> None, arr |-> 1, len |-> 0, cap |-> 0, i |-> 0, seen |-> << >>]

Init ==
  /\ arrays = << << >> >>
  /\ orders = [arr |-> 1, len |-> 0, cap |-> 0]
  /\ pc = [r \in Requests |-> "idle"]
  /\ my = [r \in Requests |-> Fresh]
  /\ reply = None
  /\ alone = {}
  /\ raced = FALSE
  /\ ideal = << >>
  /\ values = [r \in Requests |-> {}]

---------------------------------------------------------------------------
(* Memory.                                                                 *)

At(a, i) == IF i <= Len(arrays[a]) THEN {arrays[a][i]} ELSE Wild

Put(a, i, x) ==
  arrays' = IF i <= Len(arrays[a]) THEN [arrays EXCEPT ![a][i] = x] ELSE arrays

\* The array append allocates: double the capacity c, the n elements copied.
Grown(a, n, c) ==
  LET cap == IF n + 1 > 2 * c THEN n + 1 ELSE 2 * c IN
  {s \in [1..cap -> UNION {At(a, i) : i \in 1..n} \cup {Zero}] :
     \A i \in 1..cap : IF i <= n THEN s[i] \in At(a, i) ELSE s[i] = Zero}

Goto(r, l) == pc' = [pc EXCEPT ![r] = l]

\* The handler is done with the slice.
Answer(r, a) ==
  /\ Goto(r, "done")
  /\ reply' = [req |-> r, is |-> a]
  /\ my' = [my EXCEPT ![r] = Fresh]

Hits(s, n)  == {i \in DOMAIN s : s[i].id = n}
First(s, n) == CHOOSE i \in Hits(s, n) : \A j \in Hits(s, n) : i <= j

Silent == reply' = None

---------------------------------------------------------------------------
Active(r)   == pc[r] \notin {"idle", "publish", "answer", "done"}
Writes(a)   == a.op \in {"POST", "PUT", "DELETE"}
Writing     == {r \in Requests : Active(r) /\ Writes(my[r].ask)}

Deleting    == \E r \in Writing : my[r].ask.op = "DELETE"

\* The order with the id n in the list, as a set.
Listing(n) == IF Hits(ideal, n) = {} THEN {} ELSE {ideal[First(ideal, n)]}

History(r, a) ==
  /\ alone' = (IF Writes(a) THEN {s \in alone : ~Active(s)} ELSE alone)
                \cup (IF Writing = {} THEN {r} ELSE {})
  /\ raced' = (raced \/ (Writes(a) /\ Writing # {}))
  /\ values' = IF a.op = "DELETE" THEN [s \in Requests |-> {}]
               ELSE IF a.op = "GET" /\ ~Deleting THEN [values EXCEPT ![r] = Listing(a.id)]
               ELSE values

\* POST begins with the number of the new order, the others with a copy of the
\* header, which range and the JSON encoder make once.
Begin(r) ==
  /\ pc[r] = "idle"
  /\ \E a \in Asks :
       /\ History(r, a)
       /\ IF a.op = "POST"
            THEN Goto(r, "array") /\ my' = [my EXCEPT ![r].ask = a, ![r].i = orders.len + 1]
            ELSE /\ Goto(r, "range")
                 /\ my' = [my EXCEPT ![r].ask = a, ![r].arr = orders.arr, ![r].i = 1]
  /\ UNCHANGED <<memory, ideal>> /\ Silent

\* A body that is no JSON order.
Refuse(r) ==
  /\ pc[r] = "idle"
  /\ \E a \in Asks : a.op \in {"POST", "PUT"}
  /\ Answer(r, BadRequest)
  /\ UNCHANGED <<memory, history>>

\* The array of s.orders and its capacity, loaded again for an append or an
\* assignment.
LoadArray(r, from, to) ==
  /\ pc[r] = from
  /\ Goto(r, to)
  /\ my' = [my EXCEPT ![r].arr = orders.arr, ![r].cap = orders.cap]
  /\ UNCHANGED <<memory, history>> /\ Silent

---------------------------------------------------------------------------
(* Create: order.ID = len(s.orders) + 1; s.orders = append(s.orders, order) *)

\* The length is loaded, and stored at once when the capacity has room.
Extend(r) ==
  LET n == orders.len IN
  /\ pc[r] = "append"
  /\ IF n + 1 <= my[r].cap
       THEN /\ Goto(r, "store")
            /\ orders' = [orders EXCEPT !.len = n + 1]
            /\ my' = [my EXCEPT ![r].len = n + 1]
            /\ UNCHANGED arrays
       ELSE /\ Goto(r, "grow")
            /\ \E s \in Grown(my[r].arr, n, my[r].cap) :
                 /\ arrays' = Append(arrays, s)
                 /\ my' = [my EXCEPT ![r].arr = Len(arrays) + 1, ![r].len = n + 1,
                                    ![r].cap = Len(s)]
            /\ UNCHANGED orders
  /\ UNCHANGED history /\ Silent

StoreCapacity(r) ==
  /\ pc[r] = "grow"
  /\ Goto(r, "pointer")
  /\ orders' = [orders EXCEPT !.cap = my[r].cap]
  /\ UNCHANGED <<arrays, my, history>> /\ Silent

StoreArray(r) ==
  /\ pc[r] = "pointer"
  /\ Goto(r, "length")
  /\ orders' = [orders EXCEPT !.arr = my[r].arr]
  /\ UNCHANGED <<arrays, my, history>> /\ Silent

StoreLength(r) ==
  /\ pc[r] = "length"
  /\ Goto(r, "store")
  /\ orders' = [orders EXCEPT !.len = my[r].len]
  /\ UNCHANGED <<arrays, my, history>> /\ Silent

StoreOrder(r) ==
  LET x == [id |-> my[r].i, data |-> r] IN
  /\ pc[r] = "store"
  /\ Goto(r, "publish")
  /\ Put(my[r].arr, my[r].len, x)
  /\ ideal' = Append(ideal, x)
  /\ my' = [my EXCEPT ![r] = [Fresh EXCEPT !.i = my[r].i]]
  /\ UNCHANGED <<orders, alone, raced, values>> /\ Silent

Create(r) ==
  \/ LoadArray(r, "array", "append") \/ Extend(r)
  \/ StoreCapacity(r) \/ StoreArray(r) \/ StoreLength(r) \/ StoreOrder(r)

---------------------------------------------------------------------------
(* The loops of GetAll's reply, GetByID, Update and Delete.                *)

\* Bug: the loop leaves out the last order.
LoadLengthShort(r) ==
  /\ pc[r] = "range"
  /\ Goto(r, "scan")
  /\ my' = [my EXCEPT ![r].len = orders.len - 1]
  /\ UNCHANGED <<memory, history>> /\ Silent

LoadLength(r) ==
  /\ pc[r] = "range"
  /\ Goto(r, "scan")
  /\ my' = [my EXCEPT ![r].len = orders.len]
  /\ UNCHANGED <<memory, history>> /\ Silent

\* The end of the slice.
ScanEnd(r) ==
  /\ pc[r] = "scan" /\ my[r].i > my[r].len
  /\ Answer(r, IF my[r].ask.op = "LIST" THEN Listed(my[r].seen) ELSE NotFound)
  /\ UNCHANGED <<memory, history>>

Scan(r) ==
  /\ pc[r] = "scan" /\ my[r].i <= my[r].len
  /\ \E x \in At(my[r].arr, my[r].i) :
       IF my[r].ask.op = "LIST"
         THEN /\ my' = [my EXCEPT ![r].i = @ + 1, ![r].seen = Append(@, x)]
              /\ UNCHANGED pc /\ Silent
       ELSE IF x.id # my[r].ask.id
         THEN my' = [my EXCEPT ![r].i = @ + 1] /\ UNCHANGED pc /\ Silent
       ELSE IF my[r].ask.op = "GET" THEN Answer(r, Found(x))
       ELSE Goto(r, "found") /\ UNCHANGED my /\ Silent
  /\ UNCHANGED <<memory, history>>

\* x replaces the first order with its id.
Replaced(x) ==
  /\ ideal' = [i \in DOMAIN ideal |->
                IF i \in Hits(ideal, x.id) /\ i = First(ideal, x.id) THEN x ELSE ideal[i]]
  /\ values' = [s \in Requests |->
                 IF values[s] # {} /\ Active(s) /\ my[s].ask.id = x.id THEN values[s] \cup {x} ELSE values[s]]

\* Bug: the order is stored as the body has it, and its id set afterwards.
UpdateIdLater(r) ==
  LET x == [id |-> my[r].ask.id, data |-> r] IN
  /\ pc[r] = "change" /\ my[r].ask.op = "PUT"
  /\ IF my[r].seen = << >>
       THEN /\ Put(my[r].arr, my[r].i, [x EXCEPT !.id = 0])
            /\ my' = [my EXCEPT ![r].seen = <<x>>]
            /\ UNCHANGED <<pc, ideal, values>> /\ Silent
       ELSE Answer(r, Found(x)) /\ Put(my[r].arr, my[r].i, x) /\ Replaced(x)
  /\ UNCHANGED <<orders, alone, raced>>

\* s.orders[i] = order, with the index checked against the current length.
Update(r) ==
  LET x == [id |-> my[r].ask.id, data |-> r] IN
  /\ pc[r] = "change" /\ my[r].ask.op = "PUT"
  /\ IF my[r].i > orders.len
       THEN Answer(r, Panic) /\ UNCHANGED <<arrays, ideal, values>>
       ELSE Answer(r, Found(x)) /\ Put(my[r].arr, my[r].i, x) /\ Replaced(x)
  /\ UNCHANGED <<orders, alone, raced>>

\* s.orders[i+1:] panics when the slice has become too short.
Delete(r) ==
  /\ pc[r] = "change" /\ my[r].ask.op = "DELETE"
  /\ IF my[r].i > orders.len THEN Answer(r, Panic)
       ELSE Goto(r, "move") /\ my' = [my EXCEPT ![r].len = orders.len] /\ Silent
  /\ UNCHANGED <<memory, history>>

\* The elements behind i move up one by one, in the array the readers have.
Move(r) ==
  /\ pc[r] = "move" /\ my[r].i < my[r].len
  /\ \E x \in At(my[r].arr, my[r].i + 1) : Put(my[r].arr, my[r].i, x)
  /\ my' = [my EXCEPT ![r].i = @ + 1]
  /\ UNCHANGED <<orders, pc, history>> /\ Silent

\* Bug: append(s.orders[:i], s.orders[i:]...).
CutLengthKept(r) ==
  /\ pc[r] = "move"
  /\ Goto(r, "cut")
  /\ orders' = [orders EXCEPT !.len = my[r].len]
  /\ UNCHANGED <<arrays, my, history>> /\ Silent

CutLength(r) ==
  /\ pc[r] = "move" /\ my[r].i >= my[r].len
  /\ Goto(r, "cut")
  /\ orders' = [orders EXCEPT !.len = my[r].len - 1]
  /\ UNCHANGED <<arrays, my, history>> /\ Silent

CutArray(r) ==
  LET n == my[r].ask.id IN
  /\ pc[r] = "cut"
  /\ orders' = [orders EXCEPT !.arr = my[r].arr, !.cap = my[r].cap]
  /\ Answer(r, Deleted)
  /\ ideal' = IF Hits(ideal, n) = {} THEN ideal ELSE RemoveAt(ideal, First(ideal, n))
  /\ UNCHANGED <<arrays, alone, raced, values>>

Change(r) ==
  \/ LoadLength(r) \/ Scan(r) \/ ScanEnd(r)
  \/ LoadArray(r, "found", "change")
  \/ Update(r) \/ Delete(r) \/ Move(r) \/ CutLength(r) \/ CutArray(r)

=============================================================================
