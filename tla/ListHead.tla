------------------------------ MODULE ListHead ------------------------------
(***************************************************************************)
(* The doubly linked lists of src/list.h, at the level of their pointers.  *)
(* A list is a ring of nodes through its head. Each function is an         *)
(* operator from memory to memory that makes the assignments of the code   *)
(* in their order; what an assignment reads after an earlier one may have  *)
(* changed it is read from the changed memory.                             *)
(***************************************************************************)
EXTENDS Integers, Sequences, FiniteSets

CONSTANTS Heads, Entries, NULL

ASSUME ListHeadAssumption == Heads \cap Entries = {} /\ NULL \notin Heads \cup Entries

Nodes == Heads \cup Entries

VARIABLES
  mem,              \* the fields next and prev of every node
  loop,             \* the variables of the loop that is running, if any
  call              \* the last call, with its arguments; empty after a step of a loop

vars == <<mem, loop, call>>

NoLoop == [head |-> NULL, dir |-> "next", pos |-> NULL, n |-> NULL]

-----------------------------------------------------------------------------
(***************************************************************************)
(* The functions.                                                          *)
(***************************************************************************)
INIT_LIST_HEAD(m, list) == [m EXCEPT !.next[list] = list, !.prev[list] = list]

__list_add(m, new, prev, next) ==
  [m EXCEPT !.prev[next] = new, !.next[new] = next, !.prev[new] = prev, !.next[prev] = new]

list_add(m, new, head)      == __list_add(m, new, head, m.next[head])
list_add_tail(m, new, head) == __list_add(m, new, m.prev[head], head)

__list_del(m, prev, next)   == [m EXCEPT !.prev[next] = prev, !.next[prev] = next]
__list_del_entry(m, entry)  == __list_del(m, m.prev[entry], m.next[entry])

list_del(m, entry) ==
  [__list_del_entry(m, entry) EXCEPT !.next[entry] = NULL, !.prev[entry] = NULL]

list_del_init(m, entry) == INIT_LIST_HEAD(__list_del_entry(m, entry), entry)

\* If old is an empty head, old->prev has become new before it is read.
list_replace(m, old, new) ==
  LET m1 == [m EXCEPT !.next[new] = m.next[old], !.prev[m.next[old]] = new]
  IN  [m1 EXCEPT !.prev[new] = m1.prev[old], !.next[m1.prev[old]] = new]

list_replace_init(m, old, new) == INIT_LIST_HEAD(list_replace(m, old, new), old)

list_moveToTail(m, list, head) == list_add_tail(__list_del_entry(m, list), list, head)

list_move(m, list, head)      == list_add(__list_del_entry(m, list), list, head)
list_move_tail(m, list, head) == list_add_tail(__list_del_entry(m, list), list, head)

list_empty(m, head)       == m.next[head] = head
list_is_singular(m, head) == ~list_empty(m, head) /\ m.next[head] = m.prev[head]

list_rotate_left(m, head) ==
  IF list_empty(m, head) THEN m ELSE list_move_tail(m, m.next[head], head)

__list_cut_position(m, list, head, entry) ==
  LET new_first == m.next[entry]
      m1 == [m EXCEPT !.next[list] = m.next[head], !.prev[m.next[head]] = list]
  IN  [m1 EXCEPT !.prev[list] = entry, !.next[entry] = list,
                 !.next[head] = new_first, !.prev[new_first] = head]

list_cut_position(m, list, head, entry) ==
  CASE \/ list_empty(m, head)
       \/ list_is_singular(m, head) /\ m.next[head] # entry /\ head # entry -> m
    [] ~list_empty(m, head) /\ entry = head -> INIT_LIST_HEAD(m, list)
    [] OTHER -> __list_cut_position(m, list, head, entry)

__list_splice(m, list, prev, next) ==
  LET first == m.next[list]
      last  == m.prev[list]
  IN  [m EXCEPT !.prev[first] = prev, !.next[prev] = first,
                !.next[last] = next, !.prev[next] = last]

list_splice(m, list, head) ==
  IF list_empty(m, list) THEN m ELSE __list_splice(m, list, head, m.next[head])

list_splice_tail(m, list, head) ==
  IF list_empty(m, list) THEN m ELSE __list_splice(m, list, m.prev[head], head)

list_splice_init(m, list, head) ==
  IF list_empty(m, list) THEN m ELSE INIT_LIST_HEAD(list_splice(m, list, head), list)

list_splice_tail_init(m, list, head) ==
  IF list_empty(m, list) THEN m ELSE INIT_LIST_HEAD(list_splice_tail(m, list, head), list)

-----------------------------------------------------------------------------
(***************************************************************************)
(* What a node is, read from the memory: callers keep to the documented    *)
(* preconditions, which speak of lists and not of pointers.                *)
(***************************************************************************)

\* The nodes from n on in one direction, as far as the next head.
Path(dir, n) ==
  LET walk[s \in Seq(Nodes)] ==
        LET k == mem[dir][s[Len(s)]]
        IN  IF k \in Entries /\ Len(s) <= Cardinality(Entries) THEN walk[Append(s, k)] ELSE s
  IN  walk[<<n>>]

\* A head is usable if a ring goes through it, forwards and backwards. It is
\* not after its entries have been spliced or replaced away from it.
IsRing(s) ==
  \A i \in DOMAIN s :
    LET n == s[IF i = Len(s) THEN 1 ELSE i + 1]
    IN  mem.next[s[i]] = n /\ mem.prev[n] = s[i]

Lists ==
  LET usable == {h \in Heads : IsRing(Path("next", h))}
  IN  [h \in usable |-> Tail(Path("next", h))]

On(h)  == {Lists[h][i] : i \in DOMAIN Lists[h]}
Usable == DOMAIN Lists
Listed == UNION {On(h) : h \in Usable}
Free   == Entries \ Listed

\* The places of the lists other than that of h.
PlacesOff(h) == UNION {{k} \cup On(k) : k \in Usable \ {h}}
Places == Usable \cup Listed

-----------------------------------------------------------------------------
(***************************************************************************)
(* Calls.                                                                  *)
(***************************************************************************)
Init ==
  /\ mem = [dir \in {"next", "prev"} |-> [n \in Nodes |-> IF n \in Heads THEN n ELSE NULL]]
  /\ loop = NoLoop
  /\ call = <<>>

Do(c, m) == call' = c /\ mem' = m /\ UNCHANGED loop

Initialise == \E h \in Heads : Do(<<"INIT_LIST_HEAD", h>>, INIT_LIST_HEAD(mem, h))

Add ==
  \E e \in Free, p \in Places :
    \/ Do(<<"list_add", e, p>>, list_add(mem, e, p))
    \/ Do(<<"list_add_tail", e, p>>, list_add_tail(mem, e, p))

Delete(e) ==
  \/ Do(<<"list_del", e>>, list_del(mem, e))
  \/ Do(<<"list_del_init", e>>, list_del_init(mem, e))

Move(e, p) ==
  \/ Do(<<"list_move", e, p>>, list_move(mem, e, p))
  \/ Do(<<"list_move_tail", e, p>>, list_move_tail(mem, e, p))

Replace(old, new) ==
  \/ Do(<<"list_replace", old, new>>, list_replace(mem, old, new))
  \/ Do(<<"list_replace_init", old, new>>, list_replace_init(mem, old, new))

\* The entry is one the caller knows to be on the list, or the head itself;
\* with at most one entry on it, the code checks for itself.
Cut ==
  \E h \in Usable, k \in Heads, e \in Nodes :
    /\ k # h
    /\ e \in {h} \cup On(h) \/ Len(Lists[h]) <= 1
    /\ Do(<<"list_cut_position", k, h, e>>, list_cut_position(mem, k, h, e))

Splice ==
  \E k \in Usable : \E p \in PlacesOff(k) :
    \/ Do(<<"list_splice", k, p>>, list_splice(mem, k, p))
    \/ Do(<<"list_splice_init", k, p>>, list_splice_init(mem, k, p))
    \/ Do(<<"list_splice_tail", k, p>>, list_splice_tail(mem, k, p))
    \/ Do(<<"list_splice_tail_init", k, p>>, list_splice_tail_init(mem, k, p))

Call ==
  /\ loop = NoLoop
  /\ \/ Initialise
     \/ Add
     \/ \E e \in Listed : Delete(e)
     \/ \E e \in Listed : \E p \in Places \ {e} : Move(e, p)
     \/ \E old \in Listed, new \in Free : Replace(old, new)
     \/ \E old \in Usable : \E new \in {h \in Heads \ {old} : h \notin Usable \/ On(h) = {}} :
          Replace(old, new)
     \/ \E h \in Usable : Do(<<"list_rotate_left", h>>, list_rotate_left(mem, h))
     \/ Cut
     \/ Splice

(***************************************************************************)
(* The safe loops: the entry that is visited may leave the list.  They     *)
(* begin at either end; two forms go on from an entry, or after it.        *)
(***************************************************************************)
Start(h, dir, pos) ==
  /\ loop = NoLoop
  /\ loop' = [head |-> h, dir |-> dir, pos |-> pos, n |-> mem[dir][pos]]
  /\ call' = <<>>
  /\ UNCHANGED mem

BeginLoop == \E h \in Usable, dir \in {"next", "prev"} : Start(h, dir, mem[dir][h])

ContinueLoop ==
  \E h \in Usable : \E p \in On(h) : Start(h, "next", p) \/ Start(h, "next", mem.next[p])

Visiting == loop # NoLoop /\ loop.pos # loop.head

Body ==
  /\ Visiting
  /\ loop.pos \in Listed
  /\ \/ Delete(loop.pos)
     \/ \E p \in PlacesOff(loop.head) \ {loop.pos} : Move(loop.pos, p)

\* A body that takes out the next entry and calls list_safe_reset_next, with
\* its own entry on the list.
DeleteNext ==
  /\ Visiting
  /\ loop.dir = "next" /\ loop.pos \in On(loop.head) /\ loop.n \in Entries
  /\ \/ call' = <<"list_del", loop.n>> /\ mem' = list_del(mem, loop.n)
     \/ call' = <<"list_del_init", loop.n>> /\ mem' = list_del_init(mem, loop.n)
  /\ loop' = [loop EXCEPT !.n = mem'.next[loop.pos]]

Advance ==
  /\ Visiting
  /\ loop' = [loop EXCEPT !.pos = loop.n, !.n = mem[loop.dir][loop.n]]
  /\ call' = <<>>
  /\ UNCHANGED mem

EndLoop ==
  /\ loop # NoLoop /\ loop.pos = loop.head
  /\ loop' = NoLoop
  /\ call' = <<>>
  /\ UNCHANGED mem

Next == Call \/ BeginLoop \/ ContinueLoop \/ Body \/ DeleteNext \/ Advance \/ EndLoop

Spec == Init /\ [][Next]_vars

-----------------------------------------------------------------------------
(***************************************************************************)
(* What the loop has yet to visit: the current entry, which may have left  *)
(* the list, and the way from n to the head.                               *)
(***************************************************************************)
Pending ==
  IF ~Visiting THEN <<>>
  ELSE IF loop.n = loop.head THEN <<loop.pos>>
  ELSE <<loop.pos>> \o Path(loop.dir, loop.n)

\* list_empty holds of an entry that list_del_init took out, not after list_del.
Alone == {e \in Entries : list_empty(mem, e) /\ mem.prev[e] = e}

Abstract == INSTANCE ListSeqs WITH lists <- Lists, alone <- Alone, todo <- Pending

(***************************************************************************)
(* Each function has the effect on sequences that its own comment promises *)
(* (list_add after its place, list_add_tail before it, and so on), for all *)
(* its arguments and whatever stale pointers earlier calls have left in    *)
(* nodes that are on no list; and a safe loop visits every entry once and  *)
(* in order although entries leave the list while they are visited.        *)
(***************************************************************************)
ImplementsLists == Abstract!Spec
=============================================================================
