------------------------------ MODULE ListSeqs ------------------------------
(***************************************************************************)
(* What the functions of src/list.h promise, each under its own name:      *)
(* every usable head has a sequence of entries, an entry is in one         *)
(* sequence at most, and a call changes them in the way its comment says.  *)
(* A loop over a list visits the entries it had when the loop began, once  *)
(* and in order, whatever becomes of an entry while it is visited.         *)
(***************************************************************************)
EXTENDS Integers, SequencesExt

CONSTANTS Heads, Entries

VARIABLES
  lists,            \* the sequence of each usable head
  alone,            \* the entries that were initialised and are on no list
  todo,             \* what the loop has yet to visit, the current entry first
  call              \* the last call, a function with its arguments; empty in a loop

listVars == <<lists, alone, todo, call>>

Usable == DOMAIN lists
Listed == UNION {ToSet(lists[h]) : h \in Usable}

\* A place is a usable head or a listed entry; Home is the list it belongs to.
Places  == Usable \cup Listed
Home(p) == CHOOSE h \in Usable : p = h \/ p \in ToSet(lists[h])

\* The number of entries before the gap after, or before, a place.
Index(s, e) == CHOOSE i \in DOMAIN s : s[i] = e
After(p)  == IF p \in Usable THEN 0 ELSE Index(lists[Home(p)], p)
Before(p) == IF p \in Usable THEN Len(lists[p]) ELSE After(p) - 1

Inserted(s, i, t) == SubSeq(s, 1, i) \o t \o SubSeq(s, i + 1, Len(s))

Inserting(e, p, i) == [lists EXCEPT ![Home(p)] = Inserted(@, i, <<e>>)]
Without(e)  == [h \in Usable |-> SelectSeq(lists[h], LAMBDA x : x # e)]
With(h, s)  == [k \in Usable \cup {h} |-> IF k = h THEN s ELSE lists[k]]
Forget(f, h) == [k \in DOMAIN f \ {h} |-> f[k]]

Init ==
  /\ lists = [h \in Heads |-> <<>>]
  /\ alone \in {{}, Entries}
  /\ todo = <<>>
  /\ call = <<>>

-----------------------------------------------------------------------------
\* An entry that enters a list is no longer alone.
Enter(c, e, s) == call' = c /\ lists' = s /\ alone' = alone \ {e}
Leave(c, e, s) == call' = c /\ lists' = s /\ alone' = alone \cup {e}
Stay(c, s)     == call' = c /\ lists' = s /\ UNCHANGED alone

(***************************************************************************)
(* The doubly linked lists.                                                *)
(***************************************************************************)
INIT_LIST_HEAD(h) == Stay(<<"INIT_LIST_HEAD", h>>, With(h, <<>>))

list_add(new, p)      == Enter(<<"list_add", new, p>>, new, Inserting(new, p, After(p)))
list_add_tail(new, p) == Enter(<<"list_add_tail", new, p>>, new, Inserting(new, p, Before(p)))

list_del(e)      == Stay(<<"list_del", e>>, Without(e))
list_del_init(e) == Leave(<<"list_del_init", e>>, e, Without(e))

\* The entry is taken out first; p is a head or another entry.
list_move(e, p) ==
  LET s == Without(e)
      h == Home(p)
  IN  Stay(<<"list_move", e, p>>,
           [s EXCEPT ![h] = Inserted(@, IF p = h THEN 0 ELSE Index(@, p), <<e>>)])

list_move_tail(e, p) ==
  LET s == Without(e)
      h == Home(p)
  IN  Stay(<<"list_move_tail", e, p>>,
           [s EXCEPT ![h] = Inserted(@, IF p = h THEN Len(@) ELSE Index(@, p) - 1, <<e>>)])

\* The new entry takes the place of the old one, or the new head its list.
Replaced(old, new) ==
  IF old \in Usable THEN With(new, lists[old])
  ELSE [lists EXCEPT ![Home(old)] = [@ EXCEPT ![After(old)] = new]]

list_replace(old, new) == Enter(<<"list_replace", old, new>>, new, Forget(Replaced(old, new), old))

list_replace_init(old, new) ==
  /\ call' = <<"list_replace_init", old, new>>
  /\ lists' = [h \in DOMAIN Replaced(old, new) |-> IF h = old THEN <<>> ELSE Replaced(old, new)[h]]
  /\ alone' = (alone \ {new}) \cup ({old} \cap Entries)

list_rotate_left(h) ==
  Stay(<<"list_rotate_left", h>>,
       IF lists[h] = <<>> THEN lists ELSE [lists EXCEPT ![h] = Append(Tail(@), Head(@))])

\* The entries up to e become the list of k, if e is on the list of h.
list_cut_position(k, h, e) ==
  Stay(<<"list_cut_position", k, h, e>>,
       IF lists[h] = <<>> \/ e \notin {h} \cup ToSet(lists[h]) THEN lists
       ELSE [With(k, SubSeq(lists[h], 1, After(e)))
               EXCEPT ![h] = SubSeq(@, After(e) + 1, Len(@))])

\* A list joins another; its head is lost unless it is reinitialised.
Joined(k, p, i) == [lists EXCEPT ![Home(p)] = Inserted(@, i, lists[k])]
Lost(f, k)      == IF lists[k] = <<>> THEN f ELSE Forget(f, k)
Emptied(f, k)   == [f EXCEPT ![k] = <<>>]

list_splice(k, p)      == Stay(<<"list_splice", k, p>>, Lost(Joined(k, p, After(p)), k))
list_splice_tail(k, p) == Stay(<<"list_splice_tail", k, p>>, Lost(Joined(k, p, Before(p)), k))
list_splice_init(k, p) == Stay(<<"list_splice_init", k, p>>, Emptied(Joined(k, p, After(p)), k))
list_splice_tail_init(k, p) ==
  Stay(<<"list_splice_tail_init", k, p>>, Emptied(Joined(k, p, Before(p)), k))

(***************************************************************************)
(* The hash lists.                                                         *)
(***************************************************************************)
INIT_HLIST_HEAD(h) == Stay(<<"INIT_HLIST_HEAD", h>>, With(h, <<>>))
INIT_HLIST_NODE(n) == Leave(<<"INIT_HLIST_NODE", n>>, n, lists)

hlist_del(n)      == Leave(<<"hlist_del", n>>, n, Without(n))
hlist_del_init(n) == Leave(<<"hlist_del_init", n>>, n, Without(n))

hlist_add_head(n, h)      == Enter(<<"hlist_add_head", n, h>>, n, Inserting(n, h, 0))
hlist_add_before(n, next) == Enter(<<"hlist_add_before", n, next>>, n, Inserting(n, next, Before(next)))
hlist_add_after(n, next)  == Enter(<<"hlist_add_after", n, next>>, next, Inserting(next, n, After(n)))
hlist_add_fake(n)         == Enter(<<"hlist_add_fake", n>>, n, lists)

hlist_move_list(old, new) ==
  Stay(<<"hlist_move_list", old, new>>, [With(new, lists[old]) EXCEPT ![old] = <<>>])

-----------------------------------------------------------------------------
New == Entries \ Listed

ListCall ==
  \/ \E h \in Heads : INIT_LIST_HEAD(h)
  \/ \E e \in New, p \in Places : list_add(e, p) \/ list_add_tail(e, p)
  \/ \E e \in Listed : list_del(e) \/ list_del_init(e)
  \/ \E e \in Listed : \E p \in Places \ {e} : list_move(e, p) \/ list_move_tail(e, p)
  \/ \E old \in Listed, new \in New : list_replace(old, new) \/ list_replace_init(old, new)
  \/ \E old \in Usable : \E new \in Heads \ {old} :
       list_replace(old, new) \/ list_replace_init(old, new)
  \/ \E h \in Usable : list_rotate_left(h)
  \/ \E h \in Usable, e \in Heads \cup Entries : \E k \in Heads \ {h} : list_cut_position(k, h, e)
  \/ \E k \in Usable, p \in Places :
       /\ Home(p) # k
       /\ \/ list_splice(k, p) \/ list_splice_init(k, p)
          \/ list_splice_tail(k, p) \/ list_splice_tail_init(k, p)

HashCall ==
  \/ \E h \in Heads : INIT_HLIST_HEAD(h)
  \/ \E n \in New : INIT_HLIST_NODE(n) \/ hlist_add_fake(n)
  \/ \E n \in Entries : hlist_del(n) \/ hlist_del_init(n)
  \/ \E n \in New, h \in Usable : hlist_add_head(n, h)
  \/ \E n \in New, e \in Listed : hlist_add_before(n, e) \/ hlist_add_after(e, n)
  \/ \E old \in Usable : \E new \in Heads \ {old} : hlist_move_list(old, new)

\* A loop begins at either end, or at an entry and then goes forwards.
BeginLoop ==
  /\ todo = <<>>
  /\ \E h \in Usable :
       \/ todo' = Reverse(lists[h])
       \/ \E i \in 1 .. Len(lists[h]) + 1 : todo' = SubSeq(lists[h], i, Len(lists[h]))

Visit == todo # <<>> /\ todo' = Tail(todo)

\* The entry that is next may leave as well, if the loop is told.
DropNext ==
  /\ Len(todo) > 1
  /\ list_del(todo[2]) \/ list_del_init(todo[2])
  /\ todo' = <<todo[1]>> \o Tail(Tail(todo))

Next ==
  \/ (ListCall \/ HashCall) /\ UNCHANGED todo
  \/ BeginLoop /\ call' = <<>> /\ UNCHANGED <<lists, alone>>
  \/ Visit /\ call' = <<>> /\ UNCHANGED <<lists, alone>>
  \/ DropNext

Spec == Init /\ [][Next]_listVars
=============================================================================
