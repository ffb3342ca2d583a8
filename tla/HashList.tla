------------------------------ MODULE HashList ------------------------------
(***************************************************************************)
(* The hash lists of src/list.h, at the level of their pointers: singly    *)
(* linked, ended by NULL, and every node also holds pprev, the address of  *)
(* the pointer that points to it.  Such an address is a slot: the field    *)
(* first of a head or the field next of a node.                            *)
(***************************************************************************)
EXTENDS Integers, Sequences, FiniteSets

CONSTANTS Heads, Entries, NULL

First(h) == <<"first", h>>
Next(n)  == <<"next", n>>
Slots    == {First(h) : h \in Heads} \cup {Next(n) : n \in Entries}

VARIABLES
  mem,              \* at: what each slot points to, and pprev of each node
  loop,             \* the variables of the loop that is running, if any
  call              \* the last call, with its arguments; empty after a step of a loop

vars == <<mem, loop, call>>

NoLoop == [head |-> NULL, pos |-> NULL, n |-> NULL]

-----------------------------------------------------------------------------
(***************************************************************************)
(* The functions, assignment by assignment.                                *)
(***************************************************************************)
INIT_HLIST_HEAD(m, h) == [m EXCEPT !.at[First(h)] = NULL]
INIT_HLIST_NODE(m, n) == [m EXCEPT !.at[Next(n)] = NULL, !.pprev[n] = NULL]

hlist_unhashed(m, n) == m.pprev[n] = NULL

\* if (n) n->pprev = slot;
SetPprev(m, n, slot) == IF n = NULL THEN m ELSE [m EXCEPT !.pprev[n] = slot]

__hlist_del(m, n) ==
  SetPprev([m EXCEPT !.at[m.pprev[n]] = m.at[Next(n)]], m.at[Next(n)], m.pprev[n])

\* LIST_POISON1 and LIST_POISON2 are NULL.
hlist_del(m, n) == INIT_HLIST_NODE(__hlist_del(m, n), n)

hlist_del_init(m, n) ==
  IF hlist_unhashed(m, n) THEN m ELSE INIT_HLIST_NODE(__hlist_del(m, n), n)

hlist_add_head(m, n, h) ==
  LET first == m.at[First(h)]
  IN  [SetPprev([m EXCEPT !.at[Next(n)] = first], first, Next(n))
         EXCEPT !.at[First(h)] = n, !.pprev[n] = First(h)]

hlist_add_before(m, n, next) ==
  [m EXCEPT !.pprev[n] = m.pprev[next], !.at[Next(n)] = next,
            !.pprev[next] = Next(n), !.at[m.pprev[next]] = n]

hlist_add_afterBefore(m, n, next) == hlist_add_before(m, next, n)

\* It is next that is added, after n.
hlist_add_after(m, n, next) ==
  SetPprev([m EXCEPT !.at[Next(next)] = m.at[Next(n)], !.at[Next(n)] = next,
                     !.pprev[next] = Next(n)],
           m.at[Next(n)], Next(next))

hlist_add_fake(m, n) == [m EXCEPT !.pprev[n] = Next(n)]

hlist_move_list(m, old, new) ==
  LET first == m.at[First(old)]
  IN  [SetPprev([m EXCEPT !.at[First(new)] = first], first, First(new))
         EXCEPT !.at[First(old)] = NULL]

-----------------------------------------------------------------------------
(***************************************************************************)
(* What the memory holds, for the preconditions of the callers.            *)
(***************************************************************************)
Chain(slot) ==
  LET walk[s \in Seq(Entries)] ==
        LET k == mem.at[IF s = <<>> THEN slot ELSE Next(s[Len(s)])]
        IN  IF k # NULL /\ Len(s) <= Cardinality(Entries) THEN walk[Append(s, k)] ELSE s
  IN  walk[<<>>]

\* Every node of the chain knows the slot that points to it.
IsLinked(h) ==
  LET s == Chain(First(h))
  IN  \A i \in DOMAIN s : mem.pprev[s[i]] = IF i = 1 THEN First(h) ELSE Next(s[i - 1])

Lists  == [h \in {k \in Heads : IsLinked(k)} |-> Chain(First(h))]
On(h)  == {Lists[h][i] : i \in DOMAIN Lists[h]}
Listed == UNION {On(h) : h \in DOMAIN Lists}
Free   == Entries \ Listed

\* "we'll appear to be on some hlist and hlist_del will work"
Fake == {n \in Entries : mem.pprev[n] = Next(n)}

-----------------------------------------------------------------------------
(***************************************************************************)
(* Calls.                                                                  *)
(***************************************************************************)
Init ==
  /\ mem = [at |-> [s \in Slots |-> NULL], pprev |-> [n \in Entries |-> NULL]]
  /\ loop = NoLoop
  /\ call = <<>>

Do(c, m) == call' = c /\ mem' = m /\ UNCHANGED loop

Add(n, heads) ==
  \E h \in heads :
    \/ Do(<<"hlist_add_head", n, h>>, hlist_add_head(mem, n, h))
    \/ \E e \in On(h) :
         \/ Do(<<"hlist_add_before", n, e>>, hlist_add_before(mem, n, e))
         \/ Do(<<"hlist_add_after", e, n>>, hlist_add_after(mem, e, n))

DeleteInit(n) == Do(<<"hlist_del_init", n>>, hlist_del_init(mem, n))

Delete(n) == Do(<<"hlist_del", n>>, hlist_del(mem, n)) \/ DeleteInit(n)

Call ==
  /\ loop = NoLoop
  /\ \/ \E h \in Heads : Do(<<"INIT_HLIST_HEAD", h>>, INIT_HLIST_HEAD(mem, h))
     \/ \E n \in Free : Do(<<"INIT_HLIST_NODE", n>>, INIT_HLIST_NODE(mem, n))
     \/ \E n \in Free : Add(n, DOMAIN Lists)
     \/ \E n \in Listed \cup Fake : Delete(n)
     \/ \E n \in Entries : hlist_unhashed(mem, n)
          /\ (DeleteInit(n) \/ Do(<<"hlist_add_fake", n>>, hlist_add_fake(mem, n)))
     \/ \E old \in DOMAIN Lists : \E new \in Heads \ {old} :
          Do(<<"hlist_move_list", old, new>>, hlist_move_list(mem, old, new))

(***************************************************************************)
(* hlist_for_each_safe.  The entry that is visited may leave the list, and *)
(* then enter another one.                                                 *)
(***************************************************************************)
Visit(h, pos) ==
  /\ loop' = [head |-> h, pos |-> pos, n |-> IF pos = NULL THEN NULL ELSE mem.at[Next(pos)]]
  /\ call' = <<>>
  /\ UNCHANGED mem

BeginLoop == loop = NoLoop /\ \E h \in DOMAIN Lists : Visit(h, mem.at[First(h)])

Body ==
  /\ loop.pos # NULL
  /\ \/ loop.pos \in On(loop.head) /\ Delete(loop.pos)
     \/ loop.pos \in Free /\ Add(loop.pos, DOMAIN Lists \ {loop.head})

Advance == loop.pos # NULL /\ Visit(loop.head, loop.n)

EndLoop ==
  /\ loop # NoLoop /\ loop.pos = NULL
  /\ loop' = NoLoop
  /\ call' = <<>>
  /\ UNCHANGED mem

HashNext == Call \/ BeginLoop \/ Body \/ Advance \/ EndLoop

Spec == Init /\ [][HashNext]_vars

-----------------------------------------------------------------------------
Pending ==
  IF loop.pos = NULL THEN <<>>
  ELSE <<loop.pos>> \o (IF loop.n = NULL THEN <<>> ELSE <<loop.n>> \o Chain(Next(loop.n)))

Alone == {n \in Entries : hlist_unhashed(mem, n)}

Abstract == INSTANCE ListSeqs WITH lists <- Lists, alone <- Alone, todo <- Pending

(***************************************************************************)
(* Each function of the hash lists has the effect on sequences that its    *)
(* own name promises, hlist_add_before and hlist_add_after in the order of *)
(* their arguments, in the middle and at both ends, also after an entry    *)
(* has pretended to be on a list or its list was emptied under it; and a   *)
(* safe loop visits every entry once although entries leave while visited. *)
(***************************************************************************)
ImplementsHashLists == Abstract!Spec
=============================================================================
