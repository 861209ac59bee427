----------------------------- MODULE LinkedList -----------------------------
(***************************************************************************)
(* The circular, intrusive, doubly linked list of h/util/LinkedList.h: m   *)
(* is the memory of all links, [next, prev]; a head is an element like the *)
(* others.  Elements that are on no list point to Null.                    *)
(***************************************************************************)
EXTENDS Naturals, Sequences

CONSTANT Null

ListHeadInit(m, head) == [m EXCEPT !.next[head] = head, !.prev[head] = head]

\* __listAdd in two halves: all but its last store, which is the one that lets a walk in
\* the direction of next come across the element.
Attach(m, e, prev, next) == [m EXCEPT !.prev[next] = e, !.next[e] = next, !.prev[e] = prev]
Publish(m, e, prev) == [m EXCEPT !.next[prev] = e]

ListAddTail(m, e, head) == Publish(Attach(m, e, m.prev[head], head), e, m.prev[head])

\* listForEachEntry from head: where the walk is after n steps.  It stays at the head when
\* it is through, and at Null when it has run into one.
WalkTo(m, head, n) ==
    LET at[k \in 0..n] == IF k = 0 THEN m.next[head]
                          ELSE IF at[k - 1] \in {head, Null} THEN at[k - 1]
                          ELSE m.next[at[k - 1]]
    IN at[n]

\* The links of head and of the elements of s make them a list in this order.
Linked(m, head, s) ==
    LET all == <<head>> \o s \o <<head>>
    IN \A k \in 1..(Len(s) + 1) : m.next[all[k]] = all[k + 1] /\ m.prev[all[k + 1]] = all[k]
=============================================================================
