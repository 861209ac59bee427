------------------------------- MODULE MCFoo -------------------------------
EXTENDS Foo
\* Two ids share a slot.
MCIds == 1..4
MCPages == {[page |-> p, page_size |-> n] : p \in 0..1, n \in 1..2}
=============================================================================
