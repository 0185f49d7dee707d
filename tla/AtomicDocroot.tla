---------------------------- MODULE AtomicDocroot ----------------------------
(***************************************************************************)
(* What packagetool-snapshot promises to those who read the docroot: at    *)
(* every moment there is one whole composition to read, either all of the  *)
(* old one or all of the new one. A composition holds every source and the *)
(* files above the sources, nothing in it was never in the working tree,   *)
(* and nothing in it is older than what it replaces.                       *)
(***************************************************************************)
EXTENDS Naturals

CONSTANTS
    Sources,        \* the sources of the registry
    MaxTime,        \* bound: the names a tree may have
    MaxVersion,     \* bound: the contents of a source
    MaxTop          \* bound: the contents of the files above the sources

VARIABLES
    working,        \* working[s]: the content being prepared for source s
    top,            \* the content being prepared for the files above them
    served          \* the composition that is served, with the tree's name

vars == <<working, top, served>>

\* Before the first publish the docroot points at a placeholder.
Placeholder == [tree |-> 0, copies |-> [s \in Sources |-> 0], top |-> 0]

Init ==
    /\ working = [s \in Sources |-> 1]
    /\ top = 1
    /\ served = Placeholder

Edit(s) ==
    /\ working[s] < MaxVersion
    /\ working' = [working EXCEPT ![s] = @ + 1]
    /\ UNCHANGED <<top, served>>

EditTop ==
    /\ top < MaxTop
    /\ top' = top + 1
    /\ UNCHANGED <<working, served>>

\* One step, to a tree of another name; one that is served never changes.
Publish ==
    /\ served' \in [tree   : (1 .. MaxTime) \ {served.tree},
                    copies : [Sources -> 1 .. MaxVersion],
                    top    : 1 .. MaxTop]
    /\ \A s \in Sources : /\ served.copies[s] <= served'.copies[s]
                          /\ served'.copies[s] <= working[s]
    /\ served.top <= served'.top
    /\ served'.top <= top
    /\ UNCHANGED <<working, top>>

Next == (\E s \in Sources : Edit(s)) \/ EditTop \/ Publish

Spec == Init /\ [][Next]_vars

=============================================================================
