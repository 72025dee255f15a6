-------------------------- MODULE MCLinkConditions --------------------------
EXTENDS LinkConditions, TLC

CONSTANTS x, y, p, q

\* Conditions of the root, a compound one, up to three triggers and maybe another
\* compound one; "delay" is of the triggers, of the compound ones, or of neither.
Leaf(up, on, delay) == [kind |-> "transition", up |-> up, on |-> on, delay |-> delay, tests |-> {}]
Compound(kind, up, delay, tests) == [kind |-> kind, up |-> up, on |-> None, delay |-> delay, tests |-> tests]

Tests == {{}, {[op |-> "or", negated |-> TRUE, of |-> Leaves]},
          {[op |-> "and", negated |-> FALSE, of |-> {l}] : l \in Leaves}}

Simple == {"a" :> Leaf(Link, x, d) : d \in BOOLEAN}
Flat == {"r" :> Compound("and", Link, d, ts) @@ "a" :> Leaf("r", x, e) @@ "b" :> Leaf("r", y, FALSE) :
            d \in BOOLEAN, e \in BOOLEAN, ts \in Tests}
SameTwice == {"r" :> Compound(k, Link, d, {}) @@ "a" :> Leaf("r", x, e) @@ "b" :> Leaf("r", x, FALSE) :
            k \in {"and", "or"}, d \in BOOLEAN, e \in BOOLEAN}
Nested == {"r" :> Compound(k[1], Link, FALSE, {}) @@ "s" :> Compound(k[2], "r", d, {})
             @@ "a" :> Leaf("r", x, FALSE) @@ "b" :> Leaf("s", x, FALSE) @@ "c" :> Leaf("s", y, e) :
            k \in {<<"and", "or">>, <<"or", "and">>, <<"and", "and">>}, d \in BOOLEAN, e \in BOOLEAN}

MCTransitions == {x, y}
MCLeaves == {p, q}
\* A simple action, a compound one of two, and one with a delay of its own.
MCActions == {[parts |-> 0, delay |-> FALSE], [parts |-> 2, delay |-> FALSE], [parts |-> 1, delay |-> TRUE]}
MCTrees == Simple \cup Flat \cup SameTwice \cup Nested
=============================================================================
