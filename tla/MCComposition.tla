--------------------------- MODULE MCComposition ---------------------------
(* Instances of Composition: two objects and two links.                    *)
EXTENDS Composition, TLC

CONSTANTS a, b

McOrder == <<a, b>>
McPorts == <<a>>

Do(what, who) == [what |-> what, who |-> who, delay |-> FALSE]
Later(what, who) == [what |-> what, who |-> who, delay |-> TRUE]

\* The links of the usual connectors: they start or stop an object, pause the
\* second one, or replace one object by the other.
McLinkSet ==
    [on : Media, tr : {"start", "stop"}, delay : BOOLEAN,
     acts : {<<Do(x, y)>> : x \in {"start", "stop"}, y \in Media}
            \cup {<<Do("pause", b)>>, <<Do("stop", a), Do("start", b)>>, <<Do("start", b), Do("stop", b)>>}]

\* Actions with delays of their own, alone or in a compound action.
McDelayedSet ==
    [on : Media, tr : {"start", "stop"}, delay : {FALSE},
     acts : {<<Later("start", b)>>, <<Later("stop", a), Do("start", b)>>}]

\* The links of an instance are of one kind or of the other.
McLinks == McLinkSet \cup McDelayedSet
McInit == Init /\ \E set \in {McLinkSet, McDelayedSet} : \A l \in Links : links[l] \in set
McSpec == McInit /\ [][Next]_vars

McSymmetry == Permutations(Links)
=============================================================================
