------------------------------ MODULE MCSwitch ------------------------------
EXTENDS Switch, TLC

CONSTANTS a, b, d, lambda, door, back, language, size, pt, en

Eq(attribute, value) == [op |-> "eq", attribute |-> attribute, value |-> value]
Ne(attribute, value) == [op |-> "ne", attribute |-> attribute, value |-> value]

\* The rules overlap: both may be true.  The door leads to a and b, the back only to b.
MCComponents == {a, b, d}
MCAttributes == {language, size}
MCValues == {pt, en, Empty}
MCRules == <<[rule |-> [op |-> "or", of |-> {Eq(language, pt), Eq(size, Empty)}], for |-> a],
             [rule |-> [op |-> "and", of |-> {Ne(language, en), Ne(size, Empty)}], for |-> b]>>
MCInterfaces == (lambda :> MCComponents) @@ (door :> {a, b}) @@ (back :> {b})
MCLate == {back}
=============================================================================
