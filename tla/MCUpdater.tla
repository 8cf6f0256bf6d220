------------------------------ MODULE MCUpdater ------------------------------
EXTENDS Updater

CONSTANTS x, y, f, u, v, p, q, a1, a2, b

\* a1 and a2 are the same contents, compressed differently.
Contents2 == (a1 :> "a") @@ (a2 :> "a") @@ (b :> "b")
Levels == (a1 :> 1) @@ (a2 :> 2) @@ (b :> 1)

PA == [name |-> p, hash |-> a1]
PA2 == [name |-> p, hash |-> a2]
QA == [name |-> q, hash |-> a1]
PB == [name |-> p, hash |-> b]
QB == [name |-> q, hash |-> b]

Server == (u :> <<PA>>) @@ (v :> <<QB, PA>>)
ServerOf == (u :> y) @@ (v :> x)

Versions == {x :> <<PA, QB>> @@ y :> <<>>, x :> <<QB>> @@ y :> <<PA>>,
             x :> <<PA>> @@ y :> <<PA, QB>>}
Installation(files, others, foreign) == x :> files @@ y :> others @@ f :> foreign
Installations ==
    {Installation(<<>>, <<>>, <<>>),
     Installation(<<QB>>, <<PA>>, <<>>),
     Installation(<<PA2>>, <<>>, <<QB>>),
     Installation(<<PA>>, <<PA, QA>>, <<>>),
     Installation(<<PA, QA>>, <<QB, PA2>>, <<QB>>),
     Installation(<<QB, PA2>>, <<PA, QB>>, <<>>)}
==============================================================================
