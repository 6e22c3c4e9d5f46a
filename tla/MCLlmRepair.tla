----------------------------- MODULE MCLlmRepair -----------------------------
(* The answers TLC tries: up to two items in a list, under one key or two, *)
(* with and without a wrapper, as an object or as text.                    *)
EXTENDS LlmRepair

CONSTANTS i1, i2

Fits == {"fit", "lacks", "anon", "wrong", "broken", "bare"}

Lists ==
    {<<>>} \cup {<<Elem(i1, f)>> : f \in Fits}
           \cup {<<Elem(i1, f), Elem(i2, g)>> : f, g \in Fits}

Values ==
    {Value("list", s) : s \in Lists}
        \cup {Value("dict", <<Elem(i1, f)>>) : f \in {"fit", "lacks", "anon"}}
        \cup {Value("str", <<Elem(i1, "bare")>>)}
        \cup {Value("scalar", <<>>), Value("type", <<>>)}

Named == UNION {{k :> v : v \in Values} : k \in {"own", "alias", "class"}}

Empty == Value("list", <<>>)

(* A first key without items in front of one that has them.                *)
Twice == {("own" :> Empty) @@ ("alias" :> v) : v \in Values}
             \cup {("alias" :> Empty) @@ ("later" :> v) : v \in Values}

Objects ==
    {Object(at, <<>>) : at \in Named \cup Twice \cup {<<>>}}
        \cup {Object(<<>>, under) : under \in Named}

Texts == {[p EXCEPT !.text = TRUE] : p \in Objects} \cup {Value("scalar", <<>>)}

MCAnswers == [s \in Schemas |-> Objects \cup Texts \cup {Value("list", l) : l \in Lists}]

(* The right key and a list, of which at least one item fits.              *)
MCListed ==
    [s \in Schemas |-> {Object("own" :> Value("list", l), <<>>) :
                          l \in {m \in Lists : \E i \in 1..Len(m) : m[i].fit = "fit"}}]
=============================================================================
