------------------------------ MODULE LlmRepair -----------------------------
(***************************************************************************)
(* The client around graphiti's LLM client (heuristics/): an answer that   *)
(* does not validate against the schema it was asked for is repaired by    *)
(* the rule of that schema, logged, and validated again.                   *)
(*                                                                         *)
(* An answer is abstracted to where it carries its items (entities, edges, *)
(* resolutions, fact numbers) and to how far each of them fits:            *)
(*   fit     validates                                                     *)
(*   lacks   a dict without a required field, still recognisable alone     *)
(*   anon    one that is not recognisable alone                            *)
(*   wrong   a field has a type the normaliser converts                    *)
(*   broken  a field has a type that no rule converts                      *)
(*   bare    a string instead of a dict                                    *)
(* A field that is a list or a dict where it must not be is left out.      *)
(* Keys that no rule looks at are left out, as validation ignores them.    *)
(***************************************************************************)
EXTENDS Naturals, Sequences, FiniteSets, SequencesExt, TLC

CONSTANTS
    Item,     \* what answers are about
    Unnamed,  \* an item made of nothing, named "<unnamed>"
    Active,   \* the schemas whose rule is active
    Schemas,  \* the schemas asked for
    Answers   \* per schema, the answers of the LLM

VARIABLES
    schema,   \* response_model of the call
    answer,   \* what the inner client returned
    outcome,  \* what the call returned, or that it raised
    quirks    \* the log of repairs

vars == <<schema, answer, outcome, quirks>>

-----------------------------------------------------------------------------
(* Answers.                                                                *)

Elem(i, f) == [id |-> i, fit |-> f]

(* A JSON value: of lists the items in it, at holds the keys of an object, *)
(* under the keys of its "properties" wrapper; text says that all of it    *)
(* came as one string.                                                     *)
Value(t, of) == [t |-> t, of |-> of, at |-> <<>>, under |-> <<>>, text |-> FALSE]
Object(at, under) == [Value("object", <<>>) EXCEPT !.at = at, !.under = under]

Entity == {"ExtractedEntities", "SummarizedEntities"}

(* own is the field of the schema, own2 the second one of EdgeDuplicate.   *)
Fields(s) == IF s = "EdgeDuplicate" THEN <<"own", "own2">> ELSE <<"own">>

(* The other names a rule knows for a field, in its order.                 *)
Aliases(f) == IF f = "own2" THEN <<"alias2">> ELSE <<"alias", "later">>

Keys == {"own", "own2", "alias", "later", "alias2", "class"}

Carried(p) ==
    {p.of[i].id : i \in 1..Len(p.of)}
        \cup UNION {{p.at[k].of[i].id : i \in 1..Len(p.at[k].of)} : k \in DOMAIN p.at}
        \cup UNION {{p.under[k].of[i].id : i \in 1..Len(p.under[k].of)}
                    : k \in DOMAIN p.under}

-----------------------------------------------------------------------------
(* Validation, as the client uses it.                                      *)

AllFit(of) == \A i \in 1..Len(of) : of[i].fit = "fit"

FieldFits(p, f) == f \in DOMAIN p.at /\ p.at[f].t = "list" /\ AllFit(p.at[f].of)

Valid(s, p) ==
    /\ p.t = "object" /\ ~p.text
    /\ \A i \in 1..Len(Fields(s)) : FieldFits(p, Fields(s)[i])

(* errors()[0]["input"] for an item: the item if a field of it is missing, *)
(* the value of the field if that has the wrong type.                      *)
InputOf(e) ==
    IF e.fit \in {"lacks", "anon"} THEN Value("dict", <<e>>) ELSE Value("scalar", <<>>)

FirstUnfit(of) ==
    of[CHOOSE i \in 1..Len(of) :
        of[i].fit # "fit" /\ \A j \in 1..(i - 1) : of[j].fit = "fit"]

(* What the client hands to the rule: the input of the first error.        *)
Blamed(s, p) ==
    IF p.t # "object" \/ p.text THEN p
    ELSE LET f == Head(SelectSeq(Fields(s), LAMBDA g : ~FieldFits(p, g)))
         IN  IF f \notin DOMAIN p.at THEN p
             ELSE IF p.at[f].t # "list" THEN p.at[f]
             ELSE InputOf(FirstUnfit(p.at[f].of))

-----------------------------------------------------------------------------
(* The rules.                                                              *)

(* Keys beside the wrapper win over those in it.                           *)
Unwrapped(p) == p.at @@ p.under

Normal(e) == IF e.fit = "broken" THEN e ELSE Elem(e.id, "fit")

(* A dict under a known key passes for a single entity, the description of *)
(* a type too.                                                             *)
Entities(v) == IF v.t = "type" THEN <<Elem(Unnamed, "lacks")>> ELSE v.of

Done(of) == [i \in 1..Len(of) |-> Normal(of[i])]

Container(m) ==
    SelectSeq(<<"own", "alias", "later">>,
              LAMBDA k : k \in DOMAIN m /\ m[k].t \in {"list", "dict", "type"})

RepairEntities(p) ==
    LET m == Unwrapped(p)
    IN  CASE p.t = "list" -> Done(p.of)
          [] p.t \in {"scalar", "str"} -> <<>>
          [] p.t = "type" -> Done(Entities(p))
          [] p.t = "dict" -> IF AllFit(p.of) \/ p.of[1].fit # "anon"
                             THEN Done(p.of) ELSE <<>>
          [] p.t = "object" ->
                IF Container(m) # <<>> THEN Done(Entities(m[Head(Container(m))]))
                ELSE IF "class" \in DOMAIN m /\ m["class"].t # "scalar"
                     THEN Done(Entities(m["class"])) ELSE <<>>

(* The first name that is there decides, whatever its value is.            *)
Present(m, f) == SelectSeq(<<f>> \o Aliases(f), LAMBDA k : k \in DOMAIN m)

ListOf(v) == IF v.t = "list" THEN v.of ELSE <<>>

RepairListed(p) ==
    LET m == Unwrapped(p)
    IN  CASE p.t = "list" -> p.of
          [] p.t = "object" ->
                IF Present(m, "own") = <<>> THEN <<>> ELSE ListOf(m[Head(Present(m, "own"))])
          [] OTHER -> <<>>

RepairResolutions(p) ==
    IF p.t = "dict" /\ p.of[1].fit # "anon" THEN p.of ELSE RepairListed(p)

Numbers(v) ==
    IF v.t \in {"list", "str", "dict"} THEN SelectSeq(v.of, LAMBDA e : e.fit = "fit")
    ELSE <<>>

RepairDuplicates(p) ==
    LET m == Unwrapped(p)
        field(f) == IF Present(m, f) = <<>> THEN <<>> ELSE Numbers(m[Head(Present(m, f))])
    IN  IF p.t = "object" /\ ~p.text THEN field("own") \o field("own2") ELSE <<>>

Repair(s, p) ==
    CASE s \in Entity -> RepairEntities(p)
      [] s = "ExtractedEdges" -> IF p.text THEN <<>> ELSE RepairListed(p)
      [] s = "NodeResolutions" -> IF p.text THEN <<>> ELSE RepairResolutions(p)
      [] s = "EdgeDuplicate" -> RepairDuplicates(p)

-----------------------------------------------------------------------------
Init ==
    /\ schema \in Schemas
    /\ answer \in Answers[schema]
    /\ outcome = [kind |-> "none", of |-> <<>>]
    /\ quirks = 0

PassThrough ==
    /\ outcome.kind = "none" /\ Valid(schema, answer)
    /\ outcome' = [kind |-> "same", of |-> <<>>]
    /\ UNCHANGED <<schema, answer, quirks>>

NoRule ==
    /\ outcome.kind = "none" /\ ~Valid(schema, answer) /\ schema \notin Active
    /\ outcome' = [kind |-> "raised", of |-> <<>>]
    /\ UNCHANGED <<schema, answer, quirks>>

(* The repair is logged before it is validated.                            *)
RunRule ==
    LET fixed == Repair(schema, Blamed(schema, answer))
    IN  /\ outcome.kind = "none" /\ ~Valid(schema, answer) /\ schema \in Active
        /\ quirks' = quirks + 1
        /\ outcome' = IF AllFit(fixed) THEN [kind |-> "repaired", of |-> fixed]
                      ELSE [kind |-> "raised", of |-> <<>>]
        /\ UNCHANGED <<schema, answer>>

Next == PassThrough \/ NoRule \/ RunRule

Spec == Init /\ [][Next]_vars

-----------------------------------------------------------------------------
(* What the comments say and the code does not do.                         *)

(* "Any payload that *does* carry entities must produce a non-empty list,  *)
(* otherwise the repair would pass ``model_validate`` while silently       *)
(* discarding them" (heuristics/rules/extracted_entities.py:136).          *)
EmptyOnlyWithoutData ==
    outcome.kind = "repaired" /\ schema \in Entity /\ Carried(answer) # {}
        => outcome.of # <<>>

(* "For a JSON-Schema echo ... there is genuinely no entity data here, so  *)
(* an empty list is the honest repair"                                     *)
(* (heuristics/rules/extracted_entities.py:244).                           *)
EchoIsEmpty ==
    outcome.kind = "repaired" /\ schema \in Entity /\ Carried(answer) = {}
        => outcome.of = <<>>
=============================================================================
