----------------------------- MODULE IntakeGate -----------------------------
(***************************************************************************)
(* What the enqueue gate promises to the processes that write episodes, as *)
(* if every call were decided in one step:                                 *)
(*  - a call is accepted at most once, and an enforcing one only while no  *)
(*    enforced row with its content is in flight;                          *)
(*  - a call is refused only by an enforcing writer, while a row with its  *)
(*    content is in flight, and the answer names such a row;               *)
(*  - a refused call never leaves a row.                                   *)
(* DedupGate is shown to implement this module.                            *)
(***************************************************************************)
CONSTANTS
    Episode,    \* the episode ids; each belongs to one call
    PayloadOf,  \* the canonical hash of each episode's content
    NoEpisode   \* the call was not refused

VARIABLES
    row,     \* none, or whether the row is in flight, ingested or set aside
    gate,    \* the mode the row was written in
    refusal  \* the row a refused call was told about

vars == <<row, gate, refusal>>

Twins(e) == {f \in Episode \ {e} : PayloadOf[f] = PayloadOf[e]}
Inserted(e) == row[e] # "none"
Indexed(e) == row[e] = "active" /\ gate[e] = "enforce"

Init ==
    /\ row = [e \in Episode |-> "none"]
    /\ gate = [e \in Episode |-> "off"]
    /\ refusal = [e \in Episode |-> NoEpisode]

Accept(e, g) ==
    /\ ~Inserted(e)
    /\ refusal[e] = NoEpisode
    /\ g = "enforce" => \A f \in Twins(e) : ~Indexed(f)
    /\ row' = [row EXCEPT ![e] = "active"]
    /\ gate' = [gate EXCEPT ![e] = g]
    /\ UNCHANGED refusal

Refuse(e, f) ==
    /\ ~Inserted(e)
    /\ refusal[e] = NoEpisode
    /\ f \in Twins(e) /\ row[f] = "active"
    /\ refusal' = [refusal EXCEPT ![e] = f]
    /\ UNCHANGED <<row, gate>>

(* The rows S may be in flight together with those that are.               *)
Admissible(S) ==
    \A e \in S, f \in Episode : f \in Twins(e) =>
        ~ (/\ gate[e] = "enforce" /\ gate[f] = "enforce"
           /\ f \in S \/ row[f] = "active")

(* The workers claim, finish, fail and requeue rows.                       *)
RowsMove(S, st) ==
    /\ \A e \in S : Inserted(e)
    /\ st = "active" => Admissible(S)
    /\ row' = [e \in Episode |-> IF e \in S THEN st ELSE row[e]]
    /\ UNCHANGED <<gate, refusal>>

Next ==
    \/ \E e \in Episode, g \in {"off", "observe", "enforce"} : Accept(e, g)
    \/ \E e, f \in Episode : Refuse(e, f)
    \/ \E S \in SUBSET Episode, st \in {"active", "done", "idle"} : RowsMove(S, st)

Spec == Init /\ [][Next]_vars
=============================================================================
