--------------------------- MODULE MCEvaluation ----------------------------
(* Instances of Evaluation for TLC. *)
EXTENDS Evaluation, TLC

S(n) == String(n)[1]
MCUsers == {S(1), S(2), S(3), S(4)}
Booleans == {Bool(0)[1], Bool(1)[1]}

(* Each user of a flag in a bucket of its own, digests beyond the modulus. *)
MCDigest == [p \in FlagKeys \X MCUsers |-> 5 + p[2].repr]

MCContexts == {
    [plan |-> S(1)], [plan |-> S(2)], [plan |-> Bool(1)[1]],
    [beta |-> Number(1)[1], plan |-> S(3)],
    [a \in {} |-> None] }

R(attribute, operator, values, value) ==
    [attribute |-> attribute, operator |-> operator, values |-> values, value |-> value]

(* Every operator once, the user_id attribute, an unknown attribute, an    *)
(* empty operand list, and an operator the engine does not know: the API   *)
(* refuses that one, a row written by another version may hold it.         *)
On == Bool(1)[1]
Pin == R("user_id", "in", <<S(1), S(3)>>, On)
Out == R("plan", "not_in", <<S(1)>>, Bool(0)[1])
Odd == R("plan", "matches", <<S(1)>>, On)
OneRule == {Pin, Out, Odd,
    R("plan", "eq", <<Number(1)[1]>>, On), R("plan", "eq", <<>>, On), R("plan", "neq", <<S(2)>>, On),
    R("plan", "contains", <<S(2)>>, On), R("plan", "starts_with", <<S(2)>>, On),
    R("plan", "ends_with", <<S(2)>>, On), R("region", "neq", <<S(1)>>, On)}
MCRuleLists == {<<>>} \union {<<x>> : x \in OneRule} \union
    {<<Pin, Out>>, <<Out, Pin>>, <<Odd, Pin, Out>>, <<Pin, Odd, Out>>, <<Pin, Out, Odd>>}

MCPairs == {<<S(2), S(2)>>, <<S(3), S(2)>>}
============================================================================
