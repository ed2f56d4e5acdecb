----------------------------- MODULE MCBehavior ------------------------------
(* Behavior for TLC: two tools with secrets, a narrow optional one and one of *)
(* two required strings; either run may see only the first of them.          *)
EXTENDS Behavior

Field(key, required, narrow) ==
    [key |-> key, hasSecretName |-> TRUE, hasSecretText |-> TRUE, type |-> "string",
     required |-> required, narrow |-> narrow]

Login == [name |-> "login",
          fields |-> {Field("password", TRUE, FALSE),
                      [Field("note", TRUE, FALSE) EXCEPT !.hasSecretName = FALSE]}]
Find  == [name |-> "find", fields |-> {Field("token", FALSE, TRUE)}]

MCToolLists == {<<Login, Find>>, <<Find>>}

Text(value, shows) == [value |-> value, shows |-> shows]

MCAnswers == {[ok |-> TRUE, text |-> Text(1, {})], [ok |-> TRUE, text |-> Text(2, {"canary"})],
              [ok |-> FALSE, text |-> Text(NONE, {})]}
=============================================================================
