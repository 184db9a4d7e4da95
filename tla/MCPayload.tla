------------------------------ MODULE MCPayload ------------------------------
(***************************************************************************)
(* A model-checking instance of Payload.                                   *)
(***************************************************************************)
EXTENDS Payload

\* Two usable keys, one without a context key, and one that is longer than a
\* string may be.
MCKeys == {"id", "Name", "x.y", "long"}
MCKeyBytes == [k \in MCKeys |-> IF k = "long" THEN 3 ELSE 1]
MCNormalized == [k \in MCKeys |-> CASE k = "id" -> "id" [] k = "Name" -> "name" [] OTHER -> "no key"]

Unit(char, escaped) == [char |-> char, escaped |-> escaped]

\* The empty string, a written as an escape, a line break, a bare line break
\* (not JSON), and strings of the greatest length and of one more.
MCTexts == {<<>>, <<Unit("a", TRUE)>>, <<Unit("nl", TRUE)>>, <<Unit("nl", FALSE)>>,
            [i \in 1..2 |-> Unit("a", FALSE)], [i \in 1..3 |-> Unit("a", FALSE)]}
MCControls == {"nl"}
MCNewValues == {<<"a">>, <<"nl">>, <<"a", "a", "a">>}
=============================================================================
