---------------------------- MODULE MCInterceptor ----------------------------
(***************************************************************************)
(* Model-checking instances of Interceptor.                                *)
(***************************************************************************)
EXTENDS Interceptor, TLC

\* Values of two kinds: a and b secrets, k and l mail addresses.
MCValues == {"a", "b", "k", "l"}
MCKinds == {"secret", "email"}
MCKindOf == [v \in MCValues |-> IF v \in {"k", "l"} THEN "email" ELSE "secret"]
MCCredential == {2}
MCLabels == {"[SECRET]", "[EMAIL]"}

MCPolicy == [mode |-> "redact", onError |-> "block", found |-> {"a"}, blocked |-> {},
             replacement |-> [k \in MCKinds |-> IF k = "email" THEN "[EMAIL]" ELSE "[SECRET]"],
             recognised |-> FALSE, skip |-> FALSE, logged |-> FALSE]

\* Auditing, which forwards what it finds and fingerprints it, is replaced by
\* redaction with a blocking rule under on_error: passthrough, and then by a
\* skip list.
Revisions == <<[MCPolicy EXCEPT !.mode = "audit"],
               [MCPolicy EXCEPT !.found = {"a", "k"}, !.blocked = {"k"},
                                !.onError = "passthrough"],
               [MCPolicy EXCEPT !.skip = TRUE]>>

Audited == <<[MCPolicy EXCEPT !.mode = "audit", !.logged = TRUE]>>

\* One policy for the whole run, which removes mail addresses.
Strict == <<[MCPolicy EXCEPT !.found = {"a", "b", "k", "l"}, !.replacement["email"] = ""]>>

\* A mail address, which is removed, beside a credential, which is numbered.
TwoTexts == {<<<<"k">>, <<"a">>>>, <<<<"l">>, <<"b">>>>}
OneText == {<<<<"a">>>>}
EmptyOrOne == {<<>>, <<<<"a">>>>, <<<<"k">>>>}

Symmetry == Permutations(Threads)
=============================================================================
