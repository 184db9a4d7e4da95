------------------------------ MODULE MCWalker ------------------------------
(* Small instances of Walker for TLC. *)
EXTENDS Walker, ProtocolWalkers

MCStrings == 1 .. MaxNodes

Bound(members, way, again) == [members |-> members, way |-> way, again |-> again]

\* Two optional members anywhere, or one beyond a way that is long enough to
\* enter every function of the protocol, or to enter one again that calls itself:
\* a function call of Gemini among the parts of a function response.
MCBounds ==
    [openai |-> {Bound(2, 0, 0), Bound(1, 6, 0)},
     claude |-> {Bound(1, 8, 0)},
     gemini |-> {Bound(2, 10, 0), Bound(1, 10, 1)},
     interactions |-> {Bound(2, 0, 0), Bound(1, 2, 0)},
     responses |-> {Bound(2, 0, 0), Bound(1, 8, 0)}]
=============================================================================
