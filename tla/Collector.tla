------------------------------ MODULE Collector ------------------------------
(***************************************************************************)
(* The string dispositions of the protocol walkers (collector in           *)
(* walker/common.go, Walk in walker/registry.go).                          *)
(*                                                                         *)
(* Whatever a protocol walker does, it does through the collector: it      *)
(* selects strings as targets, marks strings opaque, reports subtrees as   *)
(* unsupported, or gives up with an error.  At the end every string that   *)
(* has no disposition is reported as unsupported too, and a result with    *)
(* anything unsupported is refused by its caller.  This module is that     *)
(* contract for an arbitrary walker; the module Walker implements it.      *)
(*                                                                         *)
(* A string is named by its offset.  The document is revealed as it is     *)
(* walked: a string becomes known when the walker, or the final pass,      *)
(* meets it.  Bytes charged to the structural budget are abstracted: any   *)
(* call may find the budget exhausted, or the context cancelled.           *)
(***************************************************************************)
EXTENDS Naturals

CONSTANT Strings      \* names of the strings a document may hold

VARIABLES strings,     \* the strings of the document that have been met
          targets,     \* strings the redactor may rewrite
          opaque,      \* strings protected as control or integrity data
          rejected,    \* strings reported as unsupported
          unsupported, \* whether anything has been reported as unsupported
          status       \* "walking", "done", or the error that ended the walk

collector == <<strings, targets, opaque, rejected, unsupported, status>>

Errors == {"shape", "ambiguous", "internal", "limit", "cancelled"}

-----------------------------------------------------------------------------
CollectorInit ==
    /\ strings = {} /\ targets = {} /\ opaque = {} /\ rejected = {}
    /\ unsupported = FALSE
    /\ status = "walking"

\* The walk ends with an error and without a result: an invalid or ambiguous
\* shape, an exhausted budget, or a cancelled context.
Refuse(reason) ==
    /\ status = "walking"
    /\ status' = reason
    /\ strings' = {} /\ targets' = {} /\ opaque' = {} /\ rejected' = {}
    /\ unsupported' = FALSE

\* Faulty variant: the strings that get a disposition are not recorded.
UnrecordedVariant(S, taken) ==
    /\ strings' = strings
    /\ status' = IF S \cap taken = {} THEN status ELSE "internal"

\* A disposition the strings S cannot take, because some of them have one of
\* those in taken, is an internal error.
Claim(S, taken) ==
    /\ strings' = strings \cup S
    /\ status' = IF S \cap taken = {} THEN status ELSE "internal"

\* collector.add, for one string or, through walkStringValues, for every string
\* of a subtree: no string is selected twice, or against its disposition.
AddTargets(S) ==
    /\ status = "walking"
    /\ Claim(S, targets \cup opaque \cup rejected)
    /\ targets' = targets \cup (S \ (opaque \cup rejected))
    /\ UNCHANGED <<opaque, rejected, unsupported>>

\* collector.markOpaque, on all strings of a subtree; marking twice is allowed.
MarkOpaque(S) ==
    /\ status = "walking"
    /\ Claim(S, targets \cup rejected)
    /\ opaque' = opaque \cup (S \ (targets \cup rejected))
    /\ UNCHANGED <<targets, rejected, unsupported>>

\* countUndisposedStrings and markUnsupportedStrings look at the same strings.
Undisposed(S) == S \ (targets \cup opaque \cup rejected)

\* Faulty variant: only shapes with strings left to reject are reported.
ReportUndisposedVariant(S) ==
    /\ status = "walking"
    /\ strings' = strings \cup S
    /\ rejected' = rejected \cup Undisposed(S)
    /\ unsupported' = (unsupported \/ Undisposed(S) # {})
    /\ UNCHANGED <<targets, opaque, status>>

\* collector.unsupported: the shape is reported, and those of its strings that
\* have no disposition yet are rejected.
ReportUnsupported(S) ==
    /\ status = "walking"
    /\ strings' = strings \cup S
    /\ rejected' = rejected \cup Undisposed(S)
    /\ unsupported' = TRUE
    /\ UNCHANGED <<targets, opaque, status>>

\* Faulty variant: the final pass looks only at strings the walker has met.
EnsureMetVariant(S) ==
    /\ status = "walking"
    /\ strings' = strings \cup S
    /\ rejected' = rejected \cup Undisposed(strings)
    /\ unsupported' = (unsupported \/ Undisposed(strings) # {})
    /\ status' = "done"
    /\ UNCHANGED <<targets, opaque>>

\* ensureStringDisposition and finish: S are the strings the walker never met.
EnsureStringDisposition(S) ==
    /\ status = "walking"
    /\ strings' = strings \cup S
    /\ rejected' = rejected \cup Undisposed(strings \cup S)
    /\ unsupported' = (unsupported \/ Undisposed(strings \cup S) # {})
    /\ status' = "done"
    /\ UNCHANGED <<targets, opaque>>

CollectorNext ==
    \/ \E reason \in Errors : Refuse(reason)
    \/ \E S \in SUBSET Strings :
          AddTargets(S) \/ MarkOpaque(S) \/ ReportUnsupported(S) \/ EnsureStringDisposition(S)

CollectorSpec == CollectorInit /\ [][CollectorNext]_collector

-----------------------------------------------------------------------------
(* Properties *)

CollectorTypeOK ==
    /\ strings \subseteq Strings
    /\ targets \subseteq strings /\ opaque \subseteq strings /\ rejected \subseteq strings
    /\ unsupported \in BOOLEAN
    /\ status \in {"walking", "done"} \cup Errors

\* sanitizeRequestWithRenderer goes on only with a result without unsupported
\* shapes.
Accepted == status = "done" /\ ~unsupported

\* README: "Assigns every string in a recognized protocol object one explicit
\* disposition".  A body that is accepted has no string outside the targets and
\* the opaque ones, and none is both: whatever a walker forgets is refused.
EveryStringDisposed ==
    /\ targets \cap opaque = {}
    /\ targets \cap rejected = {}
    /\ opaque \cap rejected = {}
    /\ Accepted => strings = targets \cup opaque

=============================================================================
