----------------------------- MODULE MCGovernor -----------------------------
(***************************************************************************)
(* Governor on small instances: the options recommended and the policies a *)
(* list is made of.                                                        *)
(***************************************************************************)
EXTENDS Governor

Number(k) == [kind |-> "number", n |-> k]
Text      == [kind |-> "other", n |-> 0]
Absent    == [kind |-> "absent", n |-> 0]

\* An option nothing speaks against.
Plain(tool) ==
  [tool |-> tool, wellFormed |-> TRUE, given |-> TRUE, allowed |-> TRUE, found |-> {},
   statement |-> "none", amount |-> Absent, rows |-> Absent, currency |-> "absent",
   recipient |-> TRUE]

Transfer(amount, currency) ==
  [Plain("TRANSFER_FUNDS") EXCEPT !.amount = amount, !.currency = currency]

\* Transfers around each limit, row counts around theirs, and what each check of the
\* critic and of the evaluation is there for.
MCOptions ==
  {Transfer(amount, currency) :
     amount \in {Number(k) : k \in {0, 300, 1000, 1001}} \cup {Text, Absent},
     currency \in {"absent", "USD", "foreign"}}
  \cup {[Plain(tool) EXCEPT !.rows = Number(k)] :
          tool \in {"READ_DATABASE", "MODIFY_DATABASE"}, k \in {10, 11, 101}}
  \cup {[Plain("POSTGRESQL_QUERY") EXCEPT !.statement = s, !.found = {"sql"}] :
          s \in {"definition", "unboundedDelete", "other"}}
  \cup {[Plain("HTTP_REQUEST") EXCEPT !.found = f] : f \in {{"sensitive"}, {"outbound"}}}
  \cup {Plain("unknown"), [Plain("SLACK_OPERATOR") EXCEPT !.allowed = FALSE],
        [Plain("ZENDESK_OPERATOR") EXCEPT !.found = {"sensitive"}],
        [Plain("ZENDESK_OPERATOR") EXCEPT !.given = FALSE],
        [Plain("TRANSFER_FUNDS") EXCEPT !.amount = Number(300), !.recipient = FALSE]}

P(rule, level, covers, met, cap) ==
  [rule |-> rule, risk |-> level, covers |-> covers, met |-> met, cap |-> cap]

\* Each rule firing, at different risks and with different limits; one that targets
\* another action, one whose condition is not met.
MCPolicies ==
  {P("DENY", 3, TRUE, TRUE, 0), P("ESCALATE", 2, TRUE, TRUE, 0),
   P("ESCALATE", 0, TRUE, TRUE, 0), P("CONSTRAINT", 1, TRUE, TRUE, 0),
   P("CONSTRAINT", 3, TRUE, TRUE, 200), P("CONSTRAINT", 0, TRUE, TRUE, 500),
   P("DUAL_APPROVAL", 3, TRUE, TRUE, 0), P("DENY", 3, FALSE, TRUE, 0),
   P("DENY", 3, TRUE, FALSE, 0)}
=============================================================================
