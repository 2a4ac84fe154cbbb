------------------------------- MODULE Vetting -------------------------------
(***************************************************************************)
(* What stands between the option a plan recommends and the outside        *)
(* world, apart from the policies: Zod and the critic                      *)
(* (core/policy/schema.validator.ts, core/critic/critic.service.ts), the   *)
(* capability registry (core/policy/capability.registry.ts) with the       *)
(* boundary checks of evaluateProposal                                     *)
(* (core/governor/governor.service.ts), and the checks of the transfer     *)
(* tool (core/operator/tools/transfer-funds.tool.ts).  Pure functions of   *)
(* one option.                                                             *)
(*                                                                         *)
(* Parameters are untyped: a value is a number, something else or absent.  *)
(* A text is reduced to the families of patterns found in it.              *)
(***************************************************************************)
EXTENDS Integers

Tools == {"READ_DATABASE", "MODIFY_DATABASE", "TRANSFER_FUNDS", "HTTP_REQUEST",
          "FILE_SYSTEM_OPERATOR", "SLACK_OPERATOR", "ZENDESK_OPERATOR",
          "POSTGRESQL_QUERY"}

DatabaseActions == {"POSTGRESQL_QUERY", "MODIFY_DATABASE"}

\* The lists of patterns the critic scans all text for.
Families == {"sql", "instruction", "outbound", "sensitive"}

Value == [kind : {"number", "other", "absent"}, n : Int]

Option ==
  [tool       : Tools \cup {"unknown"},
   wellFormed : BOOLEAN,   \* do parameters and riskEstimate have the types of the schema?
   given      : BOOLEAN,   \* are there any parameters?
   allowed    : BOOLEAN,   \* do they satisfy the tool's allowedParameterSchema, if any?
   found      : SUBSET Families,
   statement  : {"none", "definition", "unboundedDelete", "other"},  \* query, or else sql
   amount     : Value,
   rows       : Value,     \* limit ?? maxRows ?? count
   currency   : {"absent", "USD", "foreign"},
   recipient  : BOOLEAN]

-----------------------------------------------------------------------------
\* BaseProposalSchema.
Malformed(o) == o.tool \notin Tools \/ ~ o.wellFormed

\* critic.evaluate finds one of its reasons.
Criticised(o) ==
  \/ ~ o.given
  \/ Malformed(o)
  \/ "sql" \in o.found /\ o.tool \notin DatabaseActions
  \/ o.found \cap {"instruction", "outbound"} # {}
  \/ "sensitive" \in o.found /\ o.tool \in {"HTTP_REQUEST", "SLACK_OPERATOR"}
  \/ o.tool \in DatabaseActions /\ o.statement \in {"definition", "unboundedDelete"}

-----------------------------------------------------------------------------
(***************************************************************************)
(* The registry binds each tool to one capability.  A limit of 0 is none.  *)
(***************************************************************************)

Capability(review, scoped, maxAmount, maxRows, currency) ==
  [review |-> review, scoped |-> scoped, maxAmount |-> maxAmount, maxRows |-> maxRows,
   currency |-> currency]

Reading  == Capability(FALSE, TRUE, 0, 1000, "any")
Moving   == Capability(TRUE, TRUE, 1000, 0, "USD")
Reviewed == Capability(TRUE, FALSE, 0, 0, "any")
Free     == Capability(FALSE, FALSE, 0, 0, "any")

CapabilityOf(tool) ==
  CASE tool \in {"READ_DATABASE", "POSTGRESQL_QUERY"}  -> Reading
    [] tool = "TRANSFER_FUNDS"                         -> Moving
    [] tool \in {"MODIFY_DATABASE", "HTTP_REQUEST"}    -> Reviewed
    [] OTHER                                           -> Free

\* maxRowsAffected of the tool's contract.
MaxRowsAffected(tool) ==
  CASE tool = "READ_DATABASE"                         -> 100
    [] tool = "POSTGRESQL_QUERY"                      -> 1000
    [] tool = "MODIFY_DATABASE"                       -> 10
    [] tool \in {"TRANSFER_FUNDS", "HTTP_REQUEST"}    -> 0
    [] OTHER                                          -> 1

NeedsReview(o) == CapabilityOf(o.tool).review

\* Only a number is compared with a limit.
Beyond(value, limit) == value.kind = "number" /\ limit > 0 /\ value.n > limit

\* A wrong form of Misvalued: the limit of another capability is looked up.
MisvaluedElse(o) ==
  \/ o.amount.kind = "number" /\ o.amount.n <= 0
  \/ Beyond(o.amount, Reading.maxAmount)

Misvalued(o) ==
  \/ o.amount.kind = "number" /\ o.amount.n <= 0
  \/ Beyond(o.amount, CapabilityOf(o.tool).maxAmount)

\* The first check of evaluateProposal that fails throws GovernorRejectionError.
OutOfBounds(o) ==
  \/ o.tool \notin Tools
  \/ ~ o.allowed
  \/ Beyond(o.rows, MaxRowsAffected(o.tool))
  \/ /\ CapabilityOf(o.tool).scoped
     /\ \/ Misvalued(o)
        \/ Beyond(o.rows, CapabilityOf(o.tool).maxRows)
        \/ CapabilityOf(o.tool).currency = "USD" /\ o.currency = "foreign"

-----------------------------------------------------------------------------
Balance == 50000

IsTransfer(o) == o.tool = "TRANSFER_FUNDS"

\* TransferFundsOperator.execute, but for the injected maxAmount.
Transferable(o) ==
  /\ IsTransfer(o)
  /\ o.recipient
  /\ o.amount.kind = "number"
  /\ o.amount.n > 0
  /\ o.amount.n <= Balance
=============================================================================
