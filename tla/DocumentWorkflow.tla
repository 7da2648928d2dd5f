-------------------------- MODULE DocumentWorkflow --------------------------
(***************************************************************************)
(* The life of one document as the editorial rules have it: every step is  *)
(* decided on the document as it is at that moment, never on an older copy *)
(* of it, and leaves one revision behind.                                  *)
(***************************************************************************)
EXTENDS Sequences

CONSTANTS Contents, NoContent

VARIABLES
  status,     \* of the document; "absent" before, "deleted" after its life
  draft,      \* what its author and the editors work on
  published,  \* the snapshot visitors read, or NoContent
  history     \* its revisions: the draft as every step left it

workflowVars == <<status, draft, published, history>>

WorkflowInit ==
  /\ status = "absent"
  /\ draft = NoContent
  /\ published = NoContent
  /\ history = <<>>

Recorded == history' = Append(history, draft')

Create(x) ==
  /\ status = "absent"
  /\ status' = "draft"
  /\ draft' = x
  /\ Recorded
  /\ UNCHANGED published

Edit(x) ==
  /\ status \in {"draft", "review", "published"}
  /\ draft' = x
  /\ Recorded
  /\ UNCHANGED <<status, published>>

\* Submit for review, return to the draft, move to the trash and back again:
\* steps that change the status only.
Move(from, to) ==
  /\ status \in from
  /\ status' = to
  /\ Recorded
  /\ UNCHANGED <<draft, published>>

Publish ==
  /\ status \in {"draft", "review", "published"}
  /\ status' = "published"
  /\ published' = draft
  /\ Recorded
  /\ UNCHANGED draft

Unpublish ==
  /\ status \in {"draft", "review", "published"}
  /\ published # NoContent
  /\ status' = "draft"
  /\ published' = NoContent
  /\ Recorded
  /\ UNCHANGED draft

Delete ==
  /\ status \notin {"absent", "deleted"}
  /\ status' = "deleted"
  /\ draft' = NoContent
  /\ published' = NoContent
  /\ history' = <<>>

WorkflowNext ==
  \/ \E x \in Contents : Create(x) \/ Edit(x)
  \/ Move({"draft", "published"}, "review")
  \/ Move({"review"}, "draft")
  \/ Move({"draft", "review", "published"}, "archived")
  \/ /\ published # NoContent
     /\ Move({"archived"}, "published")
  \/ /\ published = NoContent
     /\ Move({"archived"}, "draft")
  \/ Publish \/ Unpublish \/ Delete

WorkflowSpec == WorkflowInit /\ [][WorkflowNext]_workflowVars
=============================================================================
