------------------------------ MODULE ToolForm ------------------------------
(***************************************************************************)
(* The form that the task console shows for a tool (web/lib/tooling.ts,    *)
(* the form's code in web/app/console/console-client.tsx), what it sends,  *)
(* and what the interface takes (validatePayload of web/lib/mock-api.ts).  *)
(* A text is empty, blank (spaces only) or has something in it; a number's *)
(* field is empty or holds a number that is not negative.                  *)
(***************************************************************************)
EXTENDS FiniteSets

Tool == {"remote_exec", "remote_read_file", "remote_write_file", "remote_patch_file",
         "remote_list_files"}

(* TOOL_DEFINITIONS: a tool's fields, by kind, and those that must be      *)
(* filled in.                                                              *)
Texts == [t \in Tool |->
  CASE t = "remote_exec" -> {"workdir", "command"}
    [] t = "remote_write_file" -> {"path", "content"}
    [] t = "remote_patch_file" -> {"path", "old_string", "new_string"}
    [] OTHER -> {"path"}]

Numbers == [t \in Tool |->
  CASE t = "remote_exec" -> {"timeout_seconds"}
    [] t = "remote_read_file" -> {"offset", "limit"}
    [] t = "remote_list_files" -> {"max_entries"}
    [] OTHER -> {}]

Boxes == [t \in Tool |-> IF t = "remote_patch_file" THEN {"replace_all"} ELSE {}]

Required == [t \in Tool |-> Texts[t] \cup (Numbers[t] \cap {"timeout_seconds"})]

(* FieldControl: what the user can leave in the fields of a tool; the      *)
(* browser does not submit a form with an empty required field.            *)
Values(tool) ==
  {values \in [Texts[tool] \cup Numbers[tool] \cup Boxes[tool] ->
                 {"", "blank", "text", "number", "ticked", "unticked"}] :
     /\ \A f \in Texts[tool] : values[f] \in {"", "blank", "text"}
     /\ \A f \in Numbers[tool] : values[f] \in {"", "number"}
     /\ \A f \in Boxes[tool] : values[f] \in {"ticked", "unticked"}
     /\ \A f \in Required[tool] : values[f] # ""}

(* normalizePayload: a number that is not there is left out.               *)
Payload(tool, values) ==
  [f \in {g \in DOMAIN values : g \in Numbers[tool] => values[g] # ""} |-> values[f]]

(* requiredString, optionalNumber, validatePayload.                        *)
Accepted(tool, payload) ==
  /\ \A f \in Texts[tool] : f \in DOMAIN payload /\ payload[f] \notin {"", "blank"}
  /\ \A f \in Numbers[tool] : f \in DOMAIN payload => payload[f] \in {"", "number"}
  /\ \A f \in Boxes[tool] : f \in DOMAIN payload => payload[f] \in {"ticked", "unticked"}

(* Whether the server takes what a form sends: both happen.                *)
Verdicts ==
  UNION {{Accepted(tool, Payload(tool, values)) : values \in Values(tool)} : tool \in Tool}
=============================================================================
