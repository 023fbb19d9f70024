------------------------------- MODULE Forms -------------------------------
(***************************************************************************)
(* v2/modules/config_ui: form_builder.py, field_widgets.py and             *)
(* list_editor.py.  The tree of widgets that is built for a value and its  *)
(* schema, what the user can do to it in one gesture, and the value that   *)
(* it gives back.                                                          *)
(*                                                                         *)
(* Values are what goes through the bus as JSON: a scalar with its Python  *)
(* type, a dict, a list, None.  A schema is a scalar, the fields of a      *)
(* message, a list of either, or the branches of a oneof, of which the     *)
(* first is the active one (shared/config_schema.py).                      *)
(***************************************************************************)
EXTENDS Naturals, Sequences, SequencesExt

CONSTANTS
  Digits,   \* texts that int() accepts
  Typing,   \* texts that the user types
  MaxRows   \* rows of a list to which the user adds another

ASSUME TypingAssumption == "0" \in Digits /\ MaxRows \in Nat

Number(n)  == [py |-> "int", is |-> n]
Text(s)    == [py |-> "str", is |-> s]
Bool(b)    == [py |-> "bool", is |-> IF b THEN "True" ELSE "False"]
Dict(f)    == [dict |-> f]
List(s)    == [list |-> s]
None       == [none |-> TRUE]
Empty      == [k \in {} |-> None]

\* ConfigFieldSchema, ConfigFieldMessage, ConfigFieldList, ConfigFieldOneof
Scalar(type, default, choices) ==
  [scalar |-> type, default |-> default, choices |-> choices]
MessageOf(fields, optional) == [fields |-> fields, optional |-> optional]
ListOf(item) == [item |-> item]
OneOf(branches, active) == [branches |-> branches, active |-> active]

IsScalar(s)  == "scalar" \in DOMAIN s
IsMessage(s) == "fields" \in DOMAIN s
IsOneOf(s)   == "branches" \in DOMAIN s

IsDict(v) == DOMAIN v = {"dict"}

\* build_default_value()
DefaultValue(s) ==
  CASE IsScalar(s) -> s.default
    [] IsMessage(s) -> Dict(Empty)
    [] IsOneOf(s) -> None
    [] OTHER -> List(<<>>)

-----------------------------------------------------------------------------
(* The widgets.                                                            *)

\* _FieldWidget.__init__() and its builders: a line to edit, a choice or a box
\* to tick.  What a choice does not offer is shown as the first that it offers,
\* which is the default, and what is no number as 0; None is shown as "".
FieldWidget(s, v) ==
  LET text == IF v = None THEN "" ELSE v.is IN
  CASE s.scalar = "int"    -> [line |-> IF text \in Digits THEN text ELSE "0"]
    [] s.scalar = "string" -> [line |-> text]
    [] s.scalar = "enum"   -> [choice |-> IF text \in s.choices THEN text ELSE s.default.is]
    [] s.scalar = "bool"   -> [ticked |-> text \in {"True", "1"}]

\* _OneofWidget.__init__(): the branch that is shown for a value is one that the
\* value names, otherwise the first; none for None.
BranchShown(s, v) ==
  LET named == IF IsDict(v) THEN DOMAIN s.branches \cap DOMAIN v.dict ELSE {}
  IN CASE v = None -> "none"
       [] v # None /\ named # {} -> CHOOSE b \in named : TRUE
       [] OTHER -> s.active

\* build_form_for_schema(), _OptionalMessageWidget, _OneofWidget, _ListEditor,
\* _ScalarListEditor
RECURSIVE Form(_, _)
Form(s, v) ==
  LET data == IF IsDict(v) THEN v.dict ELSE Empty
      FieldForm(k) ==
        Form(s.fields[k],
             IF k \in DOMAIN data THEN data[k] ELSE DefaultValue(s.fields[k]))
      Body == [form |-> [k \in DOMAIN s.fields |-> FieldForm(k)]]
      branch == BranchShown(s, v)
      BranchForm ==
        Form(s.branches[branch],
             CASE ~ IsDict(v) -> v
               [] branch \in DOMAIN data -> data[branch]
               [] OTHER -> None)
  IN CASE IsScalar(s) -> FieldWidget(s, v)
       [] IsMessage(s) /\ s.optional -> [active |-> data # Empty, body |-> Body]
       [] IsMessage(s) /\ ~ s.optional -> Body
       [] IsOneOf(s) ->
            [branch |-> branch, body |-> IF branch = "none" THEN None ELSE BranchForm]
       [] OTHER -> [rows |-> [i \in DOMAIN v.list |-> Form(s.item, v.list[i])]]

\* _FieldWidget.get_value()
FieldGiven(w) ==
  CASE DOMAIN w = {"line"}   -> Text(w.line)
    [] DOMAIN w = {"choice"} -> Text(w.choice)
    [] DOMAIN w = {"ticked"} -> Bool(w.ticked)

IsField(w) == DOMAIN w \in {{"line"}, {"choice"}, {"ticked"}}
IsOneOfWidget(w) == DOMAIN w = {"branch", "body"}

\* Fault: the box beside an optional message is not looked at.
RECURSIVE GivenTickedOrNot(_)
GivenTickedOrNot(w) ==
  CASE IsField(w) -> FieldGiven(w)
    [] DOMAIN w = {"rows"} -> List([i \in DOMAIN w.rows |-> GivenTickedOrNot(w.rows[i])])
    [] DOMAIN w = {"form"} ->
         Dict([k \in {f \in DOMAIN w.form : GivenTickedOrNot(w.form[f]) # None} |->
                 GivenTickedOrNot(w.form[k])])
    [] IsOneOfWidget(w) /\ w.body = None -> None
    [] OTHER -> GivenTickedOrNot(w.body)

\* get_value() of each widget: an optional message whose box is not ticked and a
\* oneof of which no branch is chosen are left out of the dict.  A oneof gives
\* the value of its branch without the name of it.
RECURSIVE Given(_)
Given(w) ==
  CASE IsField(w) -> FieldGiven(w)
    [] DOMAIN w = {"rows"} -> List([i \in DOMAIN w.rows |-> Given(w.rows[i])])
    [] DOMAIN w = {"form"} ->
         Dict([k \in {f \in DOMAIN w.form : Given(w.form[f]) # None} |-> Given(w.form[k])])
    [] IsOneOfWidget(w) -> IF w.body = None THEN None ELSE Given(w.body)
    [] OTHER -> IF w.active THEN Given(w.body) ELSE None

-----------------------------------------------------------------------------
(* The user.                                                               *)

\* A field of which the user changes the text or the choice.
Retyped(s, w) ==
  CASE s.scalar \in {"int", "string"} -> {[line |-> t] : t \in Typing \ {w.line}}
    [] s.scalar = "enum" -> {[choice |-> c] : c \in s.choices \ {w.choice}}
    [] s.scalar = "bool" -> {[ticked |-> ~ w.ticked]}

\* _on_add() and _delete_item() of the list editors
RowsChanged(s, w) ==
  {[rows |-> RemoveAt(w.rows, i)] : i \in DOMAIN w.rows} \cup
  IF Len(w.rows) < MaxRows
    THEN {[rows |-> Append(w.rows, Form(s.item, DefaultValue(s.item)))]} ELSE {}

\* _on_branch_changed(): the branch chosen starts without a value.
Rebranched(s, w) ==
  {[branch |-> b, body |-> IF b = "none" THEN None ELSE Form(s.branches[b], None)] :
     b \in (DOMAIN s.branches \cup {"none"}) \ {w.branch}}

\* The forms that one gesture makes of a form.  What is under a box that is not
\* ticked keeps what was typed there, and is hidden.
RECURSIVE Touched(_, _)
Touched(s, w) ==
  LET InFields(f) ==
        UNION {{[f EXCEPT ![k] = x] : x \in Touched(s.fields[k], f[k])} : k \in DOMAIN f}
  IN CASE IsScalar(s) -> Retyped(s, w)
       [] IsMessage(s) /\ s.optional ->
            {[w EXCEPT !.active = ~ @]} \cup
            IF w.active THEN {[w EXCEPT !.body.form = f] : f \in InFields(w.body.form)}
                        ELSE {}
       [] IsMessage(s) /\ ~ s.optional -> {[form |-> f] : f \in InFields(w.form)}
       [] IsOneOf(s) ->
            Rebranched(s, w) \cup
            IF w.branch = "none" THEN {}
              ELSE {[w EXCEPT !.body = x] : x \in Touched(s.branches[w.branch], w.body)}
       [] OTHER ->
            RowsChanged(s, w) \cup
            UNION {{[rows |-> [w.rows EXCEPT ![i] = x]] : x \in Touched(s.item, w.rows[i])} :
                     i \in DOMAIN w.rows}
=============================================================================
