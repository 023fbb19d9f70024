---------------------------- MODULE ConfigSchema ----------------------------
(***************************************************************************)
(* v2/shared/config_schema.py and v2/modules/config_ui/field_widgets.py:   *)
(* the values of a configuration, the check and conversion that            *)
(* config_manager makes before it stores one, and what the widget built    *)
(* for a stored value gives back.                                          *)
(*                                                                         *)
(* A value is a record of its Python type and what it stands for, so that  *)
(* 10 and "10" differ as they do on the bus.                               *)
(***************************************************************************)
EXTENDS Naturals, FiniteSets

CONSTANTS
  Keys,      \* the fields of the module's schema
  Kind,      \* the kind of each
  Numbers,   \* numbers within the limits of an int field
  Options,   \* the choices of an enum field
  Garbage,   \* texts that neither accepts
  Place,     \* the place of each field in the file: they are written in their order
  Beginnings \* what is left of a text or a number of which only the beginning is written

Kinds == {"int", "bool", "enum", "string", "optional"}
Words == {"on", "off"}
Texts == Numbers \cup Options \cup Garbage

ASSUME KindAssumption == Kind \in [Keys -> Kinds] /\ IsFiniteSet(Keys)
ASSUME TextAssumption ==
  /\ Numbers # {} /\ Options # {} /\ "" \notin Texts
  /\ Garbage \cap (Numbers \cup Options) = {}
ASSUME WrittenAssumption ==
  Place \in [Keys -> Nat] /\ Beginnings \in [Texts \cup Words -> SUBSET Texts]

Number(n)  == [type |-> "int", of |-> n]
Bool(b) == [type |-> "bool", of |-> b]
Text(s) == [type |-> "text", of |-> s]
Message == [type |-> "message", of |-> ""]  \* the fields of an optional message
None    == [type |-> "none", of |-> ""]

\* Settings are a function from some of the fields to their values.
Nothing == [k \in {} |-> None]

\* Not a value: the conversion raises ValueError.
Rejected == [type |-> "rejected", of |-> ""]

\* What a field of each kind holds once it has been validated.
Typed(kind) ==
  CASE kind = "int"      -> {Number(n) : n \in Numbers}
    [] kind = "bool"     -> {Bool(b) : b \in Words}
    [] kind = "enum"     -> {Text(c) : c \in Options}
    [] kind = "string"   -> {Text(s) : s \in Texts}
    [] kind = "optional" -> {Message, None}

\* validate_value(); a structured field is stored as it is.
Coerced(kind, v) ==
  CASE kind = "int" /\ v.type \in {"int", "text"} /\ v.of \in Numbers -> Number(v.of)
    [] kind = "bool" /\ v.type \in {"bool", "text"} /\ v.of \in Words -> Bool(v.of)
    [] kind = "enum" /\ v.type = "text" /\ v.of \in Options -> v
    [] kind = "string" /\ v.type = "text" -> v
    [] kind = "optional" -> v
    [] OTHER -> Rejected

\* What may be read of a value that has been written in part, or with nothing
\* behind its colon: the rest of a number is a number, that of a word a text.
Rests(v) == IF v.type \in {"int", "bool", "text"} THEN Beginnings[v.of] ELSE {}

Cut(v) ==
  {v, None} \cup {IF v.type = "int" THEN Number(t) ELSE Text(t) : t \in Rests(v)}

\* The settings up to one that is cut.
UpTo(c, last, v) ==
  [k \in {j \in DOMAIN c : Place[j] <= Place[last]} |-> IF k = last THEN v ELSE c[k]]

\* What may be read of a file of which only the beginning is written; nothing, when
\* the cut is in a name.
Torn(c) ==
  {Nothing} \cup UNION {{UpTo(c, last, v) : v \in Cut(c[last])} : last \in DOMAIN c}

\* _FieldWidget, _OptionalMessageWidget: what a widget gives for the value it was
\* built from.  An int field without both limits is a line to edit: it gives text.
Shown(kind, v) ==
  CASE kind = "int"    -> Text(IF v.type = "int" THEN v.of ELSE "0")
    [] kind = "bool"   -> IF v.type = "bool" THEN v ELSE Bool("off")
    [] kind = "enum"   -> IF v \in Typed(kind) THEN v ELSE CHOOSE c \in Typed(kind) : TRUE
    [] kind = "string" -> Text(v.of)
    [] OTHER           -> v

\* What _on_save() compares that with.
Compared(kind, v) == IF kind = "bool" THEN Shown(kind, v) ELSE v

\* What the user can make a widget give.
Entered(kind) ==
  CASE kind = "int" -> {Text(s) : s \in Numbers \cup Garbage \cup {""}}
    [] kind = "string" -> Typed("string") \cup {Text("")}
    [] OTHER -> Typed(kind)
=============================================================================
