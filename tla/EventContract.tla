---------------------------- MODULE EventContract ----------------------------
(***************************************************************************)
(* The wire contract of one kind of event: what its Values emits, what its *)
(* Parse reads, and the schema recorded in schema.json, with the two       *)
(* checks of CI.  Payloads and schemas are functions on all field names,   *)
(* NULL where a field is absent; a payload gives the type of each field    *)
(* after the trip through JSON (what DecodePayload makes of it).           *)
(***************************************************************************)
CONSTANTS Field, Type, NULL

ASSUME TypeAssumption == NULL \notin Type

Entry   == [type : Type, optional : BOOLEAN]
Payload == [Field -> Type \cup {NULL}]
Schema  == [Field -> Entry \cup {NULL}]

(* A state of the code: Values of a filled event, what Parse asks for with *)
(* eventfield.Required and eventfield.Optional, and schema.json beside it. *)
Contract == [values : Payload, parse : Schema, recorded : Schema]

-----------------------------------------------------------------------------
(* eventfield: a field of another type is refused; an optional one may be  *)
(* absent.                                                                 *)
Required(values, f, type) == values[f] = type
Optional(values, f, type) == values[f] = NULL \/ values[f] = type

(* Parse of a contract on a payload that may be from another version.      *)
Parse(c, values) ==
  \A f \in Field : c.parse[f] # NULL =>
    IF c.parse[f].optional THEN Optional(values, f, c.parse[f].type)
                           ELSE Required(values, f, c.parse[f].type)

-----------------------------------------------------------------------------
(* Check, in the unit tests: the record is what the code does.  Leaving a  *)
(* recorded field out is accepted exactly when it is recorded as optional. *)
CheckParse(c) ==
  /\ Parse(c, c.values)
  /\ \A f \in Field : c.recorded[f] # NULL /\ c.values[f] # NULL =>
       (c.recorded[f].optional <=> Parse(c, [c.values EXCEPT ![f] = NULL]))

Check(c) ==
  /\ \A f \in Field : c.recorded[f] = NULL <=> c.values[f] = NULL
  /\ \A f \in Field : c.recorded[f] # NULL => c.recorded[f].type = c.values[f]
  /\ CheckParse(c)

\* BUG: a field may be removed at once.
CompatibleRemoving(previous, current) ==
  \A f \in Field : previous[f] # NULL /\ current[f] # NULL =>
    current[f].type = previous[f].type

(* CheckSchemas, of eventcompat: the record of the main branch against the *)
(* one of a pull request.                                                  *)
Compatible(previous, current) ==
  \A f \in Field : previous[f] # NULL =>
    IF current[f] = NULL THEN previous[f].optional
                         ELSE current[f].type = previous[f].type
=============================================================================
