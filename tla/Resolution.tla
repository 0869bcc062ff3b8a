------------------------------ MODULE Resolution ------------------------------
(***************************************************************************)
(* The validation pass composed with what consumes and follows it: the    *)
(* deferred resolver, which takes the unres entries the pass queued once  *)
(* the document is read, and a caller that later changes the value of a   *)
(* leafref or instance-identifier leaf and checks it with lyv_data_value, *)
(* which resolves at once.                                                *)
(*                                                                         *)
(* A reference resolves when a live node of its target schema has its     *)
(* value (the path of a leafref or instance-identifier, abstracted to the *)
(* target schema RefTarget and value equality).  when and must entries    *)
(* evaluate an XPath expression that the model does not interpret: they   *)
(* may hold or not.                                                       *)
(***************************************************************************)
EXTENDS Validation

CONSTANTS
  RefTarget,  \* [Leafref \cup InstId -> Schemas], the schema a reference points at
  InstReq,    \* instance-identifier leaves with require-instance (type.info.inst.req > -1)
  MaxEdits    \* bound on the caller's value changes

ASSUME /\ RefTarget \in [Leafref \cup InstId -> Schemas]
       /\ InstReq \subseteq InstId /\ MaxEdits \in Nat /\ 0 \notin Nodes

VARIABLES
  lref,   \* value.leafref: the node a leafref leaf was resolved to, or Null
  edits   \* value changes the caller has made

rvars == <<vars, lref, edits>>

Null == 0

\* resolve_unres_data_item for a reference: the live nodes it may resolve to
Targets(vl, n) == {m \in t.live : NodeSchema[m] = RefTarget[NodeSchema[n]] /\ vl[m] = vl[n]}

\* the data types that leave references unresolved (LYD_OPT_FILTER, _EDIT, _GET, _GETCONFIG)
Unresolving == Mode \in {"FILTER", "EDIT", "GET", "GETCONFIG"}

\* mutant: a failed immediate resolution is not reported
lyv_data_value_ignorerc(vl, lr, n) ==
  LET s == NodeSchema[n]
      Now == IF Targets(vl, n) = {} THEN [ok |-> TRUE, lref |-> Null]
             ELSE [ok |-> TRUE, lref |-> Min(Targets(vl, n))]
  IN IF ~Leafish(s) THEN [ok |-> TRUE, lref |-> lr[n]]
     ELSE IF s \in Leafref
       THEN IF lr[n] = Null /\ ~Unresolving THEN Now ELSE [ok |-> TRUE, lref |-> lr[n]]
     ELSE IF s \in InstId /\ ~Unresolving /\ s \in InstReq THEN Now
     ELSE [ok |-> TRUE, lref |-> lr[n]]

(* lyv_data_value(node): a leafref that is not resolved yet, and an       *)
(* instance-identifier that requires its instance, are resolved at once   *)
(* unless the data type leaves references unresolved; a failed resolution *)
(* fails the call.  A leafref already resolved is not looked at again.    *)
lyv_data_value(vl, lr, n) ==
  LET s == NodeSchema[n]
      Now == IF Targets(vl, n) = {} THEN [ok |-> FALSE, lref |-> Null]
             ELSE [ok |-> TRUE, lref |-> Min(Targets(vl, n))]
  IN IF ~Leafish(s) THEN [ok |-> TRUE, lref |-> lr[n]]
     ELSE IF s \in Leafref
       THEN IF lr[n] = Null /\ ~Unresolving THEN Now ELSE [ok |-> TRUE, lref |-> lr[n]]
     ELSE IF s \in InstId /\ ~Unresolving /\ s \in InstReq THEN Now
     ELSE [ok |-> TRUE, lref |-> lr[n]]

RInit == Init /\ lref = [n \in Nodes |-> Null] /\ edits = 0

\* a step of the pass (the producer and the two validators)
Pass == Next /\ UNCHANGED <<lref, edits>>

(* resolve_unres_data: once the document is read, one queued entry is     *)
(* resolved and taken off the queue; a failure ends the pass with an      *)
(* error.  A reference keeps the node it resolved to.                     *)
Resolve(e) ==
  LET n == e[1]
      found == Targets(value, n)
  IN
  /\ status = "done" /\ e \in unres
  /\ unres' = unres \ {e}
  /\ t' = [t EXCEPT !.uaf = @ \/ n \in t.freed]
  /\ \/ /\ e[2] \in {"leafref", "instid"}
        /\ found # {} \/ (e[2] = "instid" /\ NodeSchema[n] \notin InstReq)
        /\ lref' = IF found = {} THEN lref ELSE [lref EXCEPT ![n] = Min(found)]
        /\ UNCHANGED status
     \/ /\ e[2] \in {"leafref", "instid"}
        /\ found = {} /\ (e[2] = "leafref" \/ NodeSchema[n] \in InstReq)
        /\ status' = "error"
        /\ UNCHANGED lref
     \/ /\ e[2] \in {"when", "must"}
        /\ status' \in {"done", "error"}
        /\ UNCHANGED lref
  /\ UNCHANGED <<events, pc, value, validity, flagged, edits>>

(* The caller changes the value of a leaf of the resolved tree (the new   *)
(* value replaces value_str and the stored pointer) and calls             *)
(* lyv_data_value; when it fails the caller reports the error.            *)
ChangeValue(n, v) ==
  /\ status = "done" /\ unres = {} /\ edits < MaxEdits
  /\ n \in t.live /\ NodeSchema[n] \in Leafref \cup InstId /\ v \in Vals \ {value[n]}
  /\ value' = [value EXCEPT ![n] = v]
  /\ LET r == lyv_data_value(value', [lref EXCEPT ![n] = Null], n) IN
       /\ lref' = [lref EXCEPT ![n] = r.lref]
       /\ status' = IF r.ok THEN "done" ELSE "error"
  /\ edits' = edits + 1
  /\ UNCHANGED <<events, pc, t, validity, unres, flagged>>

RNext == Pass \/ (\E e \in unres : Resolve(e)) \/ (\E n \in Nodes, v \in Vals : ChangeValue(n, v))

(* resolve_unres_data runs over the whole queue once the parser returns;  *)
(* the caller's edits may never come.                                     *)
Fairness == WF_rvars(\E e \in unres : Resolve(e))

RSpec == RInit /\ [][RNext]_rvars /\ Fairness

-----------------------------------------------------------------------------
(* Properties.                                                            *)

\* the reference n names a node that exists: a leafref holds it in value.leafref
Resolved(n) ==
  /\ NodeSchema[n] \in Leafref => lref[n] \in Targets(value, n)
  /\ NodeSchema[n] \in InstReq => Targets(value, n) # {}

(* Every reference of a document read without error, a leafref or an      *)
(* instance-identifier that requires its instance, eventually names a     *)
(* live node with its value (a leafref holding it in value.leafref), or   *)
(* an error is reported; and so again after each value change the caller *)
(* makes.  It takes lyv_data_context queueing the reference whatever     *)
(* unresolved flag an earlier pass left on its value_type, the resolver  *)
(* working the queue off, and lyv_data_value failing a change that       *)
(* leaves the reference with no target.                                  *)
RefsResolved ==
  \A n \in Nodes :
    (/\ status = "done" /\ n \in t.live /\ ~Unresolving
     /\ NodeSchema[n] \in Leafref \cup InstReq)
      ~> (status = "error" \/ Resolved(n))

====
