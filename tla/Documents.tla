------------------------------- MODULE Documents -------------------------------
(***************************************************************************)
(* The document a request is kept and sent as (core/xmlencode.go,          *)
(* xmldecode.go, param.go, dialectparams.go): what is written is read back *)
(* by another process, or by this one out of its store.                    *)
(*                                                                         *)
(* A document is its tree of elements; escaping and the text itself are    *)
(* not modelled, and what DocumentStream splits off arrives here whole.    *)
(* Text, ids and numbers are opaque; a field that is absent is Absent, and *)
(* so are an empty string, a zero count and a false flag, which the writer *)
(* leaves out.  A JSON value is its type, its text, and its members.       *)
(***************************************************************************)
EXTENDS Integers, Sequences, SequencesExt, FiniteSets, TLC

CONSTANTS
  KnownDialects,  \* the dialects a document may name
  Params,         \* names of provider parameters
  Known,          \* knownAttrs: those a dialect has an attribute for
  Value           \* what a field that is present holds

Absent == "absent"
Core   == "core"
Nothing == [name |-> "nothing"]

VARIABLES
  sent,       \* the request, or the failure, that is written
  document,   \* its document
  received,   \* what reading it gives
  docStep

docVars == <<sent, document, received, docStep>>

-----------------------------------------------------------------------------
(* Requests.                                                               *)

json(type, text, kids) == [type |-> type, text |-> text, kids |-> kids]
Scalars == {"string", "number", "boolean"}
Objects == {json("object", Absent, <<>>), json("object", Absent, <<<<"a", json("number", Value, <<>>)>>, <<"b", json("null", Absent, <<>>)>>>>),
            json("array", Absent, <<<<Absent, json("string", Value, <<>>)>>, <<Absent, json("boolean", Value, <<>>)>>>>)}
JsonValues  == {json(t, Value, <<>>) : t \in Scalars} \cup {json("null", Absent, <<>>)} \cup Objects
Maps(names) == UNION {[ns -> JsonValues] : ns \in SUBSET names}

partFields == [text |-> {}, image |-> {"media-type", "src"}, thinking |-> {"signature", "id", "raw"}]
              @@ ("redacted-thinking" :> {}) @@ ("tool-call" :> {"id", "name"})
messageFields == {"role", "tool-call-id", "tool-is-error", "id", "kind"}
toolFields    == {"name", "description", "readonly", "destructive", "idempotent", "open-world", "unvouched"}
requestFields == {"model", "max-tokens", "cache-key", "auto-compact"}
Fields(names) == [names -> {Absent, Value}]

Parts    == UNION {[kind : {k}, text : {Absent, Value}, fields : Fields(partFields[k])] : k \in DOMAIN partFields}
Messages == [fields : Fields(messageFields), parts : {<<>>}] \cup
            [fields : {[f \in messageFields |-> Value]}, parts : {<<p, q>> : p, q \in Parts}]
defaultToolSchema == json("object", Absent, <<<<"type", json("string", Value, <<>>)>>>>)
Tools    == [fields : Fields(toolFields), schema : {json("null", Absent, <<>>)}] \cup
            [fields : {[f \in toolFields |-> Value]}, schema : {v \in Objects : v.type = "object"}]

plain == [fields |-> [f \in requestFields |-> Absent], system |-> <<>>, messages |-> <<>>, tools |-> <<>>,
          extra |-> <<>>, dialect |-> [d \in KnownDialects |-> <<>>]]
Requests ==
  {[plain EXCEPT !.fields = f] : f \in Fields(requestFields)}
  \cup {[plain EXCEPT !.system = <<p>>, !.messages = <<m>>] : p \in {x \in Parts : x.kind = "text"}, m \in Messages}
  \cup {[plain EXCEPT !.tools = <<t>>] : t \in Tools}
  \cup {[plain EXCEPT !.extra = x] : x \in Maps(Params)}
  \cup {[plain EXCEPT !.dialect = x] : x \in [KnownDialects -> Maps(Params)]}

-----------------------------------------------------------------------------
(* Writing.                                                                *)

element(name, ns, attrs, kids, text) == [name |-> name, ns |-> ns, attrs |-> attrs, kids |-> kids, text |-> text]
optAttrs(fields) == LET there == {f \in DOMAIN fields : fields[f] # Absent}
                    IN  [x \in {Core} \X there |-> fields[x[2]]]

writePart(p) ==
  IF p.kind = "tool-call"
  THEN element(p.kind, Core, optAttrs(p.fields), <<element("arguments", Core, <<>>, <<>>, p.text)>>, Absent)
  ELSE element(p.kind, Core, optAttrs(p.fields), <<>>, p.text)
writeParts(ps)  == [i \in DOMAIN ps |-> writePart(ps[i])]
writeMessage(m) == element("message", Core, optAttrs(m.fields), writeParts(m.parts), Absent)

RECURSIVE writeParam(_, _)
writeParam(name, v) ==
  element("param", Core, optAttrs([name |-> name, type |-> v.type]),
          [i \in DOMAIN v.kids |-> writeParam(v.kids[i][1], v.kids[i][2])],
          IF v.type \in Scalars THEN v.text ELSE Absent)
writeParams(members) == [i \in DOMAIN members |-> writeParam(members[i][1], members[i][2])]

schema(t) == IF t.schema.type = "null" THEN defaultToolSchema ELSE t.schema
writeTool(t) ==
  element("tool", Core, optAttrs(t.fields), <<element("input-schema", Core, <<>>, writeParams(schema(t).kids), Absent)>>, Absent)

section(name, kids) == IF kids = <<>> THEN <<>> ELSE <<element(name, Core, <<>>, kids, Absent)>>
writeParamsElement(ns, values) ==
  IF values = <<>> THEN <<>>
  ELSE LET keys == SetToSeq(DOMAIN values)
       IN  <<element("params", ns, <<>>, writeParams([i \in DOMAIN keys |-> <<keys[i], values[keys[i]]>>]), Absent)>>

(* A scalar with an attribute of its own rides there, anything else in the *)
(* tree.                                                                   *)
asAttr(map)  == {k \in DOMAIN map : k \in Known /\ map[k].type \in Scalars}
asTree(map)  == [k \in DOMAIN map \ asAttr(map) |-> map[k]]
qualifiedParamAttrs(dialect) ==
  LET rides == {x \in KnownDialects \X Params : x[2] \in asAttr(dialect[x[1]])}
  IN  [x \in rides |-> dialect[x[1]][x[2]].text]

EncodeRequest(r) ==
  element("request", Core, optAttrs(r.fields) @@ qualifiedParamAttrs(r.dialect),
    section("system", writeParts(r.system))
    \o section("messages", [i \in DOMAIN r.messages |-> writeMessage(r.messages[i])])
    \o section("tools", [i \in DOMAIN r.tools |-> writeTool(r.tools[i])])
    \o writeParamsElement(Core, r.extra)
    \o FlattenSeq([i \in 1 .. Cardinality(KnownDialects) |->
                     LET d == SetToSeq(KnownDialects)[i] IN writeParamsElement(d, asTree(r.dialect[d]))]),
    Absent)

-----------------------------------------------------------------------------
(* Reading.                                                                *)

attrOf(el, name) == IF <<Core, name>> \in DOMAIN el.attrs THEN el.attrs[<<Core, name>>] ELSE Absent
fieldsOf(el, names) == [f \in names |-> attrOf(el, f)]
elementsNamed(el, name) == SelectSeq(el.kids, LAMBDA kid : kid.name = name)

partFrom(el) ==
  [kind |-> el.name, fields |-> fieldsOf(el, partFields[el.name]),
   text |-> IF el.name = "tool-call" THEN elementsNamed(el, "arguments")[1].text ELSE el.text]
partsFrom(el) == [i \in DOMAIN el.kids |-> partFrom(el.kids[i])]
messageFrom(el) == [fields |-> fieldsOf(el, messageFields), parts |-> partsFrom(el)]

RECURSIVE paramFrom(_)
paramsFrom(el) == [i \in DOMAIN el.kids |-> <<attrOf(el.kids[i], "name"), paramFrom(el.kids[i])>>]
paramFrom(el) == json(attrOf(el, "type"), el.text, paramsFrom(el))

toolFrom(el) ==
  [fields |-> fieldsOf(el, toolFields), schema |-> json("object", Absent, paramsFrom(elementsNamed(el, "input-schema")[1]))]

valuesFromParams(el) ==
  [k \in {attrOf(kid, "name") : kid \in ToSet(el.kids)} |->
     paramFrom(CHOOSE kid \in ToSet(el.kids) : attrOf(kid, "name") = k)]

(* An attribute's value is text whatever it was.  No attribute, no map.    *)
qualifiedParams(root) ==
  LET rides == {x \in DOMAIN root.attrs : x[1] # Core}
  IN  [made |-> rides # {},
       of   |-> [d \in KnownDialects |-> [k \in {x[2] : x \in {y \in rides : y[1] = d}} |->
                                       json("string", root.attrs[<<d, k>>], <<>>)]]]

(* The values of a dialect's tree join those of its attributes.  To add to *)
(* a map that was never made ends the call in a panic.  mergeReplaces is   *)
(* as if the tree's values took the attributes' place.                     *)
mergeReplaces(r, d, values) ==
  IF r.dialect.made THEN [r EXCEPT !.dialect.of[d] = values] ELSE [r EXCEPT !.panicked = TRUE]
mergeInto(r, d, values) ==
  IF r.dialect.made THEN [r EXCEPT !.dialect.of[d] = @ @@ values] ELSE [r EXCEPT !.panicked = TRUE]

readSection(r, el) ==
  CASE r.panicked           -> r
    [] el.name = "system"   -> [r EXCEPT !.system = partsFrom(el)]
    [] el.name = "messages" -> [r EXCEPT !.messages = [i \in DOMAIN el.kids |-> messageFrom(el.kids[i])]]
    [] el.name = "tools"    -> [r EXCEPT !.tools = [i \in DOMAIN el.kids |-> toolFrom(el.kids[i])]]
    [] el.name = "params" /\ el.ns = Core -> [r EXCEPT !.extra = valuesFromParams(el)]
    [] el.name = "params" /\ el.ns # Core -> mergeInto(r, el.ns, valuesFromParams(el))

DecodeRequest(root) ==
  FoldLeft(readSection,
           [fields |-> fieldsOf(root, requestFields), system |-> <<>>, messages |-> <<>>, tools |-> <<>>,
            extra |-> <<>>, dialect |-> qualifiedParams(root), panicked |-> FALSE],
           root.kids)

-----------------------------------------------------------------------------
(* Failures: an error's document says its kind and, of an answer of the    *)
(* provider, its status.  A retry or a compaction is decided by what the   *)
(* error read back is.                                                     *)

Failures == [error : {"api"}, status : {"429", "400"}, overflow : BOOLEAN] \cup
            [error : {"request", "unsupported", "canceled", "callback", "transport"}, status : {Absent}, overflow : {FALSE}]
IsTransient(f) == f.status = "429" \/ f.error \in {"unsupported", "transport"}
IsContextOverflow(f) == f.overflow

errorKind(f) ==
  CASE f.overflow -> "context-overflow" [] f.error = "callback" -> "transport" [] ~f.overflow /\ f.error # "callback" -> f.error
EncodeError(f) ==
  element("error", Core, optAttrs([kind |-> errorKind(f), status |-> f.status,
                                   overflow |-> IF f.overflow THEN "true" ELSE Absent,
                                   transient |-> IF IsTransient(f) THEN "true" ELSE Absent]), <<>>, Value)

(* A kind that is none of the four is only its words.                      *)
errorFrom(el) ==
  LET kind == attrOf(el, "kind")
  IN  CASE kind \in {"api", "context-overflow"} ->
             [error |-> "api", status |-> attrOf(el, "status"), overflow |-> attrOf(el, "overflow") = "true"]
        [] kind \in {"request", "unsupported"} -> [error |-> kind, status |-> Absent, overflow |-> FALSE]
        [] OTHER -> [error |-> "transport", status |-> Absent, overflow |-> FALSE]

-----------------------------------------------------------------------------
DocInit ==
  /\ sent \in Requests \cup Failures
  /\ document = Nothing /\ received = Nothing /\ docStep = "write"

Write ==
  /\ docStep = "write" /\ docStep' = "read"
  /\ document' = IF "error" \in DOMAIN sent THEN EncodeError(sent) ELSE EncodeRequest(sent)
  /\ UNCHANGED <<sent, received>>
Read ==
  /\ docStep = "read" /\ docStep' = "done"
  /\ received' = IF document.name = "error" THEN errorFrom(document) ELSE DecodeRequest(document)
  /\ UNCHANGED <<sent, document>>
Done == docStep = "done" /\ UNCHANGED docVars

DocNext == Write \/ Read \/ Done
DocSpec == DocInit /\ [][DocNext]_docVars

-----------------------------------------------------------------------------
asText(map) == [k \in DOMAIN map |-> IF k \in asAttr(map) THEN json("string", map[k].text, <<>>) ELSE map[k]]
asRead(r) == [r EXCEPT !.tools = [i \in DOMAIN @ |-> [@[i] EXCEPT !.schema = schema(r.tools[i])]]]

(* A request read back says what was written: the order and every field of *)
(* its parts, the tools' tri-state facts, and each dialect's parameters to *)
(* that dialect alone, where those that ride as attributes have become     *)
(* text and a tool that named no schema has the default one.  A failed     *)
(* answer of the provider is as transient, and as much an overflow, on the *)
(* far side ("An api error comes back as an *APIError so IsTransient and   *)
(* IsContextOverflow keep working", errorFrom).                            *)
DocumentSurvives ==
  docStep = "done" =>
    /\ "error" \notin DOMAIN sent /\ ~received.panicked =>
         /\ \A f \in DOMAIN sent \ {"dialect"} : received[f] = asRead(sent)[f]
         /\ \A d \in KnownDialects : received.dialect.of[d] = asText(sent.dialect[d])
    /\ "error" \in DOMAIN sent /\ sent.error = "api" =>
         /\ IsTransient(received) = IsTransient(sent)
         /\ IsContextOverflow(received) = IsContextOverflow(sent)

(* "a document this store cannot read back is not worth keeping"           *)
(* (session/file.go, write): whatever is written can be read.              *)
WrittenReadsBack == docStep = "done" /\ "error" \notin DOMAIN sent => ~received.panicked

===============================================================================
