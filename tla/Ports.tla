-------------------------------- MODULE Ports --------------------------------
(***************************************************************************)
(* The five ports a policy asks about the world (packages/core/src/        *)
(* Ports.ts and the modules of each port), and the adapters this code      *)
(* gives them: the one that knows nothing, the fixtures, the script.       *)
(*                                                                         *)
(* A port's request is the tuple of its arguments, an answer one of        *)
(* <<"ok", answer>>, <<"fail">> (the port's typed error) and <<"defect">>. *)
(***************************************************************************)
EXTENDS Evaluation

PortName == {"AttributeResolver", "RelationshipResolver", "DecisionHistory",
             "CustomPredicate", "SignatureHistory"}

RelatedResult == {"Related", "Unrelated", "Unknown"}
ActedResult == {"Acted", "NotActed", "Unknown"}

(* What a port answers when nothing is wired to it.                        *)
none(d) ==
    CASE d = "AttributeResolver" -> Undefined
      [] d \in {"RelationshipResolver", "DecisionHistory"} -> "Unknown"
      [] d = "CustomPredicate" -> FALSE
      [] d = "SignatureHistory" -> {}

Answer(value) == <<"ok", value>>
Fail == <<"fail">>
Die == <<"defect">>

-----------------------------------------------------------------------------
(* The keys: what makes two requests of a port the same one.  An absent    *)
(* resource or depth is keyed as null.                                     *)
OrNull(v) == IF v = Undefined THEN Null ELSE v

attributeKey(subjectId, attribute) == <<subjectId, attribute>>
relationshipKey(subjectId, relation, resourceId, depth) ==
    <<subjectId, relation, resourceId, OrNull(depth)>>
actedKey(subjectId, event, resourceId) == <<subjectId, event, OrNull(resourceId)>>
signatureKey(subjectId, resourceId) == <<subjectId, OrNull(resourceId)>>

(* A value as its canonical text tells it: what is no number is null, and  *)
(* the identity of an object is no part of it.                             *)
RECURSIVE canonicalKey(_)
canonicalKey(v) ==
    CASE v \in {Undefined, NaN, Infinity} -> Null
      [] isObject(v) ->
             LET told == IF IsArray(v) THEN DOMAIN v[3]
                         ELSE {k \in DOMAIN v[3] : v[3][k] # Undefined}
             IN  <<Kind(v), [k \in told |-> canonicalKey(v[3][k])]>>
      [] OTHER -> v

customKey(name, subject, resource, params) ==
    <<subject.id, name, canonicalKey(params), canonicalKey(OrNull(resource)), subject.roles,
      subject.permissions, canonicalKey(subject.attributes)>>

key(d, args) ==
    CASE d = "AttributeResolver" -> attributeKey(args[1], args[2])
      [] d = "RelationshipResolver" ->
             relationshipKey(args[1], args[2], args[3], args[4])
      [] d = "DecisionHistory" -> actedKey(args[1], args[2], args[3])
      [] d = "CustomPredicate" -> customKey(args[1], args[2], args[3], args[4])
      [] d = "SignatureHistory" -> signatureKey(args[1], args[2])

-----------------------------------------------------------------------------
(* The fixtures.                                                           *)

(* A key the table has not is undefined.                                   *)
attributeResolverFromRecord(table, args) ==
    Answer(IF args[2] \in DOMAIN table THEN table[args[2]] ELSE Undefined)

(* The edges are facts: the depth of the request is not looked at.         *)
relationshipResolverFromEdges(edges, args) ==
    Answer(IF <<args[1], args[2], args[3]>> \in edges
           THEN "Related" ELSE "Unrelated")

decisionHistoryFromEvents(events, args) ==
    LET acted == IF args[3] = Undefined
                 THEN \E e \in events : e[1] = args[1] /\ e[2] = args[2]
                 ELSE <<args[1], args[2], args[3]>> \in events
    IN  Answer(IF acted THEN "Acted" ELSE "NotActed")

(* The signatures of one subject and one resource, or those of none.       *)
signatureHistoryFromSignatures(signatures, args) ==
    Answer({s.signature : s \in
               {t \in signatures :
                   signatureKey(t.subjectId, t.resourceId)
                       = signatureKey(args[1], args[2])}})

customPredicateFromRecord(table, args) ==
    IF args[1] \in DOMAIN table THEN table[args[1]] ELSE Fail

PORT_FIXTURES(d, data, args) ==
    CASE d = "AttributeResolver" -> attributeResolverFromRecord(data, args)
      [] d = "RelationshipResolver" -> relationshipResolverFromEdges(data, args)
      [] d = "DecisionHistory" -> decisionHistoryFromEvents(data, args)
      [] d = "CustomPredicate" ->
             customPredicateFromRecord([n \in DOMAIN data |-> Answer(data[n])], args)
      [] d = "SignatureHistory" -> signatureHistoryFromSignatures(data, args)

-----------------------------------------------------------------------------
(* Adapters and layers.  A layer is a function of PortName.                *)

nonePort == [kind |-> "none"]
fixtureLayer(data) == [kind |-> "fixture", data |-> data]

(* A script is a table by key; what it has no reply for is the port's none. *)
replyTable(entries) == [kind |-> "scripted", table |-> entries]

(* A store outside of this code, and what it answers.                      *)
Store(answer) == [kind |-> "store", answer |-> answer]

scriptedPort(d, script, args) ==
    IF key(d, args) \in DOMAIN script.table
    THEN script.table[key(d, args)] ELSE Answer(none(d))

invokeLocal(d, port, args) ==
    CASE port.kind = "none" -> Answer(none(d))
      [] port.kind = "fixture" -> PORT_FIXTURES(d, port.data, args)
      [] port.kind = "scripted" -> scriptedPort(d, port, args)
      [] port.kind = "store" -> port.answer

portsLayer(overrides) ==
    [d \in PortName |-> IF d \in DOMAIN overrides THEN overrides[d] ELSE nonePort]

fixturePortsLayer(data, overrides) ==
    portsLayer([d \in DOMAIN overrides \cup DOMAIN data |->
                   IF d \in DOMAIN overrides THEN overrides[d]
                   ELSE fixtureLayer(data[d])])

-----------------------------------------------------------------------------
(* The one request a leaf makes when it makes one, <<port, arguments>>.    *)
Asks(p) == p.tag \in {"HasAttribute", "HasRelationship", "HasActed",
                       "HasNotActed", "HasCustom", "HasSignature"}

RequestOf(p, q) ==
    CASE p.tag = "HasAttribute" ->
             <<"AttributeResolver", <<q.subject.id, p.attribute>>>>
      [] p.tag = "HasRelationship" ->
             <<"RelationshipResolver", <<q.subject.id, p.relation, ResourceId(q),
                                         clampRelationshipDepth(p.depth)>>>>
      [] p.tag \in {"HasActed", "HasNotActed"} ->
             <<"DecisionHistory", <<q.subject.id, p.event, ScopeId(p, q)>>>>
      [] p.tag = "HasCustom" ->
             <<"CustomPredicate", <<p.name, q.subject, q.resource, p.params>>>>
      [] p.tag = "HasSignature" ->
             <<"SignatureHistory", <<q.subject.id, ScopeId(p, q)>>>>

RECURSIVE NodesOf(_)
NodesOf(p) ==
    {p} \cup UNION {NodesOf(childrenOf(p)[i]) : i \in DOMAIN childrenOf(p)}

(* What the ports answer to the requests of a policy, as evaluation reads  *)
(* them; `ask` is how one request is made.                                 *)
Answers(ask(_, _), p, q) ==
    LET requests == {RequestOf(n, q) : n \in {m \in NodesOf(p) : Asks(m)}}
        argsOf(d) == {r[2] : r \in {r \in requests : r[1] = d}}
    IN  [attribute |-> [a \in {args[2] : args \in argsOf("AttributeResolver")} |->
             ask("AttributeResolver", <<q.subject.id, a>>)],
         related |-> [r \in {Tail(args) : args \in argsOf("RelationshipResolver")} |->
             ask("RelationshipResolver", <<q.subject.id>> \o r)],
         acted |-> [e \in {Tail(args) : args \in argsOf("DecisionHistory")} |->
             ask("DecisionHistory", <<q.subject.id>> \o e)],
         custom |-> [c \in {<<args[1], args[4]>> : args \in argsOf("CustomPredicate")} |->
             ask("CustomPredicate", <<c[1], q.subject, q.resource, c[2]>>)],
         signatures |-> [s \in {args[2] : args \in argsOf("SignatureHistory")} |->
             ask("SignatureHistory", <<q.subject.id, s>>)]]

(* The requests an evaluation makes: those of the leaves it reaches.       *)
Reaches(p, q) ==
    CASE p.tag = "HasAttribute" ->
             /\ p.attribute \notin DOMAIN q.subject.attributes[3]
             /\ referencesAction(p.matcher) => q.action # Undefined
             /\ referencesResource(p.matcher) => q.resource # Undefined
      [] p.tag = "HasRelationship" -> IsText(ResourceId(q))
      [] p.tag \in {"HasActed", "HasNotActed", "HasSignature"} ->
             p.scope = "Resource" => IsText(ResourceId(q))
      [] OTHER -> Asks(p)

RECURSIVE RequestsMade(_, _, _)
RequestsMade(p, q, ports) ==
    LET asked == IF p.tag \in {"AllOf", "AnyOf", "Rules"}
                 THEN Asked(p, LAMBDA c : evaluateNode(c, q, ports), 1)
                 ELSE childrenOf(p)
    IN  (IF Reaches(p, q) THEN {RequestOf(p, q)} ELSE {})
          \cup UNION {RequestsMade(childrenOf(p)[i], q, ports) : i \in DOMAIN asked}

-----------------------------------------------------------------------------
(***************************************************************************)
(* Ports asked over a wire (packages/core/src/PortRemote.ts, PortWire.ts,  *)
(* PortWireEncode.ts and JsonHazard.ts, packages/http/src/PortRoutes.ts    *)
(* and RemotePorts.ts): the browser's port encodes a question, the server  *)
(* answers it from its own port for its own subject, the browser decodes   *)
(* the reply, and whatever goes wrong is the port's typed error.           *)
(***************************************************************************)

WIRE_MAX_DEPTH == MAX_DECODE_DEPTH

(* Why a value has no JSON form, or "none": a number that is not finite, a *)
(* hole in an array, a nesting too deep.                                   *)
RECURSIVE wireHazard(_, _)
wireHazard(v, levels) ==
    LET children == {v[3][k] : k \in DOMAIN v[3]} \ {Undefined}
        refusals == {wireHazard(c, levels - 1) : c \in children} \ {"none"}
    IN  CASE v = Undefined -> "none"
          [] v # Undefined /\ levels < 0 -> "TooDeep"
          [] v \in {NaN, Infinity} /\ levels >= 0 -> "NonFinite"
          [] isObject(v) /\ levels >= 0 ->
                 IF IsArray(v) /\ Undefined \in Range(v[3])
                 THEN "Unrepresentable"
                 ELSE IF refusals = {} THEN "none"
                 ELSE CHOOSE refusal \in refusals : TRUE
          [] OTHER -> "none"

(* The rebuilt value: a new object each, without its undefined entries.    *)
RECURSIVE rebuildJson(_)
rebuildJson(v) ==
    IF ~isObject(v) THEN v
    ELSE <<Kind(v), <<"wire", v[2]>>,
           [k \in {k \in DOMAIN v[3] : IsArray(v) \/ v[3][k] # Undefined} |->
               rebuildJson(v[3][k])]>>

HasForm(v, levels) == wireHazard(v, levels) = "none"

-----------------------------------------------------------------------------
(* The wire of each port: whom the question names, whether it has a form,  *)
(* what it carries of the arguments, and the name a server may refuse to   *)
(* be asked.  Only a custom predicate's carries values as JSON.            *)

attributeWire(args) ==
    [subjectId |-> args[1], encodes |-> TRUE,
     carries |-> <<args[2]>>, asked |-> args[2]]

(* A depth is the bounded whole number of a decoded policy.                *)
relationshipWire(args) ==
    [subjectId |-> args[1],
     encodes |-> args[4] = Undefined \/ RelationshipDepth(args[4]),
     carries |-> <<args[2], args[3], args[4]>>, asked |-> args[2]]

actedWire(args) ==
    [subjectId |-> args[1], encodes |-> TRUE,
     carries |-> <<args[2], args[3]>>, asked |-> args[2]]

(* The subject is its id and nothing else.                                 *)
customWire(args) ==
    [subjectId |-> args[2].id,
     encodes |-> /\ HasForm(args[3], WIRE_MAX_DEPTH - 1)
                 /\ HasForm(args[4], WIRE_MAX_DEPTH - 1),
     carries |-> <<args[1], rebuildJson(args[3]), rebuildJson(args[4])>>,
     asked |-> args[1]]

(* A server of signatures may be asked for any.                            *)
signatureWire(args) ==
    [subjectId |-> args[1], encodes |-> TRUE,
     carries |-> <<args[2]>>, asked |-> Undefined]

wire(d, args) ==
    CASE d = "AttributeResolver" -> attributeWire(args)
      [] d = "RelationshipResolver" -> relationshipWire(args)
      [] d = "DecisionHistory" -> actedWire(args)
      [] d = "CustomPredicate" -> customWire(args)
      [] d = "SignatureHistory" -> signatureWire(args)

encodeQuestion(d, args) == wire(d, args).encodes

(* The arguments the server asks its own port with: its own subject's.     *)
fromQuestion(d, carried, subject) ==
    IF d = "CustomPredicate"
    THEN <<carried[1], subject, carried[2], carried[3]>>
    ELSE <<subject.id>> \o carried

encodeAnswer(d, answer) ==
    CASE d = "AttributeResolver" -> HasForm(answer, WIRE_MAX_DEPTH - 1)
      [] d = "SignatureHistory" -> \A s \in answer : isFiniteNumber(s.signedAt)
      [] OTHER -> TRUE

decodeAnswer(d, answer) ==
    IF d = "AttributeResolver" THEN rebuildJson(answer) ELSE answer

(* The reply nests the answer, an attribute's one level deeper.            *)
ReplyFits(d, answer) ==
    d = "AttributeResolver" => HasForm(answer, WIRE_MAX_DEPTH - 2)

-----------------------------------------------------------------------------
(* The answering side.  `serving` is, per port served, the names it may be *)
(* asked about, unless it is any.                                          *)

Answered(answer) == <<"Answered", answer>>
Unavailable == <<"Unavailable">>
Refusal(reason) == <<"Refused", reason>>

Anything == [any |-> TRUE, names |-> {}]
These(names) == [any |-> FALSE, names |-> names]

ADMITTED(serving, d, name) == serving[d].any \/ name \in serving[d].names

answerRemotely(serving, d, port, subject, args) ==
    LET question == wire(d, args)
        answer == invokeLocal(d, port[d], fromQuestion(d, question.carries, subject))
    IN  IF ~question.encodes THEN Refusal("Malformed")
        ELSE IF question.subjectId # subject.id THEN Refusal("SubjectMismatch")
        ELSE IF ~ADMITTED(serving, d, question.asked) THEN Refusal("NotServed")
        ELSE IF catchPortDefect(answer) # "none" THEN Unavailable
        ELSE IF ~encodeAnswer(d, answer[2]) THEN Refusal("Unencodable")
        ELSE Answered(answer[2])

(* The routes: one for each port served, and nothing at the others.        *)
portRoutes(serving, d, port, subject, args) ==
    IF d \in DOMAIN serving THEN answerRemotely(serving, d, port, subject, args)
    ELSE <<"404">>

-----------------------------------------------------------------------------
(* The asking side.                                                        *)

(* `reply` is what the transport brings back of the question.              *)
askRemotely(reply, d, args) ==
    IF encodeQuestion(d, args) /\ reply[1] = "Answered" /\ ReplyFits(d, reply[2])
    THEN Answer(decodeAnswer(d, reply[2])) ELSE Fail

(* The ports listed are asked remotely, the others know nothing.           *)
remotePorts(reply, listed, d, args) ==
    IF d \in listed THEN askRemotely(reply, d, args) ELSE Answer(none(d))

-----------------------------------------------------------------------------
(* What a server of these policies' questions has to serve.                *)

(* A mutation: the events of a negated history are not collected.          *)
CollectPositive(nodes) ==
    [attributes |-> {n.attribute : n \in {m \in nodes : m.tag = "HasAttribute"}},
     relations |-> {n.relation : n \in {m \in nodes : m.tag = "HasRelationship"}},
     events |-> {n.event : n \in {m \in nodes : m.tag = "HasActed"}},
     names |-> {n.name : n \in {m \in nodes : m.tag = "HasCustom"}},
     signed |-> \E n \in nodes : n.tag = "HasSignature"]

collectNames(nodes) ==
    [attributes |-> {n.attribute : n \in {m \in nodes : m.tag = "HasAttribute"}},
     relations |-> {n.relation : n \in {m \in nodes : m.tag = "HasRelationship"}},
     events |-> {n.event : n \in
                    {m \in nodes : m.tag \in {"HasActed", "HasNotActed"}}},
     names |-> {n.name : n \in {m \in nodes : m.tag = "HasCustom"}},
     signed |-> \E n \in nodes : n.tag = "HasSignature"]

servingFor(policies) ==
    LET names == collectNames(UNION {NodesOf(p) : p \in policies})
    IN  [d \in PortName \ (IF names.signed THEN {} ELSE {"SignatureHistory"}) |->
            CASE d = "AttributeResolver" -> These(names.attributes)
              [] d = "RelationshipResolver" -> These(names.relations)
              [] d = "DecisionHistory" -> These(names.events)
              [] d = "CustomPredicate" -> These(names.names)
              [] OTHER -> Anything]
=============================================================================
