----------------------------- MODULE HttpGuards -----------------------------
(***************************************************************************)
(* The HTTP guards (packages/http): how guardApi reads an API, what its    *)
(* middleware does with a request to an endpoint, what a bare guarded      *)
(* route does with the same request, and what the permission registry      *)
(* lists.                                                                  *)
(*                                                                         *)
(* Effect's HttpApi is external: a group is written and then added to an   *)
(* API, and what is put on either of them reaches only the endpoints it    *)
(* has by then.  A request is known by what it meets: the header it        *)
(* carries, and what the token's lookup, the guard and the handler answer. *)
(***************************************************************************)
EXTENDS Integers, Sequences, FiniteSets, SequencesExt, Functions, Bags

CONSTANTS
    Guardable,     \* permissions
    NoPermission,  \* of an endpoint that requires none
    MaxGroups,     \* groups of an API
    MaxEndpoints,  \* endpoints written in all
    MaxEdits       \* steps of writing the API and adding routes

ASSUME GuardableAssumption == NoPermission \notin Guardable

VARIABLES
    group,    \* the group being written
    api,      \* the API it is added to
    guarded,  \* what guardApi read and answered, once it was built
    listed,   \* the registry: the descriptors under each permission, as a bag
    bare,     \* the permissions of the bare guarded routes
    edits     \* the steps there were, up to MaxEdits

guardVars == <<group, api, guarded, listed, bare, edits>>

-----------------------------------------------------------------------------
(* Failures: their tags and classes, and what each is answered with.       *)

EvaluationError ==
    {"AttributeResolveError", "RelationshipResolveError",
     "DecisionHistoryUnavailable", "CustomPredicateError",
     "SignatureHistoryUnavailable", "MissingAction", "MissingResource",
     "MissingResourceId", "PolicyTooDeep"}

EnforcementError == EvaluationError \cup {"AccessDenied", "UndischargedObligation"}

ENFORCEMENT_ERROR_CLASSES ==
    [tag \in EnforcementError |->
        CASE tag \in {"AccessDenied", "UndischargedObligation"} -> "denied"
          [] tag \in {"MissingAction", "MissingResource", "MissingResourceId",
                      "PolicyTooDeep"} -> "wiringMistake"
          [] OTHER -> "outage"]

classifyEnforcementError(tag) == ENFORCEMENT_ERROR_CLASSES[tag]

EnforcementErrorTagOf(class) ==
    {tag \in EnforcementError : classifyEnforcementError(tag) = class}

ENFORCEMENT_DENIAL_TAGS == EnforcementErrorTagOf("denied")

HTTP_ENFORCEMENT_CLASSES ==
    [tag \in EnforcementError \cup {"SubjectExtractionFailed"} |->
        IF tag \in EnforcementError THEN ENFORCEMENT_ERROR_CLASSES[tag] ELSE "outage"]
HTTP_ENFORCEMENT_TAGS == DOMAIN HTTP_ENFORCEMENT_CLASSES

HTTP_STATUS_BY_CLASS(class) ==
    CASE class = "denied" -> 403 [] class = "outage" -> 502 [] OTHER -> 500

classifyHttpEnforcementFailure(tag) == HTTP_ENFORCEMENT_CLASSES[tag]

StatusOf(tag) == HTTP_STATUS_BY_CLASS(classifyHttpEnforcementFailure(tag))

(* What an error holds besides its tag: of those of the ports, then others.*)
AttributeResolveError == {"attribute", "cause"}
RelationshipResolveError == {"relation", "resourceId", "cause"}
DecisionHistoryUnavailable == {"event", "cause"}
SignatureHistoryUnavailable == {"subjectId", "resourceId", "cause"}
CustomPredicateError == {"name", "reason"}
MissingAction == {"expected"}
MissingResource == {"attribute"}
MissingResourceId == {"relation"}
PolicyTooDeep == {"maxDepth"}
AccessDenied == {"subjectId", "policyTag", "reason", "trace"}

toAccessDeniedPublic == AccessDenied \ {"trace"}

(* What of it is told on the wire.                                         *)
ENFORCEMENT_ERROR_WIRE(tag) ==
    CASE tag = "AccessDenied" -> toAccessDeniedPublic
      [] tag \in {"UndischargedObligation", "SubjectExtractionFailed"} -> {}
      [] tag = "CustomPredicateError" -> CustomPredicateError \ {"reason"}
      [] tag = "AttributeResolveError" -> AttributeResolveError \ {"cause"}
      [] tag = "RelationshipResolveError" -> RelationshipResolveError \ {"cause"}
      [] tag = "DecisionHistoryUnavailable" -> DecisionHistoryUnavailable \ {"cause"}
      [] tag = "SignatureHistoryUnavailable" -> SignatureHistoryUnavailable \ {"cause"}
      [] tag = "MissingAction" -> MissingAction
      [] tag = "MissingResource" -> MissingResource
      [] tag = "MissingResourceId" -> MissingResourceId
      [] tag = "PolicyTooDeep" -> PolicyTooDeep

projectHttpEnforcementFailure(tag) == ENFORCEMENT_ERROR_WIRE(tag)

-----------------------------------------------------------------------------
(* Requests.  A response tells who the handler ran as, if it ran, what     *)
(* permission was asked of the guard, and what was logged.                 *)

Nobody == "nobody"
Anonymous == "anonymous"
Unhandled == 0
Responded(ran, asks, status, body, logs) ==
    [ran |-> ran, asks |-> asks, status |-> status, body |-> body, logs |-> logs]

(* A subject, anonymous unless there is a bearer token, whose lookup may   *)
(* fail.                                                                   *)
extract(request) ==
    IF request.header = "token" THEN request.lookup ELSE Anonymous

Denied(tag, site) == IF tag \in ENFORCEMENT_DENIAL_TAGS THEN <<site>> ELSE <<>>

(* The subject is extracted, the resource loaded, and then the guard asked.*)
authorizeRequest(permission, request) ==
    IF extract(request) = "SubjectExtractionFailed"
    THEN [error |-> "SubjectExtractionFailed", asks |-> NoPermission,
          loaded |-> FALSE, logs |-> <<"extraction">>]
    ELSE [error |-> request.guard, asks |-> permission, loaded |-> TRUE,
          logs |-> Denied(request.guard, "edge")]

(* A handler's own failure reaches the caller as it is, when it is none of *)
(* enforcement's.                                                          *)
Reply(error, ran, asks, logs, Body(_)) ==
    IF error = "none" THEN Responded(ran, asks, 200, {}, logs)
    ELSE IF error \notin HTTP_ENFORCEMENT_TAGS
         THEN Responded(ran, asks, Unhandled, {}, logs)
         ELSE Responded(ran, asks, StatusOf(error), {"tag"} \cup Body(error), logs)

Guarded(permission, request, Body(_)) ==
    LET edge == authorizeRequest(permission, request)
        subject == extract(request)
    IN  IF edge.error # "none"
        THEN Reply(edge.error, Nobody, edge.asks, edge.logs, Body)
        ELSE Reply(request.handler, subject, edge.asks,
                      edge.logs \o Denied(request.handler, "handler"), Body)

enforce(permission, request) ==
    Guarded(permission, request, projectHttpEnforcementFailure)

(* A bare route: no body, but for an extraction's tag.                     *)
guardRoute(permission, request) ==
    LET r == Guarded(permission, request, LAMBDA tag : {})
    IN  IF r.body = {"tag"} /\ extract(request) # "SubjectExtractionFailed"
           /\ request.handler # "SubjectExtractionFailed"
        THEN [r EXCEPT !.body = {}] ELSE r

-----------------------------------------------------------------------------
(* What an endpoint declares, and the middleware.                          *)

endpointAccess(e) ==
    IF e.requires # NoPermission THEN "Required"
    ELSE IF e.public THEN "Public" ELSE "Undeclared"

Declarations == {"RequiredPermission", "PublicEndpoint"}
misplacedDeclarations(scope) == Declarations \cap scope.declares

refuse == Responded(Nobody, NoPermission, 500, {}, <<"refused">>)

middleware(members, g, e, request) ==
    IF \/ <<g.name, e.name>> \notin members
       \/ misplacedDeclarations(g) # {}
       \/ endpointAccess(e) = "Undeclared"
    THEN refuse
    ELSE IF endpointAccess(e) = "Required" THEN enforce(e.requires, request)
    ELSE Responded(Anonymous, NoPermission,
                   IF request.handler = "none" THEN 200 ELSE Unhandled, {}, <<>>)

(* The server calls the middleware of an endpoint that has it, and serves  *)
(* any other as it is.                                                     *)
Serve(members, g, e, request) ==
    IF e.attached THEN middleware(members, g, e, request)
    ELSE Responded("anyone", NoPermission, 200, {}, <<>>)

-----------------------------------------------------------------------------
(* Reading an API.                                                         *)

Places(a) ==
    UNION {{<<i, j>> : j \in DOMAIN a.groups[i].endpoints} : i \in DOMAIN a.groups}

EndpointAt(a, place) == a.groups[place[1]].endpoints[place[2]]
NameAt(a, place) == <<a.groups[place[1]].name, EndpointAt(a, place).name>>

Misplaced(a) ==
    \E scope \in {a} \cup ToSet(a.groups) : misplacedDeclarations(scope) # {}

(* A mutation: an endpoint that declares nothing needs no middleware.      *)
UnattachedDeclared(a) ==
    {m \in Places(a) : /\ ~EndpointAt(a, m).attached
                       /\ endpointAccess(EndpointAt(a, m)) # "Undeclared"}

Unattached(a) == {m \in Places(a) : ~EndpointAt(a, m).attached}

Found(a) ==
    {m \in Places(a) : /\ EndpointAt(a, m).attached
                       /\ endpointAccess(EndpointAt(a, m)) = "Required"}

MembersOf(a) == {NameAt(a, m) : m \in Places(a)}

walkApi(a) ==
    [found |-> Found(a), members |-> MembersOf(a),
     refusal |-> IF Misplaced(a) THEN "MisplacedAccessDeclaration"
                 ELSE IF Unattached(a) # {} THEN "RequirePermissionNotAttached"
                 ELSE "none"]

(* The registry.  What is found is added one by one.                       *)
BareRoute == <<0, 0>>
addDescriptor(data, permission, descriptor) ==
    data (+) SetToBag({<<permission, descriptor>>})

Registration(a, place) == <<EndpointAt(a, place).requires, NameAt(a, place)>>
Registered(data, a, found) ==
    data (+) [r \in {Registration(a, m) : m \in found} |->
                 Cardinality({m \in found : Registration(a, m) = r})]

-----------------------------------------------------------------------------
(* Writing an API, guarding it, and adding routes beside it.               *)

Unbuilt == [refusal |-> "unbuilt"]
NewGroup(i) == [name |-> i, declares |-> {}, endpoints |-> <<>>]
Written == Len(group.endpoints)
            + FoldSeq(LAMBDA g, n : n + Len(g.endpoints), 0, api.groups)

GuardsInit ==
    /\ group = NewGroup(1)
    /\ api = [name |-> 0, declares |-> {}, groups |-> <<>>]
    /\ guarded = Unbuilt /\ listed = EmptyBag /\ bare = {}
    /\ edits = 0

AddEndpoint ==
    /\ Written < MaxEndpoints
    /\ \E public \in BOOLEAN :
           group' = [group EXCEPT !.endpoints =
               Append(@, [name |-> Len(@) + 1, requires |-> NoPermission,
                          public |-> public, attached |-> FALSE])]
    /\ UNCHANGED <<api, guarded, listed, bare>>

(* It throws, and nothing is annotated, when there is one already.         *)
requiresPermission(i, permission) ==
    /\ group.endpoints[i].requires = NoPermission
    /\ group' = [group EXCEPT !.endpoints[i].requires = permission]
    /\ UNCHANGED <<api, guarded, listed, bare>>

OfEach(endpoints, Op(_)) == [i \in DOMAIN endpoints |-> Op(endpoints[i])]
Attach(e) == [e EXCEPT !.attached = TRUE]

GroupMiddleware ==
    /\ group.endpoints # <<>>
    /\ group' = [group EXCEPT !.endpoints = OfEach(@, Attach)]
    /\ UNCHANGED <<api, guarded, listed, bare>>

annotateEndpoints(permission) ==
    /\ group.endpoints # <<>>
    /\ group' = [group EXCEPT !.endpoints =
                    OfEach(@, LAMBDA e : [e EXCEPT !.requires = permission])]
    /\ UNCHANGED <<api, guarded, listed, bare>>

AnnotateGroup(key) ==
    /\ group' = [group EXCEPT !.declares = @ \cup {key}]
    /\ UNCHANGED <<api, guarded, listed, bare>>

AddGroup ==
    /\ Len(api.groups) < MaxGroups /\ group.endpoints # <<>>
    /\ api' = [api EXCEPT !.groups = Append(@, group)]
    /\ group' = NewGroup(Len(api.groups) + 2)
    /\ UNCHANGED <<guarded, listed, bare>>

ApiMiddleware ==
    /\ api.groups # <<>>
    /\ api' = [api EXCEPT !.groups = OfEach(@, LAMBDA g :
                  [g EXCEPT !.endpoints = OfEach(@, Attach)])]
    /\ UNCHANGED <<group, guarded, listed, bare>>

AnnotateApi(key) ==
    /\ api' = [api EXCEPT !.declares = @ \cup {key}]
    /\ UNCHANGED <<group, guarded, listed, bare>>

guardApi ==
    /\ guarded = Unbuilt
    /\ LET walked == walkApi(api)
       IN  /\ guarded' = [of |-> api, refusal |-> walked.refusal,
                          members |-> IF walked.refusal = "none" THEN walked.members
                                      ELSE {}]
           /\ listed' = IF walked.refusal # "none" THEN listed
                        ELSE Registered(listed, api, walked.found)
    /\ UNCHANGED <<group, api, bare>>

addGuardedRoute(permission) ==
    /\ permission \notin bare
    /\ bare' = bare \cup {permission}
    /\ listed' = addDescriptor(listed, permission, BareRoute)
    /\ UNCHANGED <<group, api, guarded>>

GuardsNext ==
    /\ edits < MaxEdits /\ edits' = edits + 1
    /\ \/ AddEndpoint \/ GroupMiddleware \/ AddGroup \/ ApiMiddleware \/ guardApi
       \/ \E permission \in Guardable :
              \/ annotateEndpoints(permission) \/ addGuardedRoute(permission)
              \/ \E i \in DOMAIN group.endpoints : requiresPermission(i, permission)
       \/ \E key \in Declarations : AnnotateGroup(key) \/ AnnotateApi(key)

GuardsSpec == GuardsInit /\ [][GuardsNext]_guardVars

-----------------------------------------------------------------------------
(* What a request may meet: each class of failure, at the guard and in the *)
(* handler.                                                                *)
Requests ==
    {[header |-> h, lookup |-> l, guard |-> g, handler |-> f] :
        h \in {"absent", "basic", "token"},
        l \in {"caller", "SubjectExtractionFailed"},
        g \in {"none", "AccessDenied", "UndischargedObligation",
               "AttributeResolveError", "PolicyTooDeep"},
        f \in {"none", "AccessDenied", "MissingAction", "CustomPredicateError",
               "SubjectExtractionFailed", "handlers"}}

EndpointsOf(a) ==
    UNION {{<<g, e>> : e \in ToSet(g.endpoints)} : g \in ToSet(a.groups)}

Extracted(request) ==
    IF request.header # "token" THEN {Anonymous}
    ELSE IF request.lookup = "caller" THEN {"caller"} ELSE {}

(* What guardApi enforces it lists, under the permission it enforces, and  *)
(* it lists nothing else; a handler of an API it accepted runs only as a   *)
(* subject that was extracted and that the guard allowed, or as anonymous  *)
(* where the endpoint is declared public and requires nothing; and what is *)
(* not part of that API is refused wherever it has the middleware.         *)
(* (INV-QD-180, INV-QD-034; GuardApi.ts:10-11, 168-176)                    *)
ListedAreEnforced ==
    guarded # Unbuilt =>
    LET At(m, request) == Serve(guarded.members, m[1], m[2], request)
        Name(m) == <<m[1].name, m[2].name>>
        Enforced(p) == {Name(m) : m \in {n \in EndpointsOf(guarded.of) :
                           \E request \in Requests :
                               request.guard = "AccessDenied" /\ At(n, request).asks = p}}
    IN  /\ \A r \in DOMAIN listed : listed[r] = 1
        /\ \A p \in Guardable :
               {r[2] : r \in {l \in DOMAIN listed : l[1] = p}} =
                   {BareRoute : q \in bare \cap {p}} \cup
                        IF guarded.refusal = "none" THEN Enforced(p) ELSE {}
        /\ guarded.refusal = "none" =>
               \A m \in EndpointsOf(guarded.of), request \in Requests :
                   At(m, request).ran # Nobody =>
                       \/ /\ m[2].requires # NoPermission
                          /\ request.guard = "none"
                          /\ At(m, request).ran \in Extracted(request)
                       \/ /\ m[2].requires = NoPermission /\ m[2].public
                          /\ At(m, request).ran = Anonymous
        /\ \A m \in EndpointsOf(api) :
               m[2].attached /\ Name(m) \notin guarded.members =>
                   \A request \in Requests : At(m, request) = refuse

(* A failure is never told as a denial, nor a denial as a failure: 403 is  *)
(* answered when the guard or the handler denied, 502 when something that  *)
(* was asked broke, and both routing shapes answer alike; each denial and  *)
(* each failure to extract is logged once, where it was met; and neither   *)
(* shape tells a trace or a cause.  (INV-QD-006; QadiHttpError.ts:106-119, *)
(* AuthorizeRequest.ts:97-101)                                             *)
FailureIsNotDenial ==
    \A p \in bare, request \in Requests :
        LET r == enforce(p, request)
            b == guardRoute(p, request)
            error == IF Extracted(request) = {} THEN "SubjectExtractionFailed"
                     ELSE IF request.guard # "none" THEN request.guard
                     ELSE request.handler
        IN  /\ <<r.status, r.ran, r.logs>> = <<b.status, b.ran, b.logs>>
            /\ r.status = 403 <=> error \in ENFORCEMENT_DENIAL_TAGS
            /\ r.status = 502 <=> error \in {"AttributeResolveError",
                                             "CustomPredicateError",
                                             "SubjectExtractionFailed"}
            /\ Len(r.logs) = IF error \in ENFORCEMENT_DENIAL_TAGS
                                 \/ Extracted(request) = {} THEN 1 ELSE 0
            /\ (r.body \cup b.body) \cap {"trace", "cause"} = {}

(* What an API lists as guarded is what it enforces, and what is answered  *)
(* is what happened: no route is left open by the order its declarations   *)
(* were made in, and no failure is told as a denial.                       *)
(* (GuardApi.ts:168-176, AuthorizeRequest.ts:97-101)                       *)
GuardsHold == ListedAreEnforced /\ FailureIsNotDenial

=============================================================================
