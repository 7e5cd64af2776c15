-------------------------------- MODULE Asp --------------------------------
(***************************************************************************)
(* The world the base composes on request from what every active cartridge *)
(* asserts (src/asp).  An entity is a pair of a scheme and a key, a text is *)
(* the set of the words `tokens` finds in it, and a row of an answer `fits` *)
(* when it parses and passes the schemas its declaration names for it.     *)
(* What a provider answers is a function of the provider and the subject:  *)
(* every request asks the live provider again, which may answer one and    *)
(* fail the next.                                                          *)
(***************************************************************************)
EXTENDS Integers, Sequences, SequencesExt, FiniteSets, TLC

Host == "host"
Nobody == "nobody"
Unsaid == "unsaid"          (* no revision *)
Silent == [silent |-> TRUE]  (* the provider failed or ran out of time *)

SchemeOf(entity) == IF entity[1] # "" /\ entity[2] # "" THEN entity[1] ELSE Nobody
Named(words) == words # {}

(***************************************************************************)
(* The registry: who declares what, in the order of the active plans.      *)
(***************************************************************************)
Declares(declared) ==
    \/ declared.roots # {} \/ DOMAIN declared.schemes # {} \/ declared.edges # {}
    \/ declared.attributes # {} \/ declared.actions # <<>> \/ declared.search

Registry(plans) ==
    SelectSeq(plans, LAMBDA plan : /\ Declares(plan.declared)
                                   /\ plan.id = Host \/ plan.doors # {})

(* Why a declaration is refused when its cartridge is planned. *)
Problem(plan) ==
    /\ Declares(plan.declared)
    /\ \/ Cardinality(plan.doors) # 1
       \/ \E root \in plan.declared.roots : SchemeOf(root) \notin DOMAIN plan.declared.schemes
       \/ \E attribute \in plan.declared.attributes : attribute[1] # plan.name

Owners(registry, scheme) ==
    SelectSeq(registry, LAMBDA p : /\ scheme \in DOMAIN p.declared.schemes
                                   /\ p.declared.schemes[scheme].owner)
Owner(registry, scheme) ==
    LET owners == Owners(registry, scheme) IN IF owners = <<>> THEN Nobody ELSE Head(owners).id

Expanding(registry, scheme) == SelectSeq(registry, LAMBDA p : scheme \in DOMAIN p.declared.schemes)

Clashes(registry) ==
    UNION {{<<p.id, scheme>> : scheme \in {t \in DOMAIN p.declared.schemes :
                p.declared.schemes[t].owner /\ Owner(registry, t) # p.id}} : p \in Range(registry)}

(* What `types` says of a scheme: the first text anybody gives, unless the *)
(* owner gives one.                                                        *)
Described(registry, scheme) ==
    FoldLeft(LAMBDA text, p : LET given == p.declared.schemes[scheme].says
                              IN IF given # {} /\ (text = {} \/ p.id = Owner(registry, scheme))
                                 THEN given ELSE text,
             {}, Expanding(registry, scheme))

(* An action is bound to the entity where its arguments say so. *)
Bind(arg, entity) == CASE arg = "${entity}" -> entity [] arg = "${key}" -> entity[2] [] OTHER -> arg

ActionsOf(provider, entity) ==
    LET its == SelectSeq(provider.declared.actions, LAMBDA a : a.applies_to = entity[1])
    IN [i \in DOMAIN its |-> [name |-> its[i].name, contributor |-> provider.id, tool |-> its[i].tool,
                              arg |-> Bind(its[i].arg, entity)]]
Actions(registry, entity) ==
    FoldLeft(LAMBDA bound, p : bound \o ActionsOf(p, entity), <<>>, registry)

(***************************************************************************)
(* Admission: one row past its declaration refuses the whole answer.       *)
(***************************************************************************)
Covered(provider, answer) ==
    /\ \A i \in DOMAIN answer.nodes :
         /\ answer.nodes[i].fits
         /\ SchemeOf(answer.nodes[i].id) \in DOMAIN provider.declared.schemes
         /\ DOMAIN answer.nodes[i].attributes \subseteq provider.declared.attributes
    /\ \A i \in DOMAIN answer.edges :
         /\ answer.edges[i].fits
         /\ answer.edges[i].kind \in provider.declared.edges
         /\ Nobody \notin {SchemeOf(answer.edges[i].from), SchemeOf(answer.edges[i].to)}

Availability(provider, answer) ==
    IF answer = Silent THEN "unavailable"
    ELSE IF Covered(provider, answer) THEN "available" ELSE "refused"

(***************************************************************************)
(* The merge.                                                              *)
(***************************************************************************)
World(nodes, edges, sources) == [nodes |-> nodes, edges |-> edges, sources |-> sources]
NoWorld == World(<<>>, <<>>, <<>>)

(* A source that failed once stays what it was then. *)
Source(world, contributor, state) ==
    IF contributor \in DOMAIN world.sources
    THEN IF world.sources[contributor] # "available" THEN world
         ELSE [world EXCEPT !.sources[contributor] = state]
    ELSE [world EXCEPT !.sources = @ @@ (contributor :> state)]

Assertion(contributor, revision, stale) ==
    [contributor |-> contributor, revision |-> revision, stale |-> stale]

(* The owner of a scheme describes the entity, anyone else fills in what   *)
(* nobody has said yet.                                                    *)
Fill(owns, place, given) == IF Named(given) /\ (owns \/ ~Named(place)) THEN given ELSE place

NoNode == [name |-> {}, description |-> {}, when |-> {}, tags |-> {}, attributes |-> <<>>,
           contributors |-> <<>>]

AssertedBy(contributors, assertion) ==
    IF Contains(contributors, assertion) THEN contributors
    ELSE Append(SelectSeq(contributors, LAMBDA a : a.contributor # assertion.contributor), assertion)

Assert_(world, owns, row, assertion) ==
    LET node == IF row.id \in DOMAIN world.nodes THEN world.nodes[row.id] ELSE NoNode
        told == [name |-> Fill(owns, node.name, row.name),
                 description |-> Fill(owns, node.description, row.description),
                 when |-> node.when \cup row.when, tags |-> node.tags \cup row.tags,
                 attributes |-> row.attributes @@ node.attributes,
                 contributors |-> AssertedBy(node.contributors, assertion)]
    IN [world EXCEPT !.nodes = (row.id :> told) @@ @]

SameEdge(e, f) ==
    /\ <<e.from, e.to, e.kind>> = <<f.from, f.to, f.kind>>
    /\ e.assertion.contributor = f.assertion.contributor

Link(world, row, assertion) ==
    LET edge == [from |-> row.from, to |-> row.to, kind |-> row.kind, assertion |-> assertion]
    IN IF \E i \in DOMAIN world.edges : SameEdge(world.edges[i], edge) THEN world
       ELSE [world EXCEPT !.edges = Append(@, edge)]

(***************************************************************************)
(* expand: level by level along the edges, each entity asked about once.   *)
(* `ask` holds the answers: a function of providers and subjects.          *)
(***************************************************************************)
AllSources(world, asked) ==
    FoldLeft(LAMBDA w, a : Source(w, a.provider.id, Availability(a.provider, a.answer)), world, asked)

Admitted(asked) == SelectSeq(asked, LAMBDA a : Availability(a.provider, a.answer) = "available")

(* The owner's revision of the subject, from the first row about it. *)
Canonical(registry, admitted, subject) ==
    LET own  == SelectSeq(admitted, LAMBDA a : a.provider.id = Owner(registry, subject[1]))
        rows == FoldLeft(LAMBDA found, a : found \o SelectSeq(a.answer.nodes, LAMBDA n : n.id = subject),
                         <<>>, own)
    IN IF rows = <<>> THEN Unsaid ELSE Head(rows).revision

Stale(canonical, revision) == canonical # Unsaid /\ revision # Unsaid /\ revision # canonical

TakeNode(registry, canonical, limit, by, world, row) ==
    IF Cardinality(DOMAIN world.nodes) >= limit /\ row.id \notin DOMAIN world.nodes THEN world
    ELSE Assert_(world, Owner(registry, SchemeOf(row.id)) = by, row,
                 Assertion(by, row.revision, Stale(canonical, row.revision)))

TakeFacts(registry, canonical, limit, world, a) ==
    LET by    == a.provider.id
        nodes == FoldLeft(LAMBDA w, row : TakeNode(registry, canonical, limit, by, w, row),
                          world, a.answer.nodes)
    IN FoldLeft(LAMBDA w, row : Link(w, row, Assertion(by, row.revision, Stale(canonical, row.revision))),
                nodes, a.answer.edges)

Asked(registry, ask, subject) ==
    LET providers == Expanding(registry, SchemeOf(subject))
    IN [i \in DOMAIN providers |-> [provider |-> providers[i], answer |-> ask[<<providers[i].id, subject>>]]]

TakeSubject(registry, ask, limit, world, subject) ==
    LET asked    == Asked(registry, ask, subject)
        admitted == Admitted(asked)
        canonical == Canonical(registry, admitted, subject)
    IN FoldLeft(LAMBDA w, a : TakeFacts(registry, canonical, limit, w, a),
                AllSources(world, asked), admitted)

(* The ends of the edges admitted about a subject are asked about next. *)
Ends(registry, ask, subject) ==
    LET admitted == Admitted(Asked(registry, ask, subject))
        edges    == FoldLeft(LAMBDA found, a : found \o a.answer.edges, <<>>, admitted)
    IN FoldLeft(LAMBDA found, e : found \o <<e.from, e.to>>, <<>>, edges)

Unasked(frontier, seen) ==
    FoldLeft(LAMBDA list, e : IF e \in seen \/ Contains(list, e) THEN list ELSE Append(list, e),
             <<>>, frontier)

RECURSIVE Levels(_, _, _, _, _, _, _)
Levels(registry, ask, limit, world, seen, frontier, depth) ==
    LET subjects == Unasked(frontier, seen)
    IN IF depth = 0 \/ subjects = <<>> \/ Cardinality(DOMAIN world.nodes) >= limit THEN world
       ELSE Levels(registry, ask, limit,
                   FoldLeft(LAMBDA w, subject : TakeSubject(registry, ask, limit, w, subject),
                            world, subjects),
                   seen \cup Range(subjects),
                   FoldLeft(LAMBDA list, subject : list \o Ends(registry, ask, subject), <<>>, subjects),
                   depth - 1)

Expand(registry, ask, entity, depth, limit) ==
    Levels(registry, ask, limit, NoWorld, {}, <<entity>>, depth)

(***************************************************************************)
(* search: every provider's nodes, merged and ranked; an edge is kept      *)
(* while both its ends are among the hits.                                 *)
(***************************************************************************)
Weight(query, words) == Cardinality(query \cap words)

Score(query, id, node) ==
    LET named == node.name \cup Range(id)
    IN 3 * Weight(query, named) + 3 * Weight(query, node.when) + 2 * Weight(query, node.tags)
         + Weight(query, node.description)
         + (IF Named(query) /\ query \subseteq named THEN 4 * Cardinality(query) ELSE 0)

(* Best first, and equal ones in the order the providers gave them. *)
Ranked(query, order, nodes) ==
    LET better(i, j) == \/ Score(query, order[i], nodes[order[i]]) > Score(query, order[j], nodes[order[j]])
                        \/ /\ Score(query, order[i], nodes[order[i]]) = Score(query, order[j], nodes[order[j]])
                           /\ i < j
        places == SetToSortSeq(DOMAIN order, better)
    IN [i \in DOMAIN places |-> order[places[i]]]

Found(registry, world, a) ==
    LET by == a.provider.id
        linked == FoldLeft(LAMBDA w, row : Link(w, row, Assertion(by, row.revision, FALSE)),
                           world, a.answer.edges)
    IN FoldLeft(LAMBDA w, row : Assert_(w, Owner(registry, SchemeOf(row.id)) = by, row,
                                        Assertion(by, row.revision, FALSE)),
                linked, a.answer.nodes)

Search(registry, ask, query, limit) ==
    LET providers == SelectSeq(registry, LAMBDA p : p.declared.search)
        asked     == [i \in DOMAIN providers |-> [provider |-> providers[i], answer |-> ask[providers[i].id]]]
        world     == FoldLeft(LAMBDA w, a : Found(registry, w, a), AllSources(NoWorld, asked), Admitted(asked))
        order     == FoldLeft(LAMBDA list, a : Unasked(list \o [i \in DOMAIN a.answer.nodes |-> a.answer.nodes[i].id], {}),
                              <<>>, Admitted(asked))
        ranked    == Ranked(query, order, world.nodes)
        hits      == SubSeq(ranked, 1, IF Len(ranked) < limit THEN Len(ranked) ELSE limit)
    IN [hits |-> hits, nodes |-> world.nodes, sources |-> world.sources,
        edges |-> SelectSeq(world.edges, LAMBDA e : {e.from, e.to} \subseteq Range(hits))]

(***************************************************************************)
(* The base as a provider: the cartridges of the profile, the events of    *)
(* the active ones, the tools among them and the roots they declare.       *)
(***************************************************************************)
Row(id, revision, name, description, tag) ==
    [id |-> id, revision |-> revision, name |-> name, description |-> description, when |-> {},
     tags |-> {tag}, attributes |-> <<>>, fits |-> TRUE]
Edge(from, to, kind) == [from |-> from, to |-> to, kind |-> kind, revision |-> Unsaid, fits |-> TRUE]

Of(name) == <<Host, name>>

MemberNode(member) ==
    [Row(<<"cartridge", member.id>>, member.generation, {member.id}, {}, "cartridge")
        EXCEPT !.attributes = [a \in {Of("state")} \cup (IF member.failed THEN {Of("error")} ELSE {})
                                 |-> member.state]]

OwnTypes ==
    [roots |-> {}, edges |-> {"contains", "provides"}, attributes |-> {Of("state"), Of("error"), Of("event")},
     actions |-> <<>>, search |-> TRUE,
     schemes |-> [s \in {"asp", "event", "cartridge", "tool"} |-> [owner |-> TRUE, says |-> {s}]]]

OwnAnswer(plans, members, about) ==
    LET subject(id) == about.op = "expand" /\ about.entity = id
        matches(words) == about.op = "search" /\ about.query \cap words # {}
        cartridge(plan) == <<"cartridge", plan.id>>
        event(e) == <<"event", e.name>>
        tool(e) == <<"tool", e.key>>
        root == <<"asp", "root">>
        declared == {[plan |-> plan, event |-> e] : plan \in plans, e \in UNION {p.events : p \in plans}}
        events == {d \in declared : d.event \in d.plan.events}
        shown == {d \in events : \/ subject(event(d.event)) \/ subject(cartridge(d.plan))
                                 \/ matches({d.event.name} \cup d.event.says)}
        tools == {d \in events : d.event.tool}
        asked == {d \in tools : subject(tool(d.event)) \/ subject(cartridge(d.plan))}
        people == {m \in members : \/ subject(<<"cartridge", m.id>>) \/ matches({m.id})
                                   \/ \E d \in asked : subject(tool(d.event)) /\ d.plan.id = m.id}
    IN [nodes |-> SetToSeq(
            {[Row(event(d.event), Unsaid, {d.event.name}, d.event.says, "event")
                 EXCEPT !.attributes = (Of("event") :> d.event)] : d \in shown}
              \cup {MemberNode(m) : m \in people}
              \cup {Row(tool(d.event), Unsaid, {d.event.key}, d.event.says, "tool") :
                       d \in asked \cup {t \in tools : matches({t.event.key} \cup t.event.says)}}
              \cup {Row(r, Unsaid, {"ASP"}, {}, "asp") : r \in {q \in {root} : subject(q)}}),
        edges |-> SetToSeq(
            {Edge(cartridge(d.plan), event(d.event), "provides") : d \in shown}
              \cup {Edge(cartridge(d.plan), tool(d.event), "provides") : d \in asked}
              \cup IF ~subject(root) THEN {}
                   ELSE UNION {{Edge(root, e, "contains") : e \in {cartridge(plan)} \cup plan.declared.roots}
                               : plan \in plans})]

(***************************************************************************)
(* The service and the agent's tool.                                       *)
(***************************************************************************)
DefaultDepth == 1
MaxDepth == 4
MaxLimit == 256
AgentLimit == 20
NotGiven == 0
Refused == [refused |-> TRUE]

Clamped(given, default, most) ==
    IF given = NotGiven THEN default ELSE IF given > most THEN most ELSE given

(* An action runs by calling its tool with its bound argument: the first   *)
(* of that name, in the order of the registry.                             *)
Act(registry, request) ==
    LET offered == SelectSeq(Actions(registry, request.entity), LAMBDA a : a.name = request.action)
    IN IF offered = <<>> THEN Refused ELSE [tool |-> Head(offered).tool, arg |-> Head(offered).arg]

Serve(registry, ask, request) ==
    IF request.op = "search"
    THEN IF ~Named(request.query) THEN Refused
         ELSE Search(registry, ask, request.query, Clamped(request.limit, MaxLimit, MaxLimit))
    ELSE IF SchemeOf(request.entity) = Nobody THEN Refused
    ELSE CASE request.op = "actions" -> [actions |-> Actions(registry, request.entity)]
           [] request.op = "act" -> Act(registry, request)
           [] request.op = "expand" ->
                IF Expanding(registry, SchemeOf(request.entity)) = <<>> THEN Refused
                ELSE Expand(registry, ask, request.entity,
                            Clamped(request.depth, DefaultDepth, MaxDepth),
                            Clamped(request.limit, MaxLimit, MaxLimit))

(* An agent runs no action here, and reads few entities unless it asks.    *)
ServeAgent(registry, ask, request) ==
    IF request.op = "act" THEN Refused
    ELSE Serve(registry, ask, [request EXCEPT !.limit = Clamped(@, AgentLimit, @)])
=============================================================================
