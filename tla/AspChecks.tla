----------------------------- MODULE AspChecks -----------------------------
(***************************************************************************)
(* The composed world against what ASP promises of it, over every answer   *)
(* of a small set of an owner and a contributor about two entities, asked  *)
(* in either order.                                                        *)
(***************************************************************************)
LOCAL INSTANCE Integers
LOCAL INSTANCE SequencesExt
LOCAL INSTANCE FiniteSets

A == INSTANCE Asp
U == INSTANCE Uses WITH Retained <- 2, Before <- <

FileA == <<"file", "a">>
Symbol == <<"symbol", "m">>
Scheme(owner) == [owner |-> owner, says |-> {}]
Declared(schemes) ==
    [roots |-> {}, schemes |-> schemes, edges |-> {"has"}, attributes |-> {}, actions |-> <<>>,
     search |-> TRUE]
Plan(id, declared) == [id |-> id, name |-> id, doors |-> {"asp." \o id}, declared |-> declared]

Files == Plan("files", Declared([file |-> Scheme(TRUE)]))
Symbols == Plan("symbols", Declared([file |-> Scheme(FALSE), symbol |-> Scheme(TRUE)]))
Orders == {<<Files, Symbols>>, <<Symbols, Files>>}

Row(id, revision, name) == A!Row(id, revision, name, {}, "tag")
Has(revision) == [A!Edge(FileA, Symbol, "has") EXCEPT !.revision = revision]
Back == A!Edge(Symbol, FileA, "has")
Answer(nodes, edges) == [nodes |-> nodes, edges |-> edges]

PastDeclaration ==
    {Answer(<<>>, <<A!Edge(FileA, Symbol, "calls")>>), Answer(<<Row(Symbol, "r1", {"main"})>>, <<>>),
     Answer(<<Row(FileA, "r1", {}), Row(<<"file", "">>, "r1", {})>>, <<>>)}
OwnerAnswers ==
    PastDeclaration
        \cup {A!Silent, Answer(<<Row(FileA, "r1", {"main"})>>, <<>>),
              Answer(<<Row(FileA, "r1", {})>>, <<Has("r1")>>)}
SymbolAnswers ==
    {A!Silent, Answer(<<Row(FileA, "r2", {"other"}), Row(Symbol, "r1", {"m"})>>, <<Has("r2")>>),
     Answer(<<Row(FileA, A!Unsaid, {"other"}), Row(FileA, "r1", {})>>, <<Has(A!Unsaid), Has("r1")>>)}
BelowAnswers ==
    {A!Silent, Answer(<<Row(Symbol, "r3", {"m"}), Row(Symbol, "r3", {})>>, <<Back>>),
     Answer(<<Row(FileA, "r3", {"third"})>>, <<>>)}

Asks ==
    {[on \in {<<"files", FileA>>, <<"symbols", FileA>>, <<"symbols", Symbol>>} |->
        IF on[1] = "files" THEN o ELSE IF on[2] = FileA THEN s ELSE b]
        : o \in OwnerAnswers, s \in SymbolAnswers, b \in BelowAnswers}

Everything == 9
Ids(answer) == {answer.nodes[i].id : i \in DOMAIN answer.nodes}
Far(answer) == UNION {{answer.edges[i].from, answer.edges[i].to} : i \in DOMAIN answer.edges}

(* The answers that count: in time, and inside the declaration.            *)
Counts(plan, ask, subject) ==
    /\ <<plan.id, subject>> \in DOMAIN ask
    /\ ask[<<plan.id, subject>>] \notin PastDeclaration \cup {A!Silent}
Answers(ask, subject) == {ask[<<p.id, subject>>] : p \in {q \in {Files, Symbols} : Counts(q, ask, subject)}}

(* An expansion holds what is asserted about the entity and, one level     *)
(* deeper, about everything an edge of it leads to; an answer that came    *)
(* late or went past its declaration adds nothing.  expand.rs:38-108.      *)
ASSUME ExpandReaches ==
    \A registry \in Orders, ask \in Asks :
        LET near == Answers(ask, FileA)
            next == UNION {Far(a) : a \in near}
            far  == UNION {Answers(ask, s) : s \in {Symbol} \cap next}
            ids(answers) == UNION {Ids(a) : a \in answers}
        IN /\ DOMAIN A!Expand(registry, ask, FileA, 1, Everything).nodes = ids(near)
           /\ DOMAIN A!Expand(registry, ask, FileA, 2, Everything).nodes = ids(near \cup far)
           /\ A!Expand(registry, ask, FileA, 4, Everything) = A!Expand(registry, ask, FileA, 3, Everything)

(* What the owner calls an entity stands, in whatever order the providers  *)
(* answer; the order decides only between two who do not own it.           *)
ASSUME TheOwnerNames ==
    \A registry \in Orders, ask \in Asks, depth \in 1 .. 2 :
        LET world == A!Expand(registry, ask, FileA, depth, Everything)
            own   == IF Counts(Files, ask, FileA) THEN ask[<<"files", FileA>>].nodes ELSE <<>>
        IN (FileA \in DOMAIN world.nodes /\ own # <<>> /\ own[1].name # {})
              => world.nodes[FileA].name = own[1].name

(* A fact about the entity is stale exactly when the owner of its scheme   *)
(* gives another revision in the same answer, and nobody is heard twice on *)
(* one entity or one edge.  expand.rs:73-86, world.rs:57-78.               *)
ASSUME StaleAgainstTheOwner ==
    \A registry \in Orders, ask \in Asks :
        LET world == A!Expand(registry, ask, FileA, 1, Everything)
            owned == Counts(Files, ask, FileA) /\ ask[<<"files", FileA>>].nodes # <<>>
            holds(assertion) ==
                assertion.stale = (owned /\ assertion.revision \notin {A!Unsaid, "r1"})
        IN /\ \A id \in DOMAIN world.nodes :
                LET heard == world.nodes[id].contributors
                IN /\ \A i \in DOMAIN heard : holds(heard[i])
                   /\ \A i, j \in DOMAIN heard : i # j => heard[i].contributor # heard[j].contributor
           /\ \A i \in DOMAIN world.edges : holds(world.edges[i].assertion)
           /\ \A i, j \in DOMAIN world.edges : i # j =>
                <<world.edges[i].from, world.edges[i].to, world.edges[i].assertion.contributor>>
                    # <<world.edges[j].from, world.edges[j].to, world.edges[j].assertion.contributor>>

(* The limit bounds the nodes and loses nobody's state: each provider that *)
(* was asked is reported, and one that failed stays reported so.           *)
ASSUME LimitedAndReported ==
    \A registry \in Orders, ask \in Asks, depth \in 1 .. 2, limit \in 1 .. 2 :
        LET world == A!Expand(registry, ask, FileA, depth, limit)
        IN /\ Cardinality(DOMAIN world.nodes) <= limit
           /\ DOMAIN world.sources = {"files", "symbols"}
           /\ \A p \in {Files, Symbols} :
                LET state == A!Availability(p, ask[<<p.id, FileA>>])
                IN /\ state # "available" => world.sources[p.id] = state
                   /\ state = "refused" <=> ask[<<p.id, FileA>>] \in PastDeclaration

(* A provider that answers one level and fails the next is reported        *)
(* unavailable while what it said before stays: docs/asp.txt:149 says the  *)
(* facts of an unavailable one are absent.                                 *)
ASSUME FactsOfTheUnavailable ==
    \E ask \in Asks :
        LET world == A!Expand(<<Files, Symbols>>, ask, FileA, 2, Everything)
        IN /\ world.sources["symbols"] = "unavailable"
           /\ \E i \in DOMAIN world.edges : world.edges[i].assertion.contributor = "symbols"

(* A search answers with the best of what was found, in an order the words *)
(* decide and then the providers; what no word names comes after what one  *)
(* does; and no edge leads out of the answer.  search.rs:33-75.            *)
Searches == {[p \in {"files", "symbols"} |-> IF p = "files" THEN o ELSE s]
                : o \in OwnerAnswers, s \in SymbolAnswers \cup BelowAnswers}
ASSUME SearchIsRanked ==
    \A registry \in Orders, ask \in Searches, query \in {{"main"}, {"m", "other"}}, limit \in 1 .. 2 :
        LET found == A!Search(registry, ask, query, limit)
            score(id) == A!Score(query, id, found.nodes[id])
            hits  == ToSet(found.hits)
        IN /\ Len(found.hits) <= limit
           /\ hits = DOMAIN found.nodes \/ Len(found.hits) = limit
           /\ \A i, j \in DOMAIN found.hits : i < j => score(found.hits[i]) >= score(found.hits[j])
           /\ \A id \in DOMAIN found.nodes \ hits, hit \in hits : score(hit) >= score(id)
           /\ \A i \in DOMAIN found.edges : {found.edges[i].from, found.edges[i].to} \subseteq hits

(* Only who says it answers searches is asked.                            *)
ASSUME OnlySearchersAreAsked ==
    \A ask \in Searches :
        LET mute == [Symbols EXCEPT !.declared.search = FALSE]
        IN DOMAIN A!Search(<<Files, mute>>, ask, {"m"}, 2).sources = {"files"}

(***************************************************************************)
(* The base's own answer, for a composition of two cartridges of which one *)
(* is active and declares an event and a tool.                             *)
(***************************************************************************)
Event(name, key) == [name |-> name, key |-> key, tool |-> key # "none", says |-> {"word"}]
HostPlan(events, roots) ==
    {[id |-> "active", events |-> events, declared |-> [roots |-> roots]],
     [id |-> A!Host, events |-> {Event("tool.asp", "asp")}, declared |-> A!OwnTypes]}
Member(id, state) == [id |-> id, generation |-> "g1", state |-> state, failed |-> state = "failed"]
Members == {Member("active", "active"), Member("broken", "failed"), Member(A!Host, "active")}
Base == [id |-> A!Host, name |-> A!Host, doors |-> {}, declared |-> A!OwnTypes]
Tool == Event("tool.read", "read")

Abouts ==
    {[op |-> "expand", entity |-> e] :
        e \in {<<"asp", "root">>, <<"cartridge", "active">>, <<"cartridge", "broken">>, <<"tool", "read">>,
               <<"event", "tool.read">>, <<"event", "none">>}}
        \cup {[op |-> "search", query |-> q] : q \in {{"active"}, {"read"}, {"word"}}}

(* What the base says of itself passes its own declaration, so it is never *)
(* the provider that is refused; every edge it gives from an entity it     *)
(* describes leads to a declared root or to one it describes when asked.   *)
ASSUME TheBaseIsAdmitted ==
    \A events \in SUBSET {Tool, Event("changed", "none")}, roots \in {{}, {<<"file", "src">>}}, about \in Abouts :
        LET answer(q) == A!OwnAnswer(HostPlan(events, roots), Members, q)
            given == answer(about)
        IN /\ A!Availability(Base, given) = "available"
           /\ \A i \in DOMAIN given.edges :
                LET to == given.edges[i].to
                IN to \in roots \/ to \in Ids(answer([op |-> "expand", entity |-> to]))
           /\ <<"tool", "read">> \in Ids(given) /\ about.op = "expand"
                => <<"cartridge", "active">> \in Ids(given)

(* An event named just `tool.` gives a tool without a key, and the base    *)
(* refuses its own answer about the cartridge that declares it.            *)
ASSUME KeylessTool ==
    A!Availability(Base, A!OwnAnswer(HostPlan({Event("tool.", "")}, {}), Members,
                                     [op |-> "expand", entity |-> <<"cartridge", "active">>])) = "refused"

(* Of two that declare themselves owners, the first is, and the other is   *)
(* the clash; and an agent gets no action to run.                          *)
Rival == Plan("rival", [Declared([file |-> Scheme(TRUE)])
                           EXCEPT !.actions = <<[name |-> "open", applies_to |-> "file", tool |-> "tool.open",
                                                 arg |-> "${key}"]>>])
Request(op) == [op |-> op, entity |-> FileA, action |-> "open", depth |-> 0, limit |-> 0, query |-> {}]
ASSUME OneOwner ==
    /\ A!Clashes(A!Registry(<<Files, Rival, Symbols>>)) = {<<"rival", "file">>}
    /\ A!Owner(A!Registry(<<Rival, Files>>), "file") = "rival"
    /\ ~A!Problem(Rival) /\ A!Problem([Rival EXCEPT !.doors = {}])
    /\ A!Described(<<Files, Symbols>>, "file") = {}
    /\ A!Serve(<<Files, Rival>>, <<>>, Request("act")) = [tool |-> "tool.open", arg |-> "a"]
    /\ A!ServeAgent(<<Files, Rival>>, <<>>, Request("act")) = A!Refused
    /\ A!Serve(<<Files, Rival>>, <<>>, Request("search")) = A!Refused
    /\ A!Serve(<<Symbols>>, <<>>, [Request("expand") EXCEPT !.entity = <<"memo", "x">>]) = A!Refused
    /\ \A ask \in Asks : A!ServeAgent(<<Files, Symbols>>, ask, Request("expand"))
                           = A!Expand(<<Files, Symbols>>, ask, FileA, 1, A!AgentLimit)

(***************************************************************************)
(* The uses: every sequence of up to three of them, with two retained.     *)
(***************************************************************************)
Lookups == [entities : SUBSET {1, 3}, nodes : {{}, {1, 2}, {2, 3}, {1, 2, 3}}, edges : {<<>>, <<<<1, 2>>, <<2, 3>>>>}]
Longer == [entities : {{1}, {3}}, nodes : {{1, 2}, {2, 3}}, edges : {<<<<1, 2>>>>, <<<<2, 3>>, <<3, 1>>>>}]
AfterUses(lookups) ==
    FoldLeft(LAMBDA uses, l : U!Record(uses, "expand", l.entities, l.nodes, l.edges), U!NoUses, lookups)

(* The newest records stay in their order, nothing grows past the bound,  *)
(* and no entity a retained record names goes before one that none does.   *)
ASSUME UsesAreBounded ==
    \A lookups \in UNION {[1 .. n -> Lookups] : n \in 1 .. 2} \cup [1 .. 3 -> Longer] :
        LET uses == AfterUses(lookups)
            n    == Len(lookups)
            named == U!Referenced(uses.records)
            all  == UNION {lookups[i].nodes : i \in DOMAIN lookups}
        IN /\ [i \in DOMAIN uses.records |-> uses.records[i].seq] = IF n > 2 THEN <<n - 1, n>> ELSE [i \in 1 .. n |-> i]
           /\ Cardinality(uses.nodes) <= 2 /\ uses.nodes \subseteq all
           /\ Len(uses.edges) <= 2 /\ Cardinality(ToSet(uses.edges)) = Len(uses.edges)
           /\ \A last \in lookups[n].nodes \cap named :
                last \in uses.nodes \/ uses.nodes \subseteq named

(* A file outside the project is no entity, whatever path names it, and a *)
(* viewer's own questions leave no use.                                    *)
Steps == {"root", "src", "..", "."}
Asking(family, path) ==
    [family |-> family, name |-> "tool.read", op |-> "call", action |-> "none", cwd |-> <<"root">>,
     path |-> path, absolute |-> FALSE, entity |-> {}]
ASSUME DispatchesInside ==
    \A path \in UNION {[1 .. n -> Steps] : n \in 0 .. 4} :
        LET uses == U!Dispatch(U!NoUses, <<"root">>, Asking("tool", path))
            files == {e \in U!Referenced(uses.records) : e[1] = "file"}
        IN /\ U!Dispatch(U!NoUses, <<"root">>, Asking("asp", path)) = U!NoUses
           /\ files = IF path # <<>> /\ IsPrefix(<<"root">>, U!Clean(<<"root">> \o path))
                      THEN {<<"file", Tail(U!Clean(<<"root">> \o path))>>} ELSE {}
           /\ \A e \in files : ~Contains(e[2], "..")
=============================================================================
