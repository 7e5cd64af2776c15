---------------------------- MODULE LedgerChecks ----------------------------
(***************************************************************************)
(* Ledger against reference definitions, over every tree of two folders at *)
(* the top and one nested in the first, with two keys.                     *)
(***************************************************************************)
LOCAL INSTANCE SequencesExt
LOCAL INSTANCE FiniteSets
LOCAL INSTANCE Integers

Names == [a |-> <<"a">>, b |-> <<"b">>, nested |-> <<"a", "c">>]
Folders == {Names.a, Names.b, Names.nested}

PathId(path) == IF path = Names.a THEN "a" ELSE IF path = Names.b THEN "b" ELSE "a/c"
(* Letters fold to lower case and a slash to an underscore. *)
LowerName(id) == CASE id = "A" -> "a" [] id = "a/c" -> "a_c" [] OTHER -> id

L == INSTANCE Ledger WITH SocketName <- LowerName, IdOf <- PathId

Need(key) == [key |-> key, optional |-> FALSE]
Perhaps(key) == [key |-> key, optional |-> TRUE]
NeedLists == {<<>>, <<Need("x")>>, <<Perhaps("y")>>, <<Need("y"), Need("x")>>}
Manifests ==
    {[listen |-> listen, needs |-> needs, contracts |-> {"works"}]
        : listen \in SUBSET {"x", "y"}, needs \in NeedLists} \cup {L!Unread}
Trees == UNION {[at -> Manifests] : at \in {Folders, {Names.a, Names.b}, {Names.b, Names.nested}}}

(* The least set of cartridges that holds the target and, with a cartridge, *)
(* every provider one of its needs binds to alone.                         *)
ClosedUnder(ledger, set) ==
    \A path \in set, key \in {"x", "y"} :
        Contains(ledger[path].needs, key) /\ Cardinality(L!Offered(ledger, path, key)) = 1
            => L!Offered(ledger, path, key) \subseteq set
Closure(ledger, target) ==
    {path \in DOMAIN ledger :
        \A set \in SUBSET DOMAIN ledger : target \in set /\ ClosedUnder(ledger, set) => path \in set}

(* A cartridge is verified with exactly what it needs, directly or through *)
(* others, itself first and nothing twice; it is refused exactly when some *)
(* need on the way binds to nothing or to several.  run.rs:82-139.         *)
ASSUME SoloIsTheClosure ==
    \A tree \in Trees : LET ledger == L!Scan(tree) IN \A target \in DOMAIN ledger :
        LET chosen == L!Solo(tree, target)
            all    == Closure(ledger, target)
            broken == \E path \in all, key \in {"x", "y"} :
                         Contains(ledger[path].needs, key) /\ L!Resolve(ledger, path, key).bound # "one"
        IN IF broken \/ tree[target] = L!Unread THEN chosen = L!Nobody
           ELSE /\ Head(chosen) = target /\ ToSet(chosen) = all
                /\ Len(chosen) = Cardinality(all)

(* Whatever binds is offered by somebody else, and a folder without a     *)
(* manifest hides the one below it.  ledger/mod.rs:72-117.                 *)
ASSUME BoundToAnother ==
    \A tree \in Trees : LET ledger == L!Scan(tree) IN
        /\ Names.nested \in DOMAIN ledger => Names.a \in DOMAIN tree
        /\ \A bound \in L!Bindings(ledger) :
             bound[1] \notin bound[3].paths /\ \A p \in bound[3].paths : tree[p] # L!Unread

(* A verified cartridge calls its own contracts only.                     *)
ASSUME ContractsOfTheTarget ==
    \A tree \in Trees : \A target \in DOMAIN L!Scan(tree) :
        LET chosen == L!Solo(tree, target)
            entries == L!SoloEntries(chosen)
        IN chosen # L!Nobody
            => /\ L!Contracts(tree, entries, target) = L!Accepted({<<PathId(target), "works">>})
               /\ L!Entries(tree, <<>>, chosen, L!Empty, L!Empty) = L!Accepted(entries)

(* The entries init.lua may hold, and two config files. *)
Plain == [listen |-> {}, needs |-> <<>>, contracts |-> {}]
Project == [path \in Folders |-> Plain]
Named == {L!ComposedEntry(id, path, disabled) : id \in {"a", "A", "b", "a_c", ""}, path \in Folders, disabled \in BOOLEAN}
Overrides == {<<>>} \cup {<<e>> : e \in Named} \cup {<<e, f>> : e \in Named, f \in Named}
Sized(id, k) == L!Table([i \in {id} |-> L!Table([size |-> [is |-> "integer", n |-> k]])])

(* A composition is refused or every cartridge at the top has its entry:  *)
(* what init.lua says of it, or a disabled one; and no two entries bind one *)
(* socket, which the second to start would take from the first.            *)
ASSUME EveryFolderOnce ==
    \A overrides \in Overrides :
        LET answer  == L!Entries(Project, overrides, L!Nobody, Sized("a", 1), Sized("a", 2))
            derived == {e \in L!Derived(Project) : \A i \in DOMAIN overrides : overrides[i].path # e.path}
            all     == {<<e.id, e.path>> : e \in derived \cup ToSet(overrides)}
            entries == answer.what
        IN IF answer = L!Refused
           THEN \/ \E i \in DOMAIN overrides : overrides[i].id = ""
                \/ Cardinality({LowerName(e[1]) : e \in all}) < Cardinality(derived) + Len(overrides)
           ELSE /\ {<<entries[i].id, entries[i].path>> : i \in DOMAIN entries} = all
                /\ Cardinality({LowerName(entries[i].id) : i \in DOMAIN entries}) = Len(entries)
                /\ \A path \in {Names.a, Names.b} : \E i \in DOMAIN entries : entries[i].path = path
                /\ \A i \in DOMAIN entries :
                     entries[i].config = IF entries[i].id = "a" THEN Sized("a", 2).of["a"] ELSE L!Null
=============================================================================
