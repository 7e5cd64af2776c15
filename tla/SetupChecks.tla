----------------------------- MODULE SetupChecks -----------------------------
(***************************************************************************)
(* Setup against what it promises, over small folders, catalogs, roots and *)
(* cartridges that ask.                                                    *)
(***************************************************************************)
LOCAL INSTANCE Settings
LOCAL INSTANCE FiniteSets
LOCAL INSTANCE FiniteSetsExt
LOCAL INSTANCE Functions

LastRound == 2
Sound(n) == n # 3  (* 3 stands for a name that is no folder's *)
S == INSTANCE Setup WITH Rounds <- LastRound, Bare <- Sound

(* Folders and catalogs: two names beside the missing one.                 *)
Names == {1, 2, 3}
Scanned == {[name |-> n, nested |-> below, at |-> <<"checkout", n>>] : n \in {S!NoName, 1, 2}, below \in BOOLEAN}
Scans == {<<>>} \cup {<<a>> : a \in Scanned} \cup {<<a, b>> : a, b \in Scanned}
InRoot(scan) == [i \in DOMAIN scan |-> [scan[i] EXCEPT !.at = S!PlaceOf(scan[i].name)]]
Catalogs == {<<>>, 1 :> S!Repository("u1"), 3 :> S!Repository("u3"),
             (2 :> S!Repository("u2")) @@ (3 :> S!Repository("u3"))}

Tops(scan) == {e \in Range(scan) : ~e.nested /\ e.name # S!NoName}

(* Every name is offered once, in order; a folder comes before another of   *)
(* a later place and before the catalog.  setup.rs:173-201.                *)
ASSUME EveryNameOnce ==
    \A one, two \in Scans, catalog \in Catalogs :
        LET offered == S!Candidates(<<InRoot(one), two>>, catalog)
        IN /\ \A i, j \in DOMAIN offered : i < j => offered[i].name < offered[j].name
           /\ {c.name : c \in Range(offered)} =
                  {e.name : e \in Tops(one) \cup Tops(two)} \cup DOMAIN catalog
           /\ \A c \in Range(offered) :
                  c.source = IF \E e \in Tops(one) : e.name = c.name THEN S!Folder(S!PlaceOf(c.name))
                             ELSE IF \E e \in Tops(two) : e.name = c.name
                             THEN S!Folder(<<"checkout", c.name>>)
                             ELSE catalog[c.name]

Offered == S!Candidates(<<>>, [n \in Names |-> S!Repository("u")])
Words == [is : {"number"}, n : 0 .. 4] \cup [is : {"name"}, name : Names \cup {9}]
Replies == [is : {"all", "none"}]
    \cup {[is |-> "words", words |-> w] : w \in {<<a>> : a \in Words} \cup {<<a, b, a>> : a, b \in Words}}

(* Nobody is chosen twice or without being offered, and an answer that     *)
(* names somebody unknown chooses nobody.  setup.rs:203-284.               *)
ASSUME ChosenAreOffered ==
    \A answer \in Replies, matching \in SUBSET (1 .. 3) :
        LET shown  == S!Narrowed(<<1, 2, 3>>, matching)
            chosen == S!Select(Offered, shown, answer)
        IN /\ answer.is = "words" =>
                (chosen = Refused <=> \E word \in Range(answer.words) :
                    IF word.is = "number" THEN word.n \notin 1 .. 3 ELSE word.name \notin Names)
           /\ answer.is = "all" => ToSet(chosen.list) = {Offered[i] : i \in IF matching = {} THEN 1 .. 3 ELSE matching}
           /\ chosen # Refused => /\ ToSet(chosen.list) \subseteq ToSet(Offered)
                                  /\ Len(chosen.list) = Cardinality(ToSet(chosen.list))

(* Roots with two places, and choices among folders and repositories.      *)
Link(n) == [is |-> "link", to |-> <<"checkout", n>>]
Places == {S!Nothing, S!Folder("kept"), Link(1), Link(2)}
Roots == [{1, 2, 3} -> Places]
Sources(n) == {S!Folder(S!PlaceOf(n)), S!Folder(<<"checkout", n>>), S!Repository("u")}
Selections == {<<[name |-> a, source |-> s], [name |-> b, source |-> t]>> :
               a, b \in {1, 2, 3}, s \in UNION {Sources(n) : n \in Names}, t \in Sources(2)}
Remotes == [{"u"} -> {"unreachable", "bare", "cartridge"}]

Install(root, chosen, remote) == S!Install(root, chosen, remote)

(* Setup puts nothing in the place of what was there, a refused setup too; *)
(* what it counts as installed is its source.  setup.rs:286-347.           *)
ASSUME NothingIsOverwritten ==
    \A root \in Roots, chosen \in Selections, remote \in Remotes :
        LET done == Install(root, chosen, remote)
        IN /\ \A n \in Names : root[n] # S!Nothing => done.places[n] = root[n]
           /\ (\E i \in DOMAIN chosen : ~Sound(chosen[i].name)) => done.refused
           /\ (\A i \in DOMAIN chosen : chosen[i].source.is = "folder" /\ Sound(chosen[i].name)
                                         /\ chosen[i].source.at = S!PlaceOf(chosen[i].name)) => ~done.refused
           /\ ~done.refused => done.installed = [i \in DOMAIN chosen |-> chosen[i].name]
           /\ \A i \in DOMAIN done.installed :
                LET c == chosen[i]
                IN CASE c.source.is = "repository" -> done.places[c.name].is = "clone" /\ remote["u"] = "cartridge"
                     [] c.source.at = S!PlaceOf(c.name) -> TRUE
                     [] OTHER -> done.places[c.name] = [is |-> "link", to |-> c.source.at]

(* An interrupted setup goes on where it stopped as long as it links: once  *)
(* the obstacle is gone the same choice succeeds.  A clone is in its own   *)
(* way, with or without a manifest, and has to be chosen from the root.    *)
ASSUME GoesOnUnlessCloned ==
    \A root \in Roots, chosen \in Selections, remote \in Remotes :
        LET first   == Install(root, chosen, remote)
            cleared == [n \in Names |-> IF n \in Range(first.installed) THEN first.places[n] ELSE S!Nothing]
            again   == Install(cleared, chosen, [u \in {"u"} |-> "cartridge"])
        IN (\A i \in DOMAIN chosen : Sound(chosen[i].name)) /\ chosen[1].name # chosen[2].name
             => (again.refused <=> \E i \in DOMAIN first.installed : chosen[i].source.is = "repository")

(* Matchers of a settings document that is somebody's.                     *)
List(of) == [is |-> "list", of |-> of]
Documents == {S!Nothing, List(<<>>), Empty, Table([other |-> Empty])}
    \cup {Table([hooks |-> h, other |-> Null]) :
             h \in {Null, Empty, List(<<>>)}
                   \cup {Table([UserPromptSubmit |-> m, Stop |-> Empty]) :
                            m \in {Null, Empty, List(<<>>), List(<<{"theirs"}>>),
                                   List(<<{"theirs"}, {"prompt-recall", "more"}>>)}}}

(* The hook is there at most once however often setup runs, nobody else's  *)
(* is moved, and a document of another shape stays as it is.               *)
(* setup.rs:426-500.                                                       *)
ASSUME HookedOnce ==
    \A document \in Documents :
        LET once == S!Hooked(document)
        IN /\ S!Hooked(once) = once
           /\ Get(document, <<"hooks">>) \in {Null, List(<<>>)} => once = document
           /\ once # document =>
                LET before == Get(S!EntryOf(document), S!Event)
                    after  == Get(once, S!Event).of
                IN /\ Cardinality({i \in DOMAIN after : "prompt-recall" \in after[i]}) = 1
                   /\ before # Missing => IsPrefix(before.of, after)
                   /\ \A key \in {<<"other">>, <<"hooks", "Stop">>} :
                        Get(once, key) = Get(S!EntryOf(document), key)

(* Cartridges that ask for a port, then for a host, then for more.         *)
Value(n) == [is |-> "integer", n |-> n]
Answers == UNION {[keys -> {Null, Value(1), Value(2)}] : keys \in SUBSET {"port", "host"}}
Question(key, default) == [key |-> key, default |-> default]
Final(answers) == S!Reply(<<>>, FALSE, Table(answers))
Asking(key, default) == S!Reply(<<Question(S!NoKey, Null), Question(key, default)>>, FALSE, Null)

Silent == [is |-> "text", ask |-> <<>>]
Configured == [is |-> "config"]

(* It wants the keys in order, answers `last` once it has them and is      *)
(* broken from one number of answers on.                                   *)
Cartridge(wants, default, last, broken) ==
    [answers \in Answers |->
        LET missing == SelectSeq(wants, LAMBDA k : k \notin DOMAIN answers)
        IN IF Cardinality(DOMAIN answers) >= broken THEN S!Failed
           ELSE IF missing = <<>> THEN (IF last = Configured THEN Final(answers) ELSE last)
           ELSE Asking(Head(missing), default)]
Endless == [answers \in Answers |-> Asking("port", Value(1))]


Wants == {<<>>, <<"port">>, <<"port", "host">>}
People == {<<>>, [port |-> Value(2)]}

(* What is written is what the cartridge said to all the answers it asked  *)
(* for, given by the person or else by default; it is nothing when it      *)
(* comes after the last round, or when a question without a default        *)
(* meets nobody.  An error, the last round's too, is never taken for an    *)
(* answer.  setup.rs:539-604.                                              *)
Given(key, default, person, interactive) ==
    IF interactive /\ key \in DOMAIN person THEN person[key] ELSE default

ASSUME WrittenIsAnswered ==
    \A wants \in Wants, default \in {Null, Value(1)}, last \in {Configured, Silent},
       broken \in 0 .. 3, person \in People, interactive \in BOOLEAN :
        LET result  == S!Exchange(Cartridge(wants, default, last, broken), person, interactive)
            stops   == ~interactive /\ default = Null /\ wants # <<>>
            reached == IF stops THEN 0 ELSE Len(wants)
        IN CASE broken <= reached -> result = S!Failed
             [] OTHER ->
                  result = IF stops \/ last # Configured \/ Len(wants) >= LastRound THEN S!Nothing
                           ELSE Table([k \in Range(wants) |-> Given(k, default, person, interactive)])

(* A cartridge that never stops asking does not hold the command for ever. *)
ASSUME EndlessIsEnded ==
    \A interactive \in BOOLEAN : S!Exchange(Endless, <<>>, interactive) = S!Nothing

Asks == [{"a", "b"} -> {Cartridge(<<"port">>, Value(1), Configured, broken) : broken \in {1, 3}}
                       \cup {Cartridge(<<>>, Null, Silent, 3)}]
Configs == {S!NoConfig, S!Others(Empty), S!Written(Empty),
            S!Written(Table([a |-> Table([port |-> Value(9), more |-> Value(9)]), c |-> Empty]))}
Files == {"init", "manifest"}

(* A cartridge that fails leaves every config unwritten; a config somebody *)
(* wrote stays his; an entry that answered nothing keeps what it had; and  *)
(* nothing that awaits trust is vouched for.  setup.rs:605-640.            *)
ASSUME AnswersOfAllOrNobody ==
    \A asks \in Asks, config \in Configs, pending \in SUBSET Files :
        LET answered == S!Answered(asks, <<>>, FALSE)
            vouched  == (Files \cup {"config"}) \ pending
            report   == S!RunSetups(config, vouched, Files, pending, answered)
            fails    == \E id \in DOMAIN asks : S!Exchange(asks[id], <<>>, FALSE) = S!Failed
            before   == IF config.by = "setup" THEN config.table ELSE Empty
        IN /\ fails <=> report.error = "setup"
           /\ fails \/ config.by = "somebody" \/ pending # {} => report.config = config
           /\ report.vouched \cap pending = {}
           /\ ~fails /\ report.config # config =>
                \A id \in {"a", "b", "c"} :
                   IF id \in DOMAIN answered.of
                   THEN At(At(report.config.table, id), "port") = Value(1)
                   ELSE At(report.config.table, id) = At(before, id)

(* Setup vouches for no config it did not write.  setup.rs:390-413.         *)
ASSUME VouchesForItsOwn ==
    \A config \in Configs :
        LET done == S!Describe(config)
        IN "config" \in done.vouched <=> done.config # config

Doctored == {<<>>} \cup [1 .. 3 -> [id : {1, 2}, disabled : BOOLEAN,
                                    doctor : {"undeclared", "ok", "not ok", "odd", "error"}]]

(* The doctor shows every enabled cartridge once, the problems first, and   *)
(* fails exactly when an answer was not ok.  setup.rs:678-741.             *)
ASSUME ProblemsFirst ==
    \A composed \in Doctored :
        LET report  == S!Doctor(composed)
            enabled == {i \in DOMAIN composed : ~composed[i].disabled}
            wrong   == {i \in enabled : composed[i].doctor \notin {"undeclared", "ok"}}
        IN /\ report.problems = Cardinality(wrong)
           /\ Len(report.lines) = Cardinality(enabled)
           /\ \A n \in DOMAIN report.lines :
                report.lines[n][1] = "!!" <=> n <= report.problems

=============================================================================
