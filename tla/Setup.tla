-------------------------------- MODULE Setup --------------------------------
(***************************************************************************)
(* `cartridge setup` and `cartridge doctor` (src/cli/setup.rs): what is     *)
(* offered and chosen, how it is put under the cartridge root, which files *)
(* of the project are written and vouched for, the questions a cartridge   *)
(* asks, and the report of the doctor.                                     *)
(*                                                                         *)
(* A name is a number, ordered as names are.  A place under the root is    *)
(* nothing, a folder, a link or a clone; links lead somewhere.             *)
(***************************************************************************)
EXTENDS Settings, FiniteSets

CONSTANTS
    Rounds,   (* how often a cartridge's answer is looked at *)
    Bare(_)   (* is_bare_name: a name that can be a folder's *)

-----------------------------------------------------------------------------
(* candidates: the top of each folder in turn, an unreadable manifest has   *)
(* no name; the catalog knows the rest.                                    *)
NoName == 0
Nothing == [is |-> "nothing"]
Folder(at) == [is |-> "folder", at |-> at]
Repository(url) == [is |-> "repository", url |-> url]

Offer(found, name, source) == IF name \in DOMAIN found THEN found ELSE (name :> source) @@ found

OfferFolder(found, scan) ==
    FoldLeft(LAMBDA now, entry : IF entry.nested \/ entry.name = NoName THEN now
                                 ELSE Offer(now, entry.name, Folder(entry.at)),
             found, scan)

Candidates(from, catalog) ==
    LET found  == FoldLeft(OfferFolder, <<>>, from)
        all    == catalog @@ found
        source == [name \in DOMAIN all |-> IF name \in DOMAIN found THEN found[name] ELSE catalog[name]]
        names  == SetToSortSeq(DOMAIN all, <)
    IN [i \in DOMAIN names |-> [name |-> names[i], source |-> source[names[i]]]]

(* select_named: nobody is chosen twice. *)
Named(candidates, name) == SelectSeq(candidates, LAMBDA c : c.name = name)

Chosen(list) == [is |-> "chosen", list |-> list]

SelectNamed(candidates, wanted) ==
    IF \E i \in DOMAIN wanted : Named(candidates, wanted[i]) = <<>> THEN Refused
    ELSE Chosen(FoldLeft(LAMBDA chosen, name :
                             IF Named(chosen, name) # <<>> THEN chosen
                             ELSE Append(chosen, Head(Named(candidates, name))),
                         <<>>, wanted))

(* select: a number counts in the whole list, `all` in what is shown. *)
Select(candidates, shown, answer) ==
    CASE answer.is = "all"  -> Chosen([i \in DOMAIN shown |-> candidates[shown[i]]])
      [] answer.is = "none" -> Chosen(<<>>)
      [] OTHER ->
           LET words == answer.words
           IN IF \E i \in DOMAIN words : words[i].is = "number" /\ words[i].n \notin DOMAIN candidates
              THEN Refused
              ELSE SelectNamed(candidates,
                       [i \in DOMAIN words |->
                           IF words[i].is = "number" THEN candidates[words[i].n].name ELSE words[i].name])

(* choose: what selects nobody narrows the whole list, unless it matches   *)
(* nothing.                                                                *)
Narrowed(shown, matching) ==
    IF matching = {} THEN shown ELSE SetToSortSeq(matching, <)

-----------------------------------------------------------------------------
(* install stops at the first that cannot be put in place; what was put     *)
(* there before stays, a clone without a manifest too.                     *)
Installing(places, installed, refused) ==
    [places |-> places, installed |-> installed, refused |-> refused]

PlaceOf(name) == <<"root", name>>

Cloned(at, c, remote) ==
    IF at.places[c.name] # Nothing \/ remote[c.source.url] = "unreachable"
    THEN Installing(at.places, at.installed, TRUE)
    ELSE Installing([at.places EXCEPT ![c.name] = [is |-> "clone", url |-> c.source.url]],
                    IF remote[c.source.url] = "cartridge" THEN Append(at.installed, c.name) ELSE at.installed,
                    remote[c.source.url] # "cartridge")

Linked(at, c) ==
    LET there == at.places[c.name]
        link  == [is |-> "link", to |-> c.source.at]
    IN IF c.source.at = PlaceOf(c.name) \/ there = link
       THEN Installing(at.places, Append(at.installed, c.name), FALSE)
       ELSE IF there = Nothing
       THEN Installing([at.places EXCEPT ![c.name] = link], Append(at.installed, c.name), FALSE)
       ELSE Installing(at.places, at.installed, TRUE)

Install(places, chosen, remote) ==
    FoldLeft(LAMBDA at, c :
                 IF at.refused THEN at
                 ELSE IF ~Bare(c.name) THEN Installing(at.places, at.installed, TRUE)
                 ELSE IF c.source.is = "repository" THEN Cloned(at, c, remote) ELSE Linked(at, c),
             Installing(places, <<>>, FALSE), chosen)

-----------------------------------------------------------------------------
(* write: the descriptor.  A config is somebody's unless it starts with     *)
(* setup's own header; only what was written here is vouched for.          *)
NoConfig == [by |-> "nobody"]
Written(table) == [by |-> "setup", table |-> table]
Others(table) == [by |-> "somebody", table |-> table]

Describe(config) ==
    [config  |-> IF config = NoConfig THEN Written(Empty) ELSE config,
     vouched |-> {"init"} \cup (IF config = NoConfig THEN {"config"} ELSE {})]

(* recall_hook: the settings document of the editor, left alone when it    *)
(* has another shape or holds the hook already.                            *)
Event == <<"hooks", "UserPromptSubmit">>
Ours == {"prompt-recall"}
EntryOf(document) == IF document = Nothing THEN Empty ELSE document

Hooked(document) ==
    LET at       == EntryOf(document)
        hooks    == Get(at, <<"hooks">>)
        matchers == Get(at, Event)
        list     == IF matchers = Missing THEN <<>> ELSE matchers.of
    IN IF \/ ~IsTable(at)
          \/ hooks # Missing /\ ~IsTable(hooks)
          \/ matchers # Missing /\ matchers.is # "list"
       THEN document
       ELSE IF \E i \in DOMAIN list : Ours \subseteq list[i] THEN document
       ELSE Put(at, Event, [is |-> "list", of |-> Append(list, Ours)])

-----------------------------------------------------------------------------
(* run_setups.  A cartridge is a function from the answers it is sent to    *)
(* its reply; a reply is an error, no object, or an object.                *)
Failed == [is |-> "failed"]
Reply(ask, done, config) == [is |-> "object", ask |-> ask, done |-> done, config |-> config]
NoKey == "no key"

Asked(answers, stopped) == [answers |-> answers, stopped |-> stopped]

(* answer: an empty line takes the default, a null one too.  Without a      *)
(* terminal the first question without a default ends the exchange.        *)
AnswerOne(at, question, person, interactive) ==
    IF at.stopped \/ question.key = NoKey THEN at
    ELSE IF interactive
    THEN Asked((question.key :> IF question.key \in DOMAIN person THEN person[question.key]
                                ELSE question.default) @@ at.answers, FALSE)
    ELSE IF question.default = Null THEN Asked(at.answers, TRUE)
    ELSE Asked((question.key :> question.default) @@ at.answers, FALSE)

AnswerAll(answers, questions, person, interactive) ==
    FoldLeft(LAMBDA at, q : AnswerOne(at, q, person, interactive), Asked(answers, FALSE), questions)

(* A reply that comes after the last round is not looked at, unless it is  *)
(* an error, which ends the whole command.                                 *)
RECURSIVE Round(_, _, _, _, _)
Round(n, answers, cartridge, person, interactive) ==
    LET reply == cartridge[answers]
        asked == AnswerAll(answers, reply.ask, person, interactive)
    IN CASE reply = Failed -> Failed
         [] n = Rounds \/ (reply # Failed /\ reply.is # "object") -> Nothing
         [] OTHER ->
              IF reply.done \/ reply.ask = <<>>
              THEN IF IsTable(reply.config) THEN reply.config ELSE Nothing
              ELSE IF asked.stopped THEN Nothing
              ELSE Round(n + 1, asked.answers, cartridge, person, interactive)

Exchange(cartridge, person, interactive) == Round(0, <<>>, cartridge, person, interactive)

(* One exchange after the other; asks holds the cartridges that declare a  *)
(* setup event.                                                            *)
Answered(asks, person, interactive) ==
    LET result == [id \in DOMAIN asks |-> Exchange(asks[id], person, interactive)]
    IN IF \E id \in DOMAIN asks : result[id] = Failed THEN Failed
       ELSE Table([id \in {i \in DOMAIN asks : result[i] # Nothing} |-> result[id]])

Report(config, vouched, error) == [config |-> config, vouched |-> vouched, error |-> error]

(* What was answered is merged into setup's own config and all of the       *)
(* project is vouched for, unless a file awaits trust: the config itself,  *)
(* which is read like any, or another (strayed).                           *)
RunSetups(config, vouched, files, pending, answered) ==
    CASE answered = Failed -> Report(config, vouched, "setup")
      [] answered = Empty \/ config.by = "somebody" -> Report(config, vouched, "none")
      [] pending # {} -> Report(config, vouched, "untrusted")
      [] OTHER -> Report(Written(Merge(IF config = NoConfig THEN Empty ELSE config.table, answered)),
                         files \cup {"config"}, "none")

-----------------------------------------------------------------------------
(* doctor: whoever declares a doctor event is asked; an error, an answer    *)
(* that is not ok or of another shape is a problem.  Problems are shown    *)
(* first.                                                                  *)
Line(mark, id) == <<mark, id>>
Mark(answer) == IF answer = "ok" THEN "ok" ELSE "!!"

Doctor(composed) ==
    LET enabled == SelectSeq(composed, LAMBDA e : ~e.disabled)
        asks    == SelectSeq(enabled, LAMBDA e : e.doctor # "undeclared")
        silent  == SelectSeq(enabled, LAMBDA e : e.doctor = "undeclared")
        lines   == [i \in DOMAIN silent |-> Line("--", silent[i].id)]
                   \o [i \in DOMAIN asks |-> Line(Mark(asks[i].doctor), asks[i].id)]
        wrong   == SelectSeq(lines, LAMBDA l : l[1] = "!!")
    IN [lines |-> wrong \o SelectSeq(lines, LAMBDA l : l[1] # "!!"), problems |-> Len(wrong)]

=============================================================================
