---------------------------- MODULE TopicSelector ---------------------------
(***************************************************************************)
(* Which method receives a message: MethodMatcherCache, the candidates of  *)
(* each group, and ConsumerServiceSelector, which compares the key of a    *)
(* message with the topics of its group by name, by the topics with an     *)
(* asterisk and by those with a pound sign, the last two as regular        *)
(* expressions kept per group from their first use on.                     *)
(*                                                                         *)
(* The broker has routed the message to the group's queue by rules of its  *)
(* own: * is one word and # any number of words.  A key is a sequence of   *)
(* words for the broker and a text for the selector.                       *)
(***************************************************************************)
EXTENDS Integers, Sequences, SequencesExt

CONSTANTS
    Groups,       \* groups of subscribers: queues, each with a list of candidates
    Spelling,     \* words, as a function to their characters
    Letters,      \* the characters of [0-9_a-zA-Z]
    Subscribers,  \* lists of subscribing methods an application may have: their
                  \* group and topic, in the order SelectCandidates finds them
    Keys,         \* the keys that are asked for
    NoExecutor    \* no subscriber is found

ASSUME ListAssumption == /\ NoExecutor \notin Nat
                         /\ \A l \in Subscribers : l \in Seq([group : Groups, topic : Seq(DOMAIN Spelling)])
ASSUME KeyAssumption == /\ Keys \subseteq Seq(DOMAIN Spelling \ {"*", "#"})
                        /\ {"*", "#"} \subseteq DOMAIN Spelling
(* A sign is a word of its own; a dash stands for the characters that no   *)
(* class of the regular expressions has; no two words are spelled alike.   *)
ASSUME SpellingAssumption ==
    /\ {".", "-", "*", "#"} \cap Letters = {}
    /\ Spelling["*"] = <<"*">> /\ Spelling["#"] = <<"#">>
    /\ \A w \in DOMAIN Spelling \ {"*", "#"} : Spelling[w] \in Seq(Letters \union {"-"}) \ {<<>>}
    /\ \A v, w \in DOMAIN Spelling : Spelling[v] = Spelling[w] => v = w

VARIABLES
    candidates,      \* the methods of this application; an executor is a place in it
    entries,         \* MethodMatcherCache.Entries: the groups that are in it
    asteriskList,    \* _asteriskList: a list of executors per group that has one
    poundList,       \* _poundList
    last             \* history: the last lookup and its answer

vars == <<candidates, entries, asteriskList, poundList, last>>

-----------------------------------------------------------------------------
(* The broker                                                              *)

(* A topic routes a key if its words can be dealt out in order: one to     *)
(* each *, any number, but at least least, to each #, and each other word  *)
(* of the topic is met by itself.                                          *)
Routes(topic, key, least) ==
    \E at \in [DOMAIN key -> DOMAIN topic] :
        /\ \A i, j \in DOMAIN key : i <= j => at[i] <= at[j]
        /\ \A p \in DOMAIN topic :
              LET taken == {i \in DOMAIN key : at[i] = p} IN
              IF topic[p] = "#" THEN least = 0 \/ taken # {}
              ELSE \E i \in taken : taken = {i} /\ topic[p] \in {"*", key[i]}

-----------------------------------------------------------------------------
(* Texts and regular expressions                                           *)

Text(words) ==
    FlattenSeq([i \in DOMAIN words |->
                   IF i = 1 THEN Spelling[words[i]] ELSE <<".">> \o Spelling[words[i]]])

(* A regular expression is a sequence of items: a set of characters, and   *)
(* if it may take none of them or more than one.                           *)
Characters == Letters \union {".", "-"}
Item(set, optional, many) == [of |-> set, optional |-> optional, many |-> many]
Once(set) == Item(set, FALSE, FALSE)
OneOrMore(set) == Item(set, FALSE, TRUE)
Star(set) == Item(set, TRUE, TRUE)

(* The items that may be next when those in S may: an item may be skipped. *)
Skipping(regex, S) ==
    {n \in 1 .. Len(regex) + 1 : \E i \in S : i <= n /\ \A k \in i .. n - 1 : regex[k].optional}

(* The items that may be next after a character is taken.                  *)
Taking(regex, S, char) ==
    {n \in 1 .. Len(regex) + 1 :
        \E i \in S \cap DOMAIN regex :
            char \in regex[i].of /\ (n = i + 1 \/ (n = i /\ regex[i].many))}

IsMatch(text, regex) ==
    LET next[j \in 0 .. Len(text)] ==
            Skipping(regex, IF j = 0 THEN {1} ELSE Taking(regex, next[j - 1], text[j]))
    IN  Len(regex) + 1 \in next[Len(text)]

(* Mutant of AsteriskRegex: the class of the asterisk has a dot.           *)
AsteriskRegex_ClassHasDot(topic) ==
    [i \in DOMAIN Text(topic) |->
        IF Text(topic)[i] = "*" THEN OneOrMore(Letters \union {"."}) ELSE Once({Text(topic)[i]})]

(* * becomes [0-9_a-zA-Z]+ and . is escaped.                               *)
AsteriskRegex(topic) ==
    [i \in DOMAIN Text(topic) |->
        IF Text(topic)[i] = "*" THEN OneOrMore(Letters) ELSE Once({Text(topic)[i]})]

(* Mutant of PoundRegex: the class of the pound sign has no dot.           *)
PoundRegex_ClassWithoutDot(topic) ==
    [i \in DOMAIN Text(topic) |->
        IF Text(topic)[i] = "#" THEN OneOrMore(Letters) ELSE Once({Text(topic)[i]})]

(* # becomes [0-9_a-zA-Z\.]+; . stays, for any character, and a * behind   *)
(* it repeats it; a * in front repeats the ^, so that the match may begin  *)
(* anywhere.  (A sign is a word of its own.)                               *)
PoundRegex(topic) ==
    LET t == Text(topic)
        Repeated(i) == i < Len(t) /\ t[i + 1] = "*"
    IN  [i \in DOMAIN t |->
            CASE t[i] = "*" -> Star(IF i = 1 THEN Characters ELSE {})
              [] t[i] = "." -> IF Repeated(i) THEN Star(Characters) ELSE Once(Characters)
              [] t[i] = "#" -> OneOrMore(Letters \union {"."})
              [] OTHER      -> Once({t[i]})]

-----------------------------------------------------------------------------
(* The selector                                                            *)

Topic(x) == candidates[x].topic
Executors(g) == {x \in DOMAIN candidates : candidates[x].group = g}
WithSign(sign, g) == {x \in Executors(g) : Contains(Topic(x), sign)}

(* The first of the executors that pass a test.                            *)
First(passing) ==
    IF passing = {} THEN NoExecutor ELSE CHOOSE x \in passing : \A y \in passing : x <= y

MatchUsingName(key, g) == First({x \in Executors(g) : Topic(x) = key})
MatchAsteriskUsingRegex(key, list) ==
    First({x \in list : IsMatch(Text(key), AsteriskRegex(Topic(x)))})
MatchPoundUsingRegex(key, list) ==
    First({x \in list : IsMatch(Text(key), PoundRegex(Topic(x)))})

(* The list of a group, kept or made; and the dictionary that keeps it.    *)
ListOf(dictionary, sign, g) == IF g \in DOMAIN dictionary THEN dictionary[g] ELSE WithSign(sign, g)
Keep(dictionary, sign, g) ==
    [h \in DOMAIN dictionary \union {g} |-> ListOf(dictionary, sign, h)]

NoLookup == [group |-> "none", key |-> <<>>, found |-> NoExecutor]
Answer(g, key, x) == last' = [group |-> g, key |-> key, found |-> x]

Init ==
    /\ candidates \in Subscribers
    /\ entries = {}
    /\ asteriskList = [g \in {} |-> {}]
    /\ poundList = [g \in {} |-> {}]
    /\ last = NoLookup

(* GetCandidatesMethodsOfGroupNameGrouped adds the groups one by one.      *)
TryAdd(g) ==
    /\ g \notin entries /\ Executors(g) # {}
    /\ entries' = entries \union {g}
    /\ UNCHANGED <<candidates, asteriskList, poundList, last>>

(* Mutant of FoundByAsterisk: one list is kept for all groups.             *)
FoundByAsterisk_OneList(g, key) ==
    LET kept == DOMAIN asteriskList
        list == IF kept = {} THEN WithSign("*", g) ELSE asteriskList[CHOOSE h \in kept : TRUE]
        x == MatchAsteriskUsingRegex(key, list)
    IN  /\ g \in entries
        /\ MatchUsingName(key, g) = NoExecutor /\ x # NoExecutor
        /\ asteriskList' = [h \in kept \union {g} |-> list]
        /\ Answer(g, key, x)
        /\ UNCHANGED <<candidates, entries, poundList>>

(* TryGetTopicExecutor with SelectBestCandidate: the key is the name of a  *)
(* topic, or matches one with *, or else one with #, or none.  The lists   *)
(* are kept when they are first asked.                                     *)
FoundByName(g, key) ==
    /\ g \in entries
    /\ MatchUsingName(key, g) # NoExecutor
    /\ Answer(g, key, MatchUsingName(key, g))
    /\ UNCHANGED <<candidates, entries, asteriskList, poundList>>

FoundByAsterisk(g, key) ==
    LET x == MatchAsteriskUsingRegex(key, ListOf(asteriskList, "*", g)) IN
    /\ g \in entries
    /\ MatchUsingName(key, g) = NoExecutor /\ x # NoExecutor
    /\ asteriskList' = Keep(asteriskList, "*", g)
    /\ Answer(g, key, x)
    /\ UNCHANGED <<candidates, entries, poundList>>

FoundByPoundOrNot(g, key) ==
    /\ g \in entries
    /\ MatchUsingName(key, g) = NoExecutor
    /\ MatchAsteriskUsingRegex(key, ListOf(asteriskList, "*", g)) = NoExecutor
    /\ asteriskList' = Keep(asteriskList, "*", g)
    /\ poundList' = Keep(poundList, "#", g)
    /\ Answer(g, key, MatchPoundUsingRegex(key, ListOf(poundList, "#", g)))
    /\ UNCHANGED <<candidates, entries>>

-----------------------------------------------------------------------------
Lookup(g, key) == FoundByName(g, key) \/ FoundByAsterisk(g, key) \/ FoundByPoundOrNot(g, key)

Next == \E g \in Groups : TryAdd(g) \/ \E key \in Keys : Lookup(g, key)

Spec == Init /\ [][Next]_vars

-----------------------------------------------------------------------------
(* Properties                                                              *)

Asked == last # NoLookup
Plain(key) == \A i \in DOMAIN key : ToSet(Spelling[key[i]]) \subseteq Letters
OneSign(topic) == ~(Contains(topic, "*") /\ Contains(topic, "#"))

(* The answer to a lookup when the lists are made for it.                  *)
Best(g, key) ==
    LET named == MatchUsingName(key, g)
        starred == MatchAsteriskUsingRegex(key, WithSign("*", g))
    IN  IF named # NoExecutor THEN named
        ELSE IF starred # NoExecutor THEN starred
        ELSE MatchPoundUsingRegex(key, WithSign("#", g))

(* A kept list changes no answer: whatever was looked up before and in     *)
(* which order, a group's answer is that of its own candidates.            *)
AnsweredAsAtFirst == Asked => last.found = Best(last.group, last.key)

(* A message that a subscription brought into the queue of a group finds a *)
(* subscriber there, if its words are of letters, no # of the topic stands *)
(* for nothing and the topic does not use both signs.                      *)
RoutedIsFound ==
    Asked /\ Plain(last.key) =>
        \A x \in Executors(last.group) :
            OneSign(Topic(x)) /\ Routes(Topic(x), last.key, 1) => last.found # NoExecutor

(* The subscriber that is found is of the message's group, and a topic     *)
(* without # is bound to the message's key: no list of another group or of *)
(* an earlier lookup is used, and no expression lets through more than the *)
(* broker does.                                                            *)
FoundIsBound ==
    Asked /\ last.found # NoExecutor =>
        /\ candidates[last.found].group = last.group
        /\ ~Contains(Topic(last.found), "#") => Routes(Topic(last.found), last.key, 0)

=============================================================================
