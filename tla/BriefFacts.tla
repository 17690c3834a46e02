----------------------------- MODULE BriefFacts ------------------------------
(***************************************************************************)
(* What the onboarding interview takes from the model's answer into the     *)
(* brief (src/src/ai/onboarding: updates.ts, brief.schema.ts,               *)
(* metrika-config.ts): an address only if the client named it, a number     *)
(* only with a quotation of the client.                                     *)
(*                                                                         *)
(* A text is a sequence of words, a word a sequence of symbols: digits, or  *)
(* one symbol for the letters of a word.  A message is a text and the       *)
(* web addresses in it; messages are a function of their place in the talk. *)
(* Hosts are compared in one form, transliterated.                          *)
(***************************************************************************)
EXTENDS Integers, Sequences, FiniteSets, FiniteSetsExt, SequencesExt, TLC

MinBudget == 300
BriefFields == {"product", "dailyBudgetRub", "metrika", "conversionGoals", "landingUrl"}
\* "product" stands for the required fields a model may fill by what was meant.
Required == BriefFields
EvidenceFields == {"dailyBudgetRub", "metrika", "conversionGoals"}

-----------------------------------------------------------------------------
(* Numbers and quotations. *)

Digits == {"0", "1", "2", "3", "4", "5", "6", "7", "8", "9"}
DigitValue == [d \in Digits |-> CHOOSE n \in 0 .. 9 : ToString(n) = d]
\* Multipliers: words of their own, and those written on the number.
WordFactor == [w \in {"thousand", "million"} |-> IF w = "thousand" THEN 1000 ELSE 1000000]
GluedFactor == [w \in {"k", "kk", "thousand", "million"} |->
                  IF w \in {"k", "thousand"} THEN 1000 ELSE 1000000]

Value(word) == FoldLeft(LAMBDA v, d : 10 * v + DigitValue[d], 0, word)
IsNumber(word) == word # <<>> /\ \A i \in DOMAIN word : word[i] \in Digits
IsGlued(word) == Len(word) > 1 /\ IsNumber(Front(word)) /\ Last(word) \in DOMAIN GluedFactor

\* Every number a text may be read to name; groups of three digits join.
NumbersIn(text) ==
    LET after(i) == Min({j \in i + 1 .. Len(text) + 1 :
                           IF j > Len(text) THEN TRUE ELSE ~(IsNumber(text[j]) /\ Len(text[j]) = 3)})
        joined(i) == FlattenSeq(SubSeq(text, i, after(i) - 1))
        factor(i) == IF after(i) > Len(text) THEN 1
                     ELSE IF Len(text[after(i)]) = 1 /\ Head(text[after(i)]) \in DOMAIN WordFactor
                          THEN WordFactor[Head(text[after(i)])] ELSE 1
        named(i) == IF IsGlued(text[i])
                    THEN {Value(Front(text[i])) * GluedFactor[Last(text[i])]}
                    ELSE IF IsNumber(text[i])
                    THEN {n * f : n \in {Value(text[i]), Value(joined(i))}, f \in {1, factor(i)}}
                    ELSE {}
    IN  UNION {named(i) : i \in DOMAIN text} \ {0}

\* The normalised text: words with a space between them.
Joined(text) == FlattenSeq([i \in DOMAIN text |-> IF i = 1 THEN text[i] ELSE <<" ">> \o text[i]])
Occurs(needle, hay) ==
    \E i \in 1 .. Len(hay) : SubSeq(hay, i, Min({i + Len(needle) - 1, Len(hay)})) = needle
\* One letter or digit is not a quotation; a word of letters is.
QuoteFound(quote, messages) ==
    /\ quote # <<>>
    /\ Len(Joined(quote)) > 1 \/ ~IsNumber(quote[1])
    /\ \E i \in DOMAIN messages : Occurs(Joined(quote), Joined(messages[i].text))

CheckQuote(numbers, quote, messages) ==
    \/ numbers = {}
    \/ QuoteFound(quote, messages) /\ numbers \subseteq NumbersIn(quote)

-----------------------------------------------------------------------------
(* Web addresses: [host, path, form]. *)

\* "scheme" and "www" are written so; "zone" ends in a domain zone, "word" in a zone
\* that is also a word after a plausible name; "other" is a file, a street, a phrase.
Forms == {"scheme", "www", "zone", "word", "other"}
Recordable(a) == a.form \in {"scheme", "www", "zone"} \/ a.path # ""
Names(a) == Recordable(a) \/ a.form = "word"
Url(a) == [host |-> a.host, path |-> a.path]

MentionsWebAddress(message) == \E i \in DOMAIN message.addresses : Names(message.addresses[i])

\* Steps of editing, two neighbours exchanged being one.
EditDistance(a, b) ==
    LET d[i \in 0 .. Len(a), j \in 0 .. Len(b)] ==
          IF i = 0 THEN j ELSE IF j = 0 THEN i
          ELSE LET near == Min({d[i - 1, j] + 1, d[i, j - 1] + 1,
                                d[i - 1, j - 1] + (IF a[i] = b[j] THEN 0 ELSE 1)})
                   crossed == IF i > 1 /\ j > 1 THEN a[i] = b[j - 1] /\ a[i - 1] = b[j] ELSE FALSE
               IN  IF crossed THEN Min({near, d[i - 2, j - 2] + 1}) ELSE near
    IN  d[Len(a), Len(b)]

HostsLookAlike(a, b) ==
    /\ a # <<>> /\ b # <<>>
    /\ EditDistance(a, b) <= Min({2, Max({1, Min({Len(a), Len(b)}) \div 5})})

ProvenByHost(url, messages) ==
    IF \E i \in DOMAIN messages : \E k \in DOMAIN messages[i].addresses :
          messages[i].addresses[k].host = url.host
    THEN {url} ELSE {}
\* The address to record for the one the model gave: none, or one the client wrote.  A
\* place is a message and which of the addresses in it.
Proven(url, messages) ==
    LET places == UNION {{<<i, k>> : k \in DOMAIN messages[i].addresses} : i \in DOMAIN messages}
        At(p) == messages[p[1]].addresses[p[2]]
        before(p, q) == p[1] < q[1] \/ (p[1] = q[1] /\ p[2] < q[2])
        written == {p \in places : Names(At(p)) /\ Url(At(p)) = url}
        sameHost == {p \in places : Recordable(At(p)) /\ At(p).host = url.host}
        firstOnes == {p \in sameHost : \A q \in sameHost : ~before(q, p)}
        lastOnes == {p \in places : \A i \in DOMAIN messages : i <= p[1]}
        alike == {Url(At(p)) : p \in {q \in lastOnes :
                    Recordable(At(q)) /\ HostsLookAlike(At(q).host, url.host)}}
    IN  IF written # {} THEN {url}
        ELSE IF sameHost # {} THEN {Url(At(p)) : p \in firstOnes}
        ELSE IF Cardinality(alike) = 1 THEN alike ELSE {}

-----------------------------------------------------------------------------
(* The brief: a function from the fields known so far.  A counter, a goal    *)
(* of zero is one the client does not have; "metrika" of zeros, none at all. *)

NoDraft == [f \in {} |-> 0]
EvidenceNumbers(field, value) ==
    (CASE field = "dailyBudgetRub"  -> {value}
       [] field = "metrika"         -> {value.counter, value.goal}
       [] field = "conversionGoals" -> {value[i].goal : i \in DOMAIN value}) \ {0}

\* A goal keeps its name when its id is not the client's.
QuoteOf(turn, f) == IF f \in DOMAIN turn.evidence THEN turn.evidence[f] ELSE <<>>
StripUnprovenGoalIds(turn, messages) ==
    LET goals == turn.updates["conversionGoals"]
        proven(g) == CheckQuote({g.goal} \ {0}, QuoteOf(turn, "conversionGoals"), messages)
    IN  [i \in DOMAIN goals |-> IF proven(goals[i]) THEN goals[i] ELSE [goals[i] EXCEPT !.goal = 0]]

\* applyTurnUpdates, for a turn [asking, done, updates, evidence].
Accepts(turn, f, messages) ==
    /\ f = "landingUrl" => Proven(turn.updates[f], messages) # {}
    /\ f \in EvidenceFields \ {"conversionGoals"} =>
          CheckQuote(EvidenceNumbers(f, turn.updates[f]), QuoteOf(turn, f), messages)
Taken(turn, f, messages) ==
    CASE f = "landingUrl"      -> CHOOSE u \in Proven(turn.updates[f], messages) : TRUE
      [] f = "conversionGoals" -> StripUnprovenGoalIds(turn, messages)
      [] OTHER                 -> turn.updates[f]
ApplyTurnUpdates(draft, turn, messages) ==
    LET accepted == {f \in DOMAIN turn.updates : Accepts(turn, f, messages)}
    IN  [f \in DOMAIN draft \cup accepted |-> IF f \in accepted THEN Taken(turn, f, messages) ELSE draft[f]]

Valid(draft, f) == f \in DOMAIN draft /\ (f = "dailyBudgetRub" => draft[f] >= MinBudget)
MissingBriefFields(draft) == {f \in Required : ~Valid(draft, f)}
\* The schema, for which the fields added last are optional.
ParseCompleteBrief(draft) ==
    MissingBriefFields(draft) \subseteq {"landingUrl", "metrika"} \ DOMAIN draft

\* metrikaConfigFromBrief: a goal of its own, or the only one among the goals.
MetrikaConfigFromBrief(draft) ==
    LET m == IF "metrika" \in DOMAIN draft THEN draft["metrika"] ELSE [counter |-> 0, goal |-> 0]
        refused == "metrika" \in DOMAIN draft /\ m.counter = 0
        among == IF "conversionGoals" \in DOMAIN draft
                 THEN EvidenceNumbers("conversionGoals", draft["conversionGoals"]) ELSE {}
    IN  [counter |-> m.counter,
         goal |-> IF refused THEN 0 ELSE IF m.goal # 0 THEN m.goal
                  ELSE IF Cardinality(among) = 1 THEN CHOOSE n \in among : TRUE ELSE 0]
IsMetrikaConfigComplete(config) == config.counter # 0 /\ config.goal # 0
=============================================================================
