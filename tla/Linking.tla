------------------------------ MODULE Linking ------------------------------
(***************************************************************************)
(* Which company a span of text names: the dictionary that entities/       *)
(* build.py folds from SEC's register and Wikidata, as dictionary.build    *)
(* indexes it, and the decision of entities/resolve.py.                    *)
(*                                                                         *)
(* A name is a sequence of words.  A company's id is one too: its ticker   *)
(* alone, or the words of its name when it has none; no ticker is a word.  *)
(* Confidences are hundredths.                                             *)
(***************************************************************************)
EXTENDS Integers, Sequences, FiniteSets

CONSTANTS
    Registers,     \* SEC's file: rows [cik, ticker, name], in order
    Gazettes,      \* Wikidata: rows [item, label, aliases, parent], as received
    Spans,         \* what is resolved: [surface, span, cik, context]
    LegalForms,    \* LEGAL_SUFFIXES
    CommonWords,   \* everyday words ranked before COMMON_WORD_RANK
    Boilerplate,   \* FEED_BOILERPLATE
    Letters,       \* the length of every word
    Unknown        \* no item, no CIK, no link

VARIABLES
    register, gazette,   \* what the build reads
    companies,           \* the dictionary
    span,                \* the span being resolved
    link                 \* its resolution

linkingVars == <<register, gazette, companies, span, link>>

-----------------------------------------------------------------------------
(* Names.                                                                  *)

FormAt(name) == {i \in DOMAIN name : name[i] \in LegalForms}

First(S) == CHOOSE i \in S : \A j \in S : i <= j

(* strip_legal_suffix: a name that begins with a legal form stays whole.   *)
Stripped(name) ==
    IF FormAt(name) = {} \/ 1 \in FormAt(name) THEN name
    ELSE SubSeq(name, 1, First(FormAt(name)) - 1)

(* has_legal_suffix.                                                       *)
LegalSuffixMaxFromEnd == 2
HasLegalForm(name) ==
    \E i \in FormAt(name) : i > 1 /\ Len(name) - i <= LegalSuffixMaxFromEnd

(* SEC lists a company under a CIK, and no ticker is a word: an id is that *)
(* of a listed company, or of one that is not.                             *)
ASSUME LinkingAssumption ==
    /\ \A r \in Registers : /\ r \in Seq({r[i] : i \in DOMAIN r})
                             /\ \A i \in DOMAIN r : r[i].cik # Unknown
    /\ \A g \in Gazettes : g \in Seq({g[i] : i \in DOMAIN g})
    /\ \A r \in Registers, g \in Gazettes :
          \A i \in DOMAIN r, j \in DOMAIN g : Stripped(g[j].label) # <<r[i].ticker>>
    /\ \A w \in DOMAIN Letters : Letters[w] \in Nat
    /\ \A m \in Spans : m.span \in Seq(DOMAIN Letters)
    /\ Unknown \notin Nat

StartsName(gram, name) ==
    Len(gram) < Len(name) /\ SubSeq(name, 1, Len(gram)) = gram

(* The alias index of dictionary.build: the ids a gram completes the name  *)
(* of, and those it merely starts one of.                                  *)
Completes(d, gram) ==
    {e.id : e \in {f \in d : \E n \in f.names : Stripped(n) = gram}}

Starts(d, gram) ==
    {e.id : e \in {f \in d : \E n \in f.names : StartsName(gram, Stripped(n))}}

-----------------------------------------------------------------------------
(* The build.                                                              *)

(* fetch_sec: a company per CIK, under the ticker of its first row.        *)
Listed(r) ==
    {[id |-> <<r[i].ticker>>, cik |-> r[i].cik, rank |-> i, names |-> {r[i].name}] :
        i \in {j \in DOMAIN r : \A k \in 1..(j - 1) : r[k].cik # r[j].cik}}

(* fetch_wikidata: an item is kept as it first came, with one parent if it *)
(* has several.                                                            *)
Seen(g) ==
    {g[i] : i \in {j \in DOMAIN g : \A k \in 1..(j - 1) : g[k].item # g[j].item}}

(* sec_entity_for: the one registered company a name denotes, if any.      *)
Denoted(listed, name) ==
    LET whole == Completes(listed, Stripped(name))
        begun == Starts(listed, Stripped(name))
    IN  IF Cardinality(whole) = 1 THEN whole
        ELSE IF whole = {} /\ Cardinality(begun) = 1 THEN begun ELSE {}

NamesOf(row) == {row.label} \cup row.aliases

(* _merge: a listed company takes the aliases of the item that bears its   *)
(* name and every name of its subsidiaries; the rest stand for themselves. *)
Merged(r, g) ==
    LET listed == Listed(r)
        items == Seen(g)
        Same(row) == Denoted(listed, row.label)
        Parent(row) == UNION {Denoted(listed, p.label) :
                                 p \in {q \in items : q.item = row.parent}}
        Extra(e) ==
            UNION {row.aliases : row \in {x \in items : e.id \in Same(x)}}
            \cup UNION {NamesOf(row) : row \in {x \in items :
                                         Same(x) = {} /\ e.id \in Parent(x)}}
    IN  {[e EXCEPT !.names = @ \cup Extra(e)] : e \in listed}
        \cup {[id |-> Stripped(row.label), cik |-> Unknown, rank |-> Unknown,
               names |-> NamesOf(row)] :
                 row \in {x \in items : Same(x) = {} /\ Parent(x) = {}}}

-----------------------------------------------------------------------------
(* The decision.                                                           *)

FLOOR == 72

(* _prominence: SEC's order, lower first; what it does not list comes last.*)
Prominence(d, id) ==
    IF \E e \in d : e.id = id /\ e.rank # Unknown
    THEN (CHOOSE e \in d : e.id = id).rank ELSE 1000000

Grams(s) == {g \in (1..Len(s)) \X (1..Len(s)) : g[1] <= g[2]}

(* The letters of a gram.                                                  *)
Size(gram) ==
    Cardinality(UNION {{i} \X (1..Letters[gram[i]]) : i \in DOMAIN gram})

(* _candidate: one complete name, else the most prominent of those begun.  *)
Candidate(d, gram) ==
    LET whole == Completes(d, gram)
    IN  IF whole # {} THEN IF Cardinality(whole) = 1 THEN whole ELSE {}
        ELSE LET begun == Starts(d, gram)
             IN  IF begun = {} THEN {}
                 ELSE {CHOOSE id \in begun :
                         \A o \in begun : Prominence(d, id) <= Prominence(d, o)}

Corroborated(d, context, id) ==
    \E g \in Grams(context) :
        g[1] < g[2] /\ id \in Completes(d, SubSeq(context, g[1], g[2]))

(* Mutant: a name in the middle of the span counts like one at its head.   *)
NameConfidenceAnywhere(d, gram, from) ==
    (IF Completes(d, gram) # {} THEN 90 ELSE 70) - (IF Len(gram) = 1 THEN 10 ELSE 0)

NameConfidence(d, gram, from) ==
    (IF Completes(d, gram) # {} THEN 90 ELSE 70)
    - (IF from > 1 THEN 30 ELSE 0) - (IF Len(gram) = 1 THEN 10 ELSE 0)

MinAliasLetters == 3

(* What a gram of the span says for a company: a common word is no evidence*)
(* by itself.                                                              *)
Evidence(d, m, gram, from, id) ==
    IF Len(gram) = 1 /\ gram[1] \in CommonWords
    THEN IF Corroborated(d, m.context, id) THEN 85 ELSE 20
    ELSE NameConfidence(d, gram, from)

Alias(gram) == Size(gram) + Len(gram) - 1

Proposed(d, m, gram, from) ==
    {[id |-> id, alias |-> Alias(gram), confidence |-> Evidence(d, m, gram, from, id),
      order |-> 1 + from + (Len(m.span) - Len(gram)) * Len(m.span)] :
        id \in Candidate(d, gram)}

(* What every n-gram of the span proposes.                                 *)
ByName(d, m) ==
    LET Gram(g) == SubSeq(m.span, g[1], g[2])
    IN  UNION {Proposed(d, m, Gram(g), g[1]) :
                  g \in {h \in Grams(m.span) : Size(Gram(h)) >= MinAliasLetters}}

(* A span that claims a legal form is a company nobody has indexed.        *)
Minted(m) ==
    LET slug == Stripped(m.span)
    IN  IF HasLegalForm(m.span) /\ Len(slug) > 1
        THEN {[id |-> slug, alias |-> Alias(slug), confidence |-> 75,
               order |-> 1 + Len(m.span) * (Len(m.span) + 1)]}
        ELSE {}

Holder(d, cik) == {e.id : e \in {f \in d : cik # Unknown /\ f.cik = cik}}

(* Confidence, the longer alias, prominence, the order of proposing.       *)
Stronger(d, a, b) ==
    LET Key(x) == <<-x.confidence, -x.alias, Prominence(d, x.id), x.order>>
        ka == Key(a)  kb == Key(b)
    IN  ka = kb \/ \E i \in 1..4 : ka[i] < kb[i] /\ \A j \in 1..(i - 1) : ka[j] = kb[j]

Proposals(d, m) ==
    {[id |-> id, alias |-> 10, confidence |-> 100, order |-> 0] :
        id \in Holder(d, m.cik)}
    \cup ByName(d, m) \cup Minted(m)

Best(d, S) == CHOOSE a \in S : \A b \in S : Stronger(d, a, b)

(* _is_noise; and a CIK no company holds is a person's, unless the span has*)
(* a legal form.                                                           *)
Noise(m) == \A i \in DOMAIN m.surface : m.surface[i] \in Boilerplate
Person(d, m) ==
    m.cik # Unknown /\ Holder(d, m.cik) = {} /\ ~HasLegalForm(m.span)

(* resolve, then _finish: the strongest proposal links if it reaches the   *)
(* floor.                                                                  *)
Decision(d, m) ==
    LET best == Best(d, Proposals(d, m))
    IN  IF Noise(m) \/ Person(d, m) \/ Proposals(d, m) = {} THEN Unknown
        ELSE IF best.confidence >= FLOOR THEN best.id ELSE Unknown

-----------------------------------------------------------------------------

LinkingInit ==
    /\ register \in Registers
    /\ gazette \in Gazettes
    /\ companies = Merged(register, gazette)
    /\ span = Unknown
    /\ link = Unknown

ResolveSpan ==
    /\ span' \in Spans
    /\ link' = Decision(companies, span')
    /\ UNCHANGED <<register, gazette, companies>>

LinkingNext == span = Unknown /\ ResolveSpan

LinkingSpec == LinkingInit /\ [][LinkingNext]_linkingVars

-----------------------------------------------------------------------------

LinkingTypeOK ==
    /\ register \in Registers /\ gazette \in Gazettes
    /\ span \in Spans \cup {Unknown}
    /\ link \in {e.id : e \in companies} \cup {Stripped(m.span) : m \in Spans} \cup {Unknown}
    /\ \A e \in companies : (e.rank = Unknown) = (e.cik = Unknown)

(* The ids that bear a name nobody else bears.                             *)
Sole(gram) == {id \in Completes(companies, gram) :
                  Completes(companies, gram) = {id}}

(* The words a span begins with that are somebody's whole name, and not an *)
(* initial.                                                                *)
HeadNames(m) ==
    {n \in 1..Len(m.span) :
        /\ Sole(SubSeq(m.span, 1, n)) # {}
        /\ Size(SubSeq(m.span, 1, n)) >= MinAliasLetters
        /\ n = 1 => m.span[1] \notin CommonWords}

(* "Unlinked rather than guessed".  A CIK the filing states decides: the   *)
(* first listing of its holder, whatever Wikidata, subsidiaries and their  *)
(* aliases brought into the dictionary, and nobody at all when the filer is*)
(* a person.  Otherwise a link is to the company whose whole name the span *)
(* begins with, and no other company bears - the longest of several words -*)
(* or is earned by a common word the context spells out, or is the span's  *)
(* own name with its legal form.  The beginning of a name never links.     *)
LinksEarned ==
    span # Unknown =>
      LET listings == {i \in DOMAIN register : register[i].cik = span.cik}
          long == {n \in HeadNames(span) : n > 1}
      IN
      /\ ~Noise(span) /\ listings # {} => link = <<register[First(listings)].ticker>>
      /\ span.cik # Unknown /\ listings = {} /\ ~HasLegalForm(span.span) =>
            link = Unknown
      /\ (~Noise(span) /\ span.cik = Unknown /\ long # {}) =>
            link \in Sole(SubSeq(span.span, 1,
                          CHOOSE n \in long : \A k \in long : n >= k))
      /\ link # Unknown /\ listings = {} =>
            \/ \E n \in HeadNames(span) : link \in Sole(SubSeq(span.span, 1, n))
            \/ \E i \in DOMAIN span.span :
                  /\ span.span[i] \in CommonWords
                  /\ Corroborated(companies, span.context, link)
            \/ HasLegalForm(span.span) /\ link = Stripped(span.span)

=============================================================================
